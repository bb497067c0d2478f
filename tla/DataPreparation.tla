--------------------------- MODULE DataPreparation ---------------------------
(***************************************************************************)
(* The preparation of the training data (data/preprocess.py and            *)
(* data/temporal.py), and its partition among the clients                  *)
(* (data/partition.py, federated/loaders.py).                              *)
(*                                                                         *)
(* A row of the raw table has two endpoints, the other columns that flows  *)
(* are grouped by (the same in every preparation), a time and a label; the *)
(* features are left out.  An example is a window: the rows it is made of, *)
(* one when sequence_length is 1.  Fractions are in percent.  The          *)
(* configured seed draws the rows in one order, the same in every          *)
(* preparation; sessions are shuffled by it too.                           *)
(*                                                                         *)
(* A preparation writes its files one after another and may stop in        *)
(* between.                                                                *)
(***************************************************************************)
EXTENDS Integers, Sequences, FiniteSets, SequencesExt

CONSTANTS
  Tables,           (* what the raw CSV may hold                            *)
  Seeds,            (* the place at which each row is drawn                 *)
  Configs,          (* the data section of a configuration                  *)
  Clients,          (* a set of numbers                                     *)
  MinSamples,       (* min_samples_per_client                               *)
  MaxPreparations,  (* bound: preparations started                          *)
  MaxPartitions     (* bound: partitions started                            *)

NoTime   == -1
NoColumn == -1

(* An endpoint is a host, with its TCP port if both ports are grouped by;  *)
(* NoColumn if its column is not grouped by.  The others, together, are    *)
(* the rest of the group columns: udp.port, udp.stream and ip.proto by     *)
(* default, which may tell the directions of a conversation apart.         *)
Row    == [src : Nat \union {NoColumn}, dst : Nat \union {NoColumn}, others : Nat,
           at : Nat \union {NoTime}, label : STRING]
Config == [strategy : {"row_random", "session_temporal", "windows"},
           length : Nat \ {0}, stride : Nat \ {0}, gap : Nat, test : 0..99, val : 0..100,
           chronological : BOOLEAN]

(* A column is grouped by in every row or in none.  preprocess() makes     *)
(* windows of a length above 1.                                            *)
ASSUME InputsAssumption ==
  /\ Tables \subseteq Seq(Row)
  /\ \A t \in Tables : \A i, j \in DOMAIN t :
       /\ t[i].src = NoColumn <=> t[j].src = NoColumn
       /\ t[i].dst = NoColumn <=> t[j].dst = NoColumn
  /\ \A seed \in Seeds :
       seed \in Seq(Nat) /\ IsInjective(seed) /\ \A t \in Tables : Len(t) <= Len(seed)
  /\ Configs \subseteq Config
  /\ \A c \in Configs : IF c.strategy = "windows" THEN c.length > 1
                        ELSE c.length = 1 /\ c.stride = 1 /\ c.chronological
  /\ Clients \subseteq Nat /\ Clients # {} /\ IsFiniteSet(Clients)
  /\ MinSamples \in Nat \ {0}
  /\ MaxPreparations \in Nat /\ MaxPartitions \in Nat

VARIABLES
  table,        (* the raw CSV                                              *)
  seeded,       (* what the seed draws                                      *)
  disk,         (* the files of the output directory                        *)
  preparing,    (* the preparation under way and the files it has to write  *)
  partitions,   (* per client: the positions in x_train of its examples     *)
  partitioning, (* the partition under way and the clients left to write    *)
  started,      (* preparations and partitions started                      *)
  prepCut,      (* history: a preparation stopped after its first file      *)
  partCut       (* history: the client files may not be of one partition of *)
                (* the arrays: one stopped half-way, or they came later     *)

prepVars == <<table, seeded, disk, preparing, partitions, partitioning, started,
              prepCut, partCut>>

-----------------------------------------------------------------------------
(* A finite set put in an order, which is given by its pairs: the k-th     *)
(* member has k - 1 before it.  (TLC evaluates the SubSeq at once, the     *)
(* function each time it is applied.)                                      *)
Arranged(set, before) ==
  LET member(k) == CHOOSE i \in set : Cardinality({j \in set : <<j, i>> \in before}) = k - 1
  IN  SubSeq([k \in 1..Cardinality(set) |-> member(k)], 1, Cardinality(set))

InOrder(set) == Arranged(set, {p \in set \X set : p[1] < p[2]})

AsDrawn(set) == Arranged(set, {p \in set \X set : seeded[p[1]] < seeded[p[2]]})

PairBefore(a, b) == a[1] < b[1] \/ (a[1] = b[1] /\ a[2] < b[2])

-----------------------------------------------------------------------------
(* temporal.py.                                                            *)

(* Mutant of FlowKey: the endpoints are not put in order.                  *)
FlowKeyDirected(r) == <<r.src, r.dst, r.others>>

(* add_flow_key(): the endpoints, put in order if both are there, and the  *)
(* other columns as they are.                                              *)
FlowKey(r) ==
  IF NoColumn \notin {r.src, r.dst} /\ r.dst < r.src
  THEN <<r.dst, r.src, r.others>>
  ELSE <<r.src, r.dst, r.others>>

(* sessionize(): rows with a time, by flow and time, in a stable order.    *)
Timed == {k \in DOMAIN table : table[k].at # NoTime}

SortsBefore(i, j) ==
  LET a == FlowKey(table[i])
      b == FlowKey(table[j])
  IN  \/ PairBefore(a, b)
      \/ a[1] = b[1] /\ a[2] = b[2] /\ a[3] < b[3]
      \/ a = b /\ PairBefore(<<table[i].at, i>>, <<table[j].at, j>>)

Ordered == Arranged(Timed, {p \in Timed \X Timed : SortsBefore(p[1], p[2])})

(* A session starts with its flow and after every gap that is too long.    *)
Starts(ordered, gap) ==
  {k \in DOMAIN ordered :
     \/ k = 1
     \/ FlowKey(table[ordered[k - 1]]) # FlowKey(table[ordered[k]])
     \/ table[ordered[k]].at - table[ordered[k - 1]].at > gap}

Sessions(gap) ==
  LET ordered == Ordered
      first   == InOrder(Starts(ordered, gap))
  IN  [n \in DOMAIN first |->
         SubSeq(ordered, first[n], IF n = Len(first) THEN Len(ordered) ELSE first[n + 1] - 1)]

(* build_sequence_index(): how many rows of a session are before each of   *)
(* its windows.                                                            *)
Offsets(session, config) ==
  {k \in 0..Len(session) - config.length : k % config.stride = 0}

WindowAt(session, offset, config) == SubSeq(session, offset + 1, offset + config.length)

-----------------------------------------------------------------------------
(* preprocess.py.                                                          *)

AtLeast(n, m) == IF n < m THEN m ELSE n

(* int(round(x / 100)), half to even.                                      *)
Rounded(x) ==
  LET n == x \div 100
  IN  IF x % 100 > 50 \/ (x % 100 = 50 /\ n % 2 = 1) THEN n + 1 ELSE n

TestCount(total, config) ==
  IF total > 1 THEN AtLeast(Rounded(total * config.test), 1) ELSE 1

(* Both cut back when the test sessions leave too few.                     *)
ValCount(total, config) ==
  LET wanted == IF total > 2 THEN AtLeast(Rounded(total * config.val), 1) ELSE 0
      test   == TestCount(total, config)
  IN  IF test + wanted >= total THEN AtLeast(total - test - 1, 0) ELSE wanted

(* The sessions that have windows, in the order they are dealt out: by the *)
(* time they began, or shuffled.                                           *)
DealtOut(sessions, config) ==
  LET used     == {n \in DOMAIN sessions : Offsets(sessions[n], config) # {}}
      began(n) == <<table[sessions[n][1]].at, n>>
  IN  IF config.chronological
      THEN Arranged(used, {p \in used \X used : PairBefore(began(p[1]), began(p[2]))})
      ELSE AsDrawn(used)

(* The windows of the chosen sessions, one session after the other.        *)
WindowsIn(chosen, sessions, config) ==
  LET places == UNION {{c} \X Offsets(sessions[chosen[c]], config) : c \in DOMAIN chosen}
      inTurn == Arranged(places, {p \in places \X places : PairBefore(p[1], p[2])})
  IN  [k \in DOMAIN inTurn |->
         WindowAt(sessions[chosen[inTurn[k][1]]], inTurn[k][2], config)]

(* _split_temporal_ids_by_session()                                        *)
SplitBySession(config) ==
  LET sessions == Sessions(config.gap)
      order    == DealtOut(sessions, config)
      total    == Len(order)
      test     == TestCount(total, config)
      val      == ValCount(total, config)
      train    == total - test - val
      Part(m, n) == WindowsIn(SubSeq(order, m, n), sessions, config)
  IN  IF order = << >> THEN [train |-> << >>, val |-> << >>, test |-> << >>]
      ELSE IF config.chronological
      THEN [train |-> Part(1, train),
            val   |-> Part(train + 1, train + val),
            test  |-> Part(train + val + 1, total)]
      ELSE [train |-> Part(test + val + 1, total),
            val   |-> Part(test + 1, test + val),
            test  |-> Part(1, test)]

(* train_test_split() rounds its test size up.  Its stratification only    *)
(* narrows what the seed may draw.                                         *)
SplitByRow(config) ==
  LET drawn == AsDrawn(DOMAIN table)
      rows  == [k \in DOMAIN drawn |-> <<drawn[k]>>]
      Up(x, y) == (x + y - 1) \div y
      test == Up(Len(rows) * config.test, 100)
      val  == Up((Len(rows) - test) * config.val, 100 - config.test)
  IN  [train |-> SubSeq(rows, test + val + 1, Len(rows)),
       val   |-> SubSeq(rows, test + 1, test + val),
       test  |-> SubSeq(rows, 1, test)]

Split(config) == IF config.strategy = "row_random" THEN SplitByRow(config) ELSE SplitBySession(config)

RowsOf(windows) == UNION {Range(windows[k]) : k \in DOMAIN windows}

(* heldout_row_indices: the test rows in the order of y_test; or the last  *)
(* rows of the test windows, once each, in the order of the table.         *)
HeldoutOf(config, test) ==
  IF config.strategy = "windows"
  THEN InOrder({Last(test[k]) : k \in DOMAIN test})
  ELSE [k \in DOMAIN test |-> test[k][1]]

Preparation(config) == [config |-> config, split |-> Split(config)]

(* _save_prepared(), and the index of _preprocess_temporal() before it.    *)
FilesOf(config) ==
  IF config.strategy = "windows"
  THEN <<"index", "arrays", "preprocessor", "encoder", "metadata", "heldout">>
  ELSE <<"arrays", "preprocessor", "encoder", "metadata", "heldout">>

Files   == {"index", "arrays", "preprocessor", "encoder", "metadata", "heldout"}
Missing == [is |-> "missing"]
Torn    == [is |-> "torn"]
Whole(preparation) == [is |-> "whole", of |-> preparation]
Readable(file) == disk[file].is = "whole"

Resting == [left |-> << >>]

(* The files a reader of the arrays and of the held-out rows finds belong  *)
(* to one preparation, if none was cut short and none is under way.        *)
Steady == preparing = Resting /\ ~prepCut

PrepInit ==
  /\ table \in Tables
  /\ seeded \in Seeds
  /\ disk = [file \in Files |-> Missing]
  /\ preparing = Resting
  /\ partitions = [c \in Clients |-> << >>]
  /\ partitioning = Resting
  /\ started = [preparations |-> 0, partitions |-> 0]
  /\ prepCut = FALSE
  /\ partCut = TRUE

(* Mutant of Preprocess: only a test part is asked for.                    *)
PreprocessUntrained(config) ==
  /\ preparing = Resting
  /\ started.preparations < MaxPreparations
  /\ started' = [started EXCEPT !.preparations = @ + 1]
  /\ LET p == Preparation(config)
     IN  preparing' = IF p.split.test = << >> THEN Resting
                      ELSE [left |-> FilesOf(config), of |-> p]
  /\ UNCHANGED <<table, seeded, disk, partitions, partitioning, prepCut, partCut>>

(* preprocess().  It refuses a split with an empty part.                   *)
Preprocess(config) ==
  /\ preparing = Resting
  /\ started.preparations < MaxPreparations
  /\ started' = [started EXCEPT !.preparations = @ + 1]
  /\ LET p == Preparation(config)
     IN  preparing' = IF << >> \in {p.split.train, p.split.val, p.split.test} THEN Resting
                      ELSE [left |-> FilesOf(config), of |-> p]
  /\ UNCHANGED <<table, seeded, disk, partitions, partitioning, prepCut, partCut>>

SaveFile ==
  /\ preparing # Resting
  /\ LET file == Head(preparing.left)
         left == Tail(preparing.left)
     IN  /\ disk' = [disk EXCEPT ![file] = Whole(preparing.of)]
         /\ preparing' = IF left = << >> THEN Resting ELSE [preparing EXCEPT !.left = left]
         /\ partCut' = (partCut \/ (file = "arrays" /\ disk["arrays"] # Whole(preparing.of)))
  /\ UNCHANGED <<table, seeded, partitions, partitioning, started, prepCut>>

(* The preparation stops, with or without a part of its next file.         *)
StopPreparing ==
  /\ preparing # Resting
  /\ preparing' = Resting
  /\ \/ disk' = disk
     \/ disk' = [disk EXCEPT ![Head(preparing.left)] = Torn]
  /\ prepCut' = TRUE
  /\ partCut' = (partCut \/ disk'["arrays"] # disk["arrays"])
  /\ UNCHANGED <<table, seeded, partitions, partitioning, started>>

-----------------------------------------------------------------------------
(* create_partitions.py: the examples are dealt out to the clients, class  *)
(* by class until every client has MinSamples (dirichlet_partition(), with *)
(* any seed; min_class_samples would narrow the deals further), or in      *)
(* parts of one size but for the rest (iid_partition()).                   *)
Arrays == disk["arrays"].of.split

ShareOf(deal, c) == {k \in DOMAIN deal : deal[k] = c}

Sufficing(deal) == \A c \in Clients : Cardinality(ShareOf(deal, c)) >= MinSamples

Even(deal) ==
  \A c, d \in Clients :
    c < d => Cardinality(ShareOf(deal, c)) - Cardinality(ShareOf(deal, d)) \in {0, 1}

CreatePartitions(deal) ==
  /\ partitioning = Resting
  /\ Readable("arrays") /\ Readable("metadata")
  /\ started.partitions < MaxPartitions
  /\ DOMAIN deal = DOMAIN Arrays.train
  /\ Sufficing(deal) \/ Even(deal)
  /\ started' = [started EXCEPT !.partitions = @ + 1]
  /\ partitioning' = [left |-> InOrder(Clients), deal |-> deal, of |-> disk["arrays"]]
  /\ UNCHANGED <<table, seeded, disk, preparing, partitions, prepCut, partCut>>

(* save_partitions(), one client at a time.  Which of its examples come    *)
(* first is left to the deal.                                              *)
SavePartition ==
  /\ partitioning # Resting
  /\ LET c    == Head(partitioning.left)
         left == Tail(partitioning.left)
         deal == partitioning.deal
     IN  /\ partitions' = [partitions EXCEPT ![c] = InOrder(ShareOf(deal, c))]
         /\ partitioning' = IF left = << >> THEN Resting ELSE [partitioning EXCEPT !.left = left]
         /\ partCut' = (left # << >> \/ partitioning.of # disk["arrays"])
  /\ UNCHANGED <<table, seeded, disk, preparing, started, prepCut>>

StopPartitioning ==
  /\ partitioning # Resting
  /\ partitioning' = Resting
  /\ UNCHANGED <<table, seeded, disk, preparing, partitions, started, prepCut, partCut>>

(* client_loaders(): a client trains on the first four fifths of its       *)
(* examples and is validated on the others, or on the last if there is     *)
(* none.  Without examples it has nothing to train on.                     *)
TrainedCount(n) == AtLeast((8 * n) \div 10, 1)

ClientTrain(c) ==
  {partitions[c][k] : k \in 1..TrainedCount(Len(partitions[c])) \intersect DOMAIN partitions[c]}
ClientVal(c) ==
  LET n == Len(partitions[c])
      t == TrainedCount(n)
  IN  IF t < n THEN {partitions[c][k] : k \in t + 1..n} ELSE {partitions[c][n]}

PrepNext ==
  \/ \E config \in Configs : Preprocess(config)
  \/ SaveFile
  \/ StopPreparing
  \/ Readable("arrays") /\ \E deal \in [DOMAIN Arrays.train -> Clients] : CreatePartitions(deal)
  \/ SavePartition
  \/ StopPartitioning

PrepTypeOK ==
  /\ \A k \in DOMAIN table : table[k] \in Row
  /\ seeded \in Seeds
  /\ \A file \in Files :
       \/ disk[file] \in {Missing, Torn}
       \/ Readable(file) /\ disk[file].of.config \in Configs
  /\ Range(preparing.left) \subseteq Files
  /\ preparing # Resting =>
       \A part \in {"train", "val", "test"} :
         /\ preparing.of.split[part] # << >>
         /\ RowsOf(preparing.of.split[part]) \subseteq DOMAIN table
  /\ \A c \in Clients : partitions[c] \in Seq(Nat)
  /\ Range(partitioning.left) \subseteq Clients
  /\ started \in [preparations : 0..MaxPreparations, partitions : 0..MaxPartitions]
  /\ prepCut \in BOOLEAN /\ partCut \in BOOLEAN

-----------------------------------------------------------------------------
(* What a split must keep apart.                                           *)

(* Two rows of one flow, in the same or, with both endpoints known, in     *)
(* opposite directions: the other group columns do not tell them apart.    *)
SameFlow(r, s) ==
  /\ r.others = s.others
  /\ \/ r.src = s.src /\ r.dst = s.dst
     \/ NoColumn \notin {r.src, r.dst} /\ r.src = s.dst /\ r.dst = s.src

(* Two rows of one flow with no long silence between them.                 *)
Together(i, j, gap) ==
  /\ SameFlow(table[i], table[j])
  /\ table[i].at - table[j].at \in -gap..gap

(* When the session a window is of began.                                  *)
Began(window, sessions) ==
  LET n == CHOOSE m \in DOMAIN sessions : window[1] \in Range(sessions[m])
  IN  table[sessions[n][1]].at

(* Training, validation and test share no row; by sessions, they share no  *)
(* stretch of a flow either, in whichever direction its packets went, as   *)
(* long as both endpoint columns are grouped by and the other group        *)
(* columns agree (udp.port, which is not put in order, may make two flows  *)
(* of one conversation); and in chronological order nothing tested began   *)
(* before anything trained on.                                             *)
KeptApart(p) ==
  LET gap      == p.config.gap
      sessions == Sessions(gap)
      Apart(a, b) ==
        \A i \in RowsOf(a), j \in RowsOf(b) :
          i # j /\ (p.config.strategy # "row_random" => ~Together(i, j, gap))
  IN  /\ Apart(p.split.train, p.split.val)
      /\ Apart(p.split.train, p.split.test)
      /\ Apart(p.split.val, p.split.test)
      /\ p.config.strategy # "row_random" /\ p.config.chronological =>
           \A k \in DOMAIN p.split.train, n \in DOMAIN p.split.test :
             Began(p.split.train[k], sessions) <= Began(p.split.test[n], sessions)

(* The files of one partition deal out every example once; then no client  *)
(* is validated on an example another trains on, nor on one of its own     *)
(* training unless it has a single example.                                *)
ClientsApart ==
  ~partCut =>
    /\ UNION {Range(partitions[c]) : c \in Clients} = DOMAIN Arrays.train
    /\ \A c, d \in Clients :
         /\ c # d => Range(partitions[c]) \intersect Range(partitions[d]) = {}
         /\ Len(partitions[c]) > 1 => ClientVal(c) \intersect ClientTrain(d) = {}
=============================================================================
