------------------------- MODULE IntegrityStrategy -------------------------
(***************************************************************************)
(* The federated trust integrity layer: IntegrityAwareStrategy             *)
(* (federated/integrity_strategy.py) in the rounds that Flower runs, with  *)
(* the trust history of PCAClusterEMAFilter (integrity/detector.py), the   *)
(* robust means (integrity/aggregation.py) and the trust log.              *)
(*                                                                         *)
(* A client is the node id that Flower authenticates.  An update is one    *)
(* parameter of a model, an integer; the aggregations treat parameters one *)
(* by one.  What clustering finds is left open: any set of clients that    *)
(* the fallback to min_benign_fraction allows may be the benign ones.      *)
(* Trust is an integer, rounded down, of which Unit is 1.0; it is exact    *)
(* while 10 divides Unit once for each round.                              *)
(***************************************************************************)
EXTENDS Integers, FiniteSets, SequencesExt

CONSTANTS
  Clients,        (* the nodes that train                                   *)
  Honest,         (* those of them that send honest values                  *)
  Values,         (* values of the parameter                                *)
  HonestValues,   (* those an honest client may arrive at                   *)
  Weights,        (* num-examples                                           *)
  Methods,        (* the aggregation methods considered                     *)
  Quorum,         (* min_security_quorum                                    *)
  TrimNumerator, TrimDenominator,   (* trim_ratio                           *)
  Unit,           (* trust 1.0                                              *)
  Rounds          (* num-server-rounds                                      *)

MethodKinds == {"trimmed_mean", "coordinate_median", "weighted_mean"}

ASSUME ClientsAssumption == IsFiniteSet(Clients) /\ Honest \subseteq Clients
ASSUME ValuesAssumption  == HonestValues \subseteq Values /\ Values \subseteq Int
ASSUME MethodsAssumption == Methods \subseteq MethodKinds /\ Weights \subseteq Nat
ASSUME QuorumAssumption  == Quorum \in Nat /\ Rounds \in Nat
ASSUME TrimAssumption    ==
  /\ TrimNumerator \in Nat /\ TrimDenominator \in Nat
  /\ 2 * TrimNumerator < TrimDenominator
ASSUME UnitAssumption    == Unit \in Nat \ {0} /\ Unit % 100 = 0

VARIABLES
  method,         (* aggregation_method                                     *)
  pc,             (* the step of the run that comes next                    *)
  round,          (* server_round                                           *)
  model,          (* the global model                                       *)
  trust,          (* the detector's history                                 *)
  cur,            (* what aggregate_train() has worked out                  *)
  line,           (* the last line of the trust log, which is only appended *)
  demerits,       (* history: rounds of this run that put a client outside  *)
                  (* the benign cluster                                     *)
  streak          (* history: rounds on end that put it inside, up to two   *)

vars == <<method, pc, round, model, trust, cur, line, demerits, streak>>

-----------------------------------------------------------------------------
(* Updates and their aggregation.                                          *)

Update == [value : Values, weight : Weights]

(* A mean is the pair of a sum and of what to divide it by.                *)
Mean(sum, count) == [sum |-> sum, count |-> count]

TrimCount(n) == (n * TrimNumerator) \div TrimDenominator

(* The clients of the updates, in the order of their values.               *)
Ordered(updates) ==
  CHOOSE order \in Bijection(1..Cardinality(DOMAIN updates), DOMAIN updates) :
    \A i, j \in DOMAIN order : i < j => updates[order[i]].value <= updates[order[j]].value

Sorted(updates) ==
  LET order == Ordered(updates) IN [k \in DOMAIN order |-> updates[order[k]].value]

(* The sum of a sequence of numbers, as a recursive function, which proofs *)
(* can unfold.                                                             *)
Total(s) ==
  LET upTo[n \in 0..Len(s)] == IF n = 0 THEN 0 ELSE upTo[n - 1] + s[n]
  IN  upTo[Len(s)]

MeanOf(s) == Mean(Total(s), Len(s))

(* Mutant of TrimmedMean: only the smallest values are cut off.            *)
TrimmedMeanFromBelow(updates) ==
  LET s == Sorted(updates)
  IN  MeanOf(SubSeq(s, TrimCount(Len(s)) + 1, Len(s)))

TrimmedMean(updates) ==
  LET s    == Sorted(updates)
      trim == TrimCount(Len(s))
  IN  MeanOf(SubSeq(s, trim + 1, Len(s) - trim))

CoordinateMedian(updates) ==
  LET s == Sorted(updates)
      n == Len(s)
  IN  MeanOf(SubSeq(s, (n + 1) \div 2, n \div 2 + 1))

WeightedAverage(updates) ==
  LET order == Ordered(updates)
  IN  Mean(Total([k \in DOMAIN order |-> updates[order[k]].value * updates[order[k]].weight]),
           Total([k \in DOMAIN order |-> updates[order[k]].weight]))

Aggregate(updates) ==
  CASE method = "coordinate_median" -> CoordinateMedian(updates)
    [] method = "trimmed_mean"      -> TrimmedMean(updates)
    [] method = "weighted_mean"     -> WeightedAverage(updates)

-----------------------------------------------------------------------------
(* The detector.                                                           *)

(* Mutants of Smoothed: the score is not weighed; ema_alpha weighs the     *)
(* history, not the round.                                                 *)
SmoothedUnweighed(old, score)   == score + (7 * old) \div 10
SmoothedTheOtherWay(old, score) == (3 * old + 7 * score) \div 10

(* ema_alpha = 0.3, reject_below_trust = 0.35                              *)
Smoothed(old, score) == (3 * score + 7 * old) \div 10

Trusted(t) == 100 * t >= 35 * Unit

Score(c, benign) == IF c \in benign THEN Unit ELSE 0

(* min_benign_fraction = 0.5: clustering or its fallback keeps half of the *)
(* clients at least, and all of them if there are fewer than three or if   *)
(* nothing separates them.                                                 *)
MayBeBenign(benign, clients) ==
  IF Cardinality(clients) < 3 THEN benign = clients
  ELSE benign \subseteq clients /\ 2 * Cardinality(benign) >= Cardinality(clients)

-----------------------------------------------------------------------------
(* A reply is an error (or there is none: the node was not sampled), fails *)
(* validate_update(), or is an update.                                     *)
Reply(kind, update) == [kind |-> kind, update |-> update]

NoUpdate == [value |-> 0, weight |-> 0]

RepliesOf(c) ==
  {Reply(kind, NoUpdate) : kind \in {"error", "invalid"}} \union
  {Reply("valid", update) : update \in
     [value : IF c \in Honest THEN HonestValues ELSE Values, weight : Weights]}

RepliesOfAll ==
  {replies \in [Clients -> UNION {RepliesOf(c) : c \in Clients}] :
     \A c \in Clients : replies[c] \in RepliesOf(c)}

OfKind(replies, kind) == {c \in Clients : replies[c].kind = kind}

NoLine == [round |-> 0, accepted |-> {}, invalid |-> {}, rejected |-> {}]
Nothing == [line |-> NoLine, updates |-> << >>]
InitialModel == Mean(0, 1)

Line  == [round : Nat, accepted : SUBSET Clients, invalid : SUBSET Clients,
          rejected : SUBSET Clients]
Steps == {"down", "train", "log", "aggregate", "done"}

TypeOK ==
  /\ method \in Methods
  /\ pc \in Steps
  /\ round \in 0..Rounds + 1
  /\ model \in [sum : Int, count : Nat]
  /\ trust \in [Clients -> 0..Unit]
  /\ cur.line \in Line
  /\ cur.updates \in [cur.line.accepted -> Update]
  /\ line \in Line
  /\ demerits \in [Clients -> Nat]
  /\ streak \in [Clients -> 0..2]

Fresh ==
  /\ round' = 1
  /\ model' = InitialModel
  /\ trust' = [c \in Clients |-> Unit]
  /\ cur' = Nothing
  /\ demerits' = [c \in Clients |-> 0]
  /\ streak' = [c \in Clients |-> 0]

Init ==
  /\ method \in Methods
  /\ pc = "down"
  /\ round = 1
  /\ model = InitialModel
  /\ trust = [c \in Clients |-> Unit]
  /\ cur = Nothing
  /\ line = NoLine
  /\ demerits = [c \in Clients |-> 0]
  /\ streak = [c \in Clients |-> 0]

-----------------------------------------------------------------------------
(* A run: server_app.main() and Flower's loop.                             *)

StartRun ==
  /\ pc \in {"down", "done"}
  /\ Rounds > 0
  /\ pc' = "train"
  /\ Fresh
  /\ UNCHANGED <<method, line>>

EndRound ==
  /\ pc' = IF round < Rounds THEN "train" ELSE "done"
  /\ round' = round + 1
  /\ cur' = Nothing

(* The process ends, or an exception leaves aggregate_train() and the run: *)
(* everything but the log is lost.                                         *)
Stop ==
  /\ pc \in {"train", "log", "aggregate"}
  /\ pc' = "down"
  /\ Fresh
  /\ UNCHANGED <<method, line>>

-----------------------------------------------------------------------------
(* aggregate_train().  A round with error replies only leaves no line.     *)

NoReplies(replies) ==
  /\ pc = "train"
  /\ OfKind(replies, "error") = Clients
  /\ EndRound
  /\ UNCHANGED <<method, model, trust, line, demerits, streak>>

ToLog(replies, accepted, rejected) ==
  /\ cur' = [line    |-> [round |-> round, accepted |-> accepted,
                          invalid |-> OfKind(replies, "invalid"),
                          rejected |-> rejected],
             updates |-> [c \in accepted |-> replies[c].update]]
  /\ pc' = "log"

BelowQuorum(replies) ==
  /\ pc = "train"
  /\ OfKind(replies, "error") # Clients
  /\ Cardinality(OfKind(replies, "valid")) < Quorum
  /\ ToLog(replies, {}, {})
  /\ UNCHANGED <<method, round, model, trust, line, demerits, streak>>

(* Mutant of NewTrust: the trust of a client once rejected stays.          *)
NewTrustOfTrusted(clients, benign) ==
  [c \in Clients |-> IF c \in clients /\ Trusted(trust[c])
                     THEN Smoothed(trust[c], Score(c, benign)) ELSE trust[c]]

(* _update_trust()                                                         *)
NewTrust(clients, benign) ==
  [c \in Clients |-> IF c \in clients
                     THEN Smoothed(trust[c], Score(c, benign)) ELSE trust[c]]

Detect(replies, benign) ==
  LET clients  == OfKind(replies, "valid")
      accepted == {c \in clients : Trusted(trust'[c])}
  IN  /\ pc = "train"
      /\ OfKind(replies, "error") # Clients
      /\ Cardinality(clients) >= Quorum
      /\ MayBeBenign(benign, clients)
      /\ trust' = NewTrust(clients, benign)
      /\ ToLog(replies, accepted, clients \ accepted)
      /\ demerits' = [c \in Clients |->
           IF c \in clients \ benign THEN demerits[c] + 1 ELSE demerits[c]]
      /\ streak' = [c \in Clients |->
           IF c \notin clients THEN streak[c]
           ELSE IF c \in benign /\ streak[c] < 2 THEN streak[c] + 1
           ELSE IF c \in benign THEN 2 ELSE 0]
      /\ UNCHANGED <<method, round, model, line>>

(* Mutant of LogEvidence: the round goes on if the line cannot be written. *)
LogEvidenceIfPossible ==
  /\ pc = "log"
  /\ line' \in {line, cur.line}
  /\ pc' = "aggregate"
  /\ UNCHANGED <<method, round, model, trust, cur, demerits, streak>>

LogEvidence ==
  /\ pc = "log"
  /\ line' = cur.line
  /\ pc' = "aggregate"
  /\ UNCHANGED <<method, round, model, trust, cur, demerits, streak>>

KeepModel ==
  /\ pc = "aggregate"
  /\ cur.line.accepted = {}
  /\ EndRound
  /\ UNCHANGED <<method, model, trust, line, demerits, streak>>

(* Without any weight weighted_average() raises, which is a Stop.          *)
NewModel ==
  /\ pc = "aggregate"
  /\ cur.line.accepted # {}
  /\ Aggregate(cur.updates).count > 0
  /\ model' = Aggregate(cur.updates)
  /\ EndRound
  /\ UNCHANGED <<method, trust, line, demerits, streak>>

-----------------------------------------------------------------------------
Train ==
  \E replies \in RepliesOfAll :
    \/ NoReplies(replies)
    \/ BelowQuorum(replies)
    \/ \E benign \in SUBSET OfKind(replies, "valid") : Detect(replies, benign)

Next ==
  \/ StartRun
  \/ Train
  \/ LogEvidence
  \/ KeepModel
  \/ NewModel
  \/ Stop

Spec == Init /\ [][Next]_vars

-----------------------------------------------------------------------------
(* Properties.                                                             *)

(* A model is never replaced without evidence: its round is in the trust   *)
(* log, with the clients whose updates it was made from, each of them      *)
(* trusted at that time, and a quorum of valid updates behind it.          *)
ModelHasEvidence ==
  [][NewModel => /\ line.round = round
                 /\ line.accepted = DOMAIN cur.updates
                 /\ \A c \in line.accepted : Trusted(trust[c])
                 /\ Cardinality(line.accepted \union line.rejected) >= Quorum]_vars

(* "a single bad round does not sink a client" (README.md:136): whatever   *)
(* the rounds before, a client is rejected only after three rounds of the  *)
(* run put it outside the benign cluster.                                  *)
SlowToReject == \A c \in Clients : ~Trusted(trust[c]) => demerits[c] >= 3

(* And no past is held against a client for long: two benign rounds on end *)
(* and its updates are accepted, however low its trust had fallen.         *)
QuickToReturn == \A c \in Clients : streak[c] = 2 => Trusted(trust[c])

(* What the robust methods are for: when as many values as they trim, or   *)
(* less than half for the median, come from clients that are not honest,   *)
(* the aggregate lies within the honest values.                            *)
Strangers(updates) == DOMAIN updates \ Honest

Outvoted(updates) ==
  LET n == Cardinality(DOMAIN updates)
      d == Cardinality(Strangers(updates))
  IN  CASE method = "trimmed_mean"      -> d <= TrimCount(n)
        [] method = "coordinate_median" -> 2 * d < n
        [] method = "weighted_mean"     -> d = 0

Within(mean, updates) ==
  LET honest == {updates[c].value : c \in DOMAIN updates \intersect Honest}
  IN  /\ \E low  \in honest : low * mean.count <= mean.sum
      /\ \E high \in honest : mean.sum <= high * mean.count

WithinHonest ==
  LET updates == cur.updates
  IN  pc = "aggregate" /\ DOMAIN updates # {} /\ Outvoted(updates) =>
        Within(Aggregate(updates), updates)

(* "refuses to aggregate that round at all, instead of silently accepting  *)
(* every survivor and degenerating the robust aggregator into a plain      *)
(* mean" (configs/edge_iiot.yaml:88-91): the trimmed mean of a round that  *)
(* met the quorum does trim.                                               *)
TrimmedMeanTrims ==
  pc = "aggregate" /\ method = "trimmed_mean" /\ DOMAIN cur.updates # {} =>
    TrimCount(Cardinality(DOMAIN cur.updates)) > 0

=============================================================================
