----------------------------- MODULE MCRelease -----------------------------
(***************************************************************************)
(* Small instances of Release, one study per question.                     *)
(***************************************************************************)
EXTENDS Release

Grouped(s, d, o, t, l) == [src |-> s, dst |-> d, others |-> o, at |-> t, label |-> l]

R(s, d, t, l) == Grouped(s, d, 0, t, l)

MCSeeds == {<<1, 2, 3, 4, 5, 6, 7>>, <<4, 7, 2, 6, 1, 5, 3>>}

(* Four rows of two conversations, one of them seen in both directions,    *)
(* with and without a long silence; the first row is fixed, being named.   *)
Pairs == {<<1, 2>>, <<2, 1>>, <<1, 3>>}

Varied ==
  {<<R(1, 2, 0, "n")>> \o [k \in 1..3 |-> R(p[k][1], p[k][2], t[k], "a")] :
     p \in [1..3 -> Pairs], t \in [1..3 -> {0, 1, 3}]}

(* Four rows of one conversation whose other columns are or are not those  *)
(* of their direction, or without one or both endpoint columns.            *)
Ported ==
  {<<Grouped(e[1], e[2], 1, 0, "n")>> \o
      [k \in 1..3 |-> IF q[k][1] THEN Grouped(e[3], e[4], q[k][2], t[k], "a")
                                 ELSE Grouped(e[1], e[2], q[k][2], t[k], "a")] :
     e \in {<<1, 2, 2, 1>>, <<1, NoColumn, 2, NoColumn>>,
            <<NoColumn, NoColumn, NoColumn, NoColumn>>},
     q \in [1..3 -> {<<FALSE, 1>>, <<TRUE, 1>>, <<TRUE, 2>>}],
     t \in {<<0, 1, 3>>, <<1, 1, 2>>}}

Told ==
  <<R(1, 2, 0, "n"), R(2, 1, 1, "a"), R(1, 3, 3, "b"), R(2, 3, 4, "c")>>

(* The second row has no time, the rest is one conversation or three.      *)
Untimed ==
  <<R(1, 2, 0, "n"), R(1, 2, NoTime, "a"), R(2, 1, 5, "b"), R(1, 2, 9, "c")>>

(* Seven rows, enough for windows of two rows in each part: three          *)
(* conversations that overlap or not, with and without long silences.      *)
Long(a, b, c, d, e) ==
  <<R(1, 2, 0, "n"), R(2, 1, a, "a"), R(1, 2, b, "a"), R(1, 3, c, "n"), R(3, 1, c + d, "b"),
    R(2, 3, e, "c"), R(2, 3, e + 1, "b")>>

Longs == {Long(a, b, c, d, e) : a \in {1, 4}, b \in {5, 6}, c \in {0, 1, 7}, d \in {1, 3},
                                e \in {2, 5}}
Longer == Long(1, 5, 1, 1, 5)

MCTables == Varied \union Ported \union Longs \union {Told, Untimed}

ByRow      == [strategy |-> "row_random", length |-> 1, stride |-> 1, gap |-> 1,
               test |-> 50, val |-> 25, chronological |-> TRUE]
BySession  == [ByRow EXCEPT !.strategy = "session_temporal", !.test = 15, !.val = 15]
Windows    == [ByRow EXCEPT !.strategy = "windows", !.length = 2, !.gap = 2, !.test = 15,
                            !.val = 15, !.chronological = FALSE]
WindowsTwo == [Windows EXCEPT !.test = 34, !.val = 50, !.chronological = TRUE]

MCConfigs == {ByRow, BySession, Windows, WindowsTwo}

None   == [signature |-> FALSE, certified |-> FALSE]
Vouch  == [signature |-> TRUE, certified |-> TRUE]
MCRequired     == {Vouch, [Vouch EXCEPT !.signature = FALSE]}
MCRequirements == MCRequired \union {None}

Step(records, wanted, max, packets) ==
  [records |-> records, wanted |-> wanted, max |-> max, packets |-> packets, closed |-> FALSE]

Live == <<1, 2, 3, 1, 2>>

Feeds ==
  {[kind |-> "memory", steps |-> <<Step(Live, 1..5, NoMax, 5)>>],
   [kind |-> "scenario", steps |-> <<Step(<<1, 2>>, {2}, NoMax, 2), Step(<<1, 1, 2>>, 1..3, 2, 9)>>],
   [kind |-> "scenario", steps |-> <<Step(<<1, 2, 3>>, 1..3, NoMax, 2), Step(<<3, 1>>, 1..2, 0, 2)>>],
   [kind |-> "socket", steps |-> <<Step(Live, {1, 3, 4, 5}, 3, 9)>>],
   [kind |-> "mqtt", steps |-> <<[Step(Live, {1, 2, 5}, NoMax, 9) EXCEPT !.closed = TRUE]>>],
   [kind |-> "mqtt", steps |-> <<Step(Live, {1, 2, 5}, 2, 9)>>]}

Shuffled == {<<4, 7, 2, 6, 1, 5, 3>>}

Nothing ==
  [tables |-> {Told}, seeds |-> Shuffled, configs |-> {ByRow}, trainers |-> {"federated"}, required |-> {None},
   preparations |-> 1, partitions |-> 0, runs |-> 0, certifications |-> 0, demos |-> 0,
   stops |-> FALSE, feeds |-> {}]

(* The split of every table; the files and the clients; training and       *)
(* certification; streams; demos.                                          *)
MCStudies ==
  <<[Nothing EXCEPT !.seeds = MCSeeds, !.tables = MCTables, !.configs = MCConfigs],
    [Nothing EXCEPT !.tables = {Told, Longer}, !.configs = {ByRow, BySession, Windows},
                    !.preparations = 2, !.partitions = 2, !.stops = TRUE],
    [Nothing EXCEPT !.trainers = Trainers, !.required = MCRequired, !.runs = 2,
                    !.certifications = 2],
    [Nothing EXCEPT !.runs = 1, !.feeds = Feeds],
    [Nothing EXCEPT !.configs = {ByRow, BySession}, !.preparations = 2, !.runs = 1,
                    !.demos = 1, !.stops = TRUE],
    [Nothing EXCEPT !.tables = {Longer}, !.configs = {BySession, Windows},
                    !.preparations = 2, !.runs = 1, !.demos = 1]>>
=============================================================================
