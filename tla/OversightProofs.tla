--------------------------- MODULE OversightProofs ---------------------------
(***************************************************************************)
(* Proofs about Oversight, for any number of agents, evaluations under way *)
(* at once, decisions, restarts, analysts, labels and failing writes: what *)
(* the label store shows, what a refit replays, and that the reports agree.*)
(***************************************************************************)
EXTENDS Oversight, SequenceTheorems, FiniteSetTheorems, WellFoundedInduction, TLAPS

-----------------------------------------------------------------------------
(* Steps and types.                                                        *)

(* What a step does to the label store.                                    *)
StoreStep ==
  \/ \E a \in Analysts :
       \/ \E label \in Label : Show(a, label)
       \/ OpenStore(a)
       \/ OpenRaises(a)
       \/ AppendLabel(a)
       \/ AppendRaises(a)
       \/ Again(a)
  \/ \E k \in DOMAIN labels, label \in Label : EditLabel(k, label)
  \/ \E n \in 0..Len(labels) - 1 : CutLabels(n)

LEMMA StepsOfStore ==
  [Next]_vars =>
    /\ limit' = limit
    /\ StoreStep \/ UNCHANGED <<labels, torn, analyst, recorded, meddled>>
<1> SUFFICES ASSUME [Next]_vars
             PROVE  /\ limit' = limit
                    /\ StoreStep \/ UNCHANGED <<labels, torn, analyst, recorded, meddled>>
  OBVIOUS
<1>1. CASE Boundary
  BY <1>1 DEF Boundary, Tick, Score, EndScored, EndRejected, Restart, labelVars
<1>2. CASE UpdateReputation
  BY <1>2 DEF UpdateReputation, labelVars
<1>3. CASE Labelling
  BY <1>3 DEF Labelling, StoreStep, Show, OpenStore, OpenRaises, AppendLabel,
              AppendRaises, Again, EditLabel, CutLabels
<1>4. CASE UNCHANGED vars
  BY <1>4 DEF vars, labelVars
<1> QED
  BY <1>1, <1>2, <1>3, <1>4 DEF Next

(* The four places of a run of label_trust_decision.py.                    *)
LEMMA RunKinds ==
  ASSUME LabelsTyped, NEW a \in Analysts
  PROVE  /\ analyst[a].at = "shown" => analyst[a].label \in Label
         /\ analyst[a].at = "open" => analyst[a].label \in Label /\ analyst[a].lastHash \in Hash
<1>1. analyst[a] \in {NotStarted, [at |-> "end"]}
                       \union [at : {"shown"}, label : Label]
                       \union [at : {"open"}, label : Label, lastHash : Hash]
  BY DEF LabelsTyped
<1> QED
  BY <1>1 DEF NotStarted

LEMMA LastHashTyped ==
  ASSUME LabelsTyped
  PROVE  LastHash \in Hash
<1>1. CASE labels = << >>
  BY <1>1, EmptySeq DEF LastHash, Genesis, Hash
<1>2. CASE labels # << >>
  <2>1. Len(labels) \in DOMAIN labels
    BY <1>2, EmptySeq DEF LabelsTyped
  <2>2. labels[Len(labels)] \in LabelLine
    BY <2>1, ElementOfSeq DEF LabelsTyped
  <2> QED
    BY <1>2, <2>2 DEF LastHash, LabelLine
<1> QED
  BY <1>1, <1>2

LEMMA LineTyped ==
  ASSUME NEW label \in Label, NEW hash \in Hash
  PROVE  Line(label, hash) \in LabelLine
<1>1. HashAfter(hash, label) \in Hash
  BY DEF HashAfter, Hash
<1> QED
  BY <1>1 DEF Line, LabelLine

(* What append() adds is the last line, and the lines before stay.         *)
LEMMA AppendedLine ==
  ASSUME NEW s \in Seq(LabelLine), NEW l \in LabelLine
  PROVE  /\ Append(s, l) \in Seq(LabelLine)
         /\ Len(Append(s, l)) = Len(s) + 1
         /\ DOMAIN Append(s, l) = 1..Len(s) + 1
         /\ \A k \in DOMAIN s : k \in DOMAIN Append(s, l) /\ Append(s, l)[k] = s[k]
         /\ Append(s, l)[Len(s) + 1] = l
         /\ DOMAIN s = 1..Len(s) /\ Len(s) \in Nat
OBVIOUS

(* An edit changes the label of one line and nothing else.                 *)
LEMMA EditedLines ==
  ASSUME LabelsTyped, NEW k \in DOMAIN labels, NEW label \in Label, EditLabel(k, label)
  PROVE  /\ labels' \in Seq(LabelLine)
         /\ DOMAIN labels' = DOMAIN labels
         /\ \A j \in DOMAIN labels : /\ labels'[j].entry = labels[j].entry
                                     /\ labels'[j].previous = labels[j].previous
                                     /\ labels'[j].written = labels[j].written
<1>1. labels' = [labels EXCEPT ![k].label = label] /\ labels \in Seq(LabelLine)
  BY DEF EditLabel, LabelsTyped
<1>2. labels[k] \in LabelLine
  BY <1>1, ElementOfSeq
<1>3. [labels[k] EXCEPT !.label = label] \in LabelLine
  BY <1>2 DEF LabelLine
<1>4. labels' = [labels EXCEPT ![k] = [labels[k] EXCEPT !.label = label]]
  BY <1>1
<1>5. labels' \in Seq(LabelLine) /\ DOMAIN labels' = DOMAIN labels
  BY <1>1, <1>3, <1>4, ExceptSeq
<1>6. /\ labels'[k] = [labels[k] EXCEPT !.label = label]
      /\ \A j \in DOMAIN labels \ {k} : labels'[j] = labels[j]
  BY <1>1, <1>4
<1> QED
  BY <1>2, <1>5, <1>6 DEF LabelLine

LEMMA CutLines ==
  ASSUME LabelsTyped, NEW n \in 0..Len(labels) - 1, CutLabels(n)
  PROVE  /\ labels' \in Seq(LabelLine)
         /\ DOMAIN labels' = 1..n
         /\ \A j \in 1..n : j \in DOMAIN labels /\ labels'[j] = labels[j]
<1>1. labels' = SubSeq(labels, 1, n) /\ labels \in Seq(LabelLine)
  BY DEF CutLabels, LabelsTyped
<1>2. n \in Nat /\ n <= Len(labels) /\ DOMAIN labels = 1..Len(labels)
  BY <1>1
<1>3. \A j \in 1..n : labels[j] \in LabelLine
  BY <1>1, <1>2, ElementOfSeq
<1> QED
  BY <1>1, <1>2, <1>3, SubSeqProperties

LEMMA NextTyped == LabelsTyped /\ [Next]_vars => LabelsTyped'
<1> SUFFICES ASSUME LabelsTyped, [Next]_vars
             PROVE  LabelsTyped'
  OBVIOUS
<1> DEFINE Runs == {NotStarted, [at |-> "end"]}
                     \union [at : {"shown"}, label : Label]
                     \union [at : {"open"}, label : Label, lastHash : Hash]
<1>1. UNCHANGED <<Label, Hash, LabelLine, NotStarted>>
  BY StepsOfStore DEF Label, Hash, LabelLine, NotStarted
<1>2. labels \in Seq(LabelLine) /\ analyst \in [Analysts -> Runs]
  BY DEF LabelsTyped
<1> SUFFICES labels' \in Seq(LabelLine) /\ analyst' \in [Analysts -> Runs]
  BY <1>1 DEF LabelsTyped
<1>3. ASSUME NEW a \in Analysts, NEW label \in Label, Show(a, label)
      PROVE  labels' \in Seq(LabelLine) /\ analyst' \in [Analysts -> Runs]
  BY <1>2, <1>3 DEF Show
<1>4. ASSUME NEW a \in Analysts, OpenStore(a)
      PROVE  labels' \in Seq(LabelLine) /\ analyst' \in [Analysts -> Runs]
  <2>1. analyst[a].label \in Label /\ LastHash \in Hash
    BY <1>4, RunKinds, LastHashTyped DEF OpenStore
  <2> QED
    BY <1>2, <1>4, <2>1 DEF OpenStore
<1>5. ASSUME NEW a \in Analysts, OpenRaises(a) \/ AppendRaises(a) \/ Again(a)
      PROVE  labels' \in Seq(LabelLine) /\ analyst' \in [Analysts -> Runs]
  BY <1>2, <1>5 DEF OpenRaises, AppendRaises, Again
<1>6. ASSUME NEW a \in Analysts, AppendLabel(a)
      PROVE  labels' \in Seq(LabelLine) /\ analyst' \in [Analysts -> Runs]
  <2>1. Line(analyst[a].label, analyst[a].lastHash) \in LabelLine
    BY <1>6, RunKinds, LineTyped DEF AppendLabel
  <2>2. labels' \in Seq(LabelLine)
    BY <1>2, <1>6, <2>1, AppendedLine DEF AppendLabel
  <2> QED
    BY <1>2, <1>6, <2>2 DEF AppendLabel
<1>7. ASSUME NEW k \in DOMAIN labels, NEW label \in Label, EditLabel(k, label)
      PROVE  labels' \in Seq(LabelLine) /\ analyst' \in [Analysts -> Runs]
  BY <1>2, <1>7, EditedLines DEF EditLabel
<1>8. ASSUME NEW n \in 0..Len(labels) - 1, CutLabels(n)
      PROVE  labels' \in Seq(LabelLine) /\ analyst' \in [Analysts -> Runs]
  BY <1>2, <1>8, CutLines DEF CutLabels
<1>9. CASE UNCHANGED <<labels, torn, analyst, recorded, meddled>>
  BY <1>2, <1>9
<1> QED
  BY <1>3, <1>4, <1>5, <1>6, <1>7, <1>8, <1>9, StepsOfStore DEF StoreStep

-----------------------------------------------------------------------------
(* What the lines hold.                                                    *)

LEMMA NextLines == LabelsTyped /\ LinesTrue /\ [Next]_vars => LinesTrue'
<1> SUFFICES ASSUME LabelsTyped, LinesTrue, [Next]_vars
             PROVE  LinesTrue'
  OBVIOUS
<1>0. /\ labels \in Seq(LabelLine)
      /\ \A k \in DOMAIN labels :
           labels[k].entry = HashAfter(labels[k].previous, labels[k].written)
      /\ ~torn /\ "cut" \notin meddled =>
           \A label \in recorded : \E k \in DOMAIN labels : labels[k].written = label
  BY DEF LabelsTyped, LinesTrue
<1>1. ASSUME UNCHANGED <<labels, recorded>>, ~torn' => ~torn, meddled \subseteq meddled'
      PROVE  LinesTrue'
  BY <1>0, <1>1 DEF LinesTrue, HashAfter
<1>2. ASSUME NEW a \in Analysts, AppendLabel(a), ~torn
      PROVE  LinesTrue'
  <2>1. PICK l : l = Line(analyst[a].label, analyst[a].lastHash)
    OBVIOUS
  <2>2. /\ l \in LabelLine
        /\ l.entry = HashAfter(l.previous, l.written)
        /\ l.written = analyst[a].label
    BY <1>2, <2>1, RunKinds, LineTyped DEF AppendLabel, Line
  <2>3. labels' = Append(labels, l) /\ UNCHANGED <<torn, meddled>>
        /\ recorded' = recorded \union {analyst[a].label}
    BY <1>2, <2>1 DEF AppendLabel
  <2>4. /\ DOMAIN labels' = 1..Len(labels) + 1
        /\ \A k \in DOMAIN labels : k \in DOMAIN labels' /\ labels'[k] = labels[k]
        /\ labels'[Len(labels) + 1] = l
        /\ DOMAIN labels = 1..Len(labels) /\ Len(labels) \in Nat
    BY <1>0, <2>2, <2>3, AppendedLine
  <2>5. \A k \in DOMAIN labels' : k \in DOMAIN labels \/ k = Len(labels) + 1
    BY <2>4
  <2>6. \A k \in DOMAIN labels' :
          labels'[k].entry = HashAfter(labels'[k].previous, labels'[k].written)
    BY <1>0, <2>2, <2>4, <2>5 DEF HashAfter
  <2>7. Len(labels) + 1 \in DOMAIN labels'
    BY <2>4
  <2>8. ~torn /\ "cut" \notin meddled =>
          \A label \in recorded' : \E k \in DOMAIN labels' : labels'[k].written = label
    BY <1>0, <2>2, <2>3, <2>4, <2>7
  <2> QED
    BY <2>3, <2>6, <2>8 DEF LinesTrue, HashAfter
<1>3. ASSUME NEW a \in Analysts, AppendLabel(a), torn
      PROVE  LinesTrue'
  BY <1>0, <1>3 DEF AppendLabel, LinesTrue, HashAfter
<1>4. ASSUME NEW k \in DOMAIN labels, NEW label \in Label, EditLabel(k, label)
      PROVE  LinesTrue'
  <2>1. UNCHANGED <<torn, recorded>> /\ meddled \subseteq meddled'
    BY <1>4 DEF EditLabel
  <2> QED
    BY <1>0, <1>4, <2>1, EditedLines DEF LinesTrue, HashAfter
<1>5. ASSUME NEW n \in 0..Len(labels) - 1, CutLabels(n)
      PROVE  LinesTrue'
  <2>1. "cut" \in meddled'
    BY <1>5 DEF CutLabels
  <2> QED
    BY <1>0, <1>5, <2>1, CutLines DEF LinesTrue, HashAfter
<1>6. ASSUME NEW a \in Analysts,
             \/ \E label \in Label : Show(a, label)
             \/ OpenStore(a) \/ OpenRaises(a) \/ AppendRaises(a) \/ Again(a)
      PROVE  LinesTrue'
  BY <1>1, <1>6 DEF Show, OpenStore, OpenRaises, AppendRaises, Again
<1> QED
  BY <1>1, <1>2, <1>3, <1>4, <1>5, <1>6, StepsOfStore DEF StoreStep

LEMMA NextUnmeddled == LabelsTyped /\ StoreUnmeddled /\ [Next]_vars => StoreUnmeddled'
<1> SUFFICES ASSUME LabelsTyped, StoreUnmeddled, [Next]_vars, meddled' = {}
             PROVE  /\ \A k \in DOMAIN labels' : Linked(k)'
                    /\ \A a \in Analysts : analyst'[a].at = "open" =>
                         /\ analyst'[a].lastHash = LastHash'
                         /\ \A b \in Analysts \ {a} : analyst'[b].at # "open"
  BY DEF StoreUnmeddled
<1>0. meddled \subseteq meddled' /\ meddled = {}
  BY StepsOfStore DEF StoreStep, Show, OpenStore, OpenRaises, AppendLabel, AppendRaises,
     Again, EditLabel, CutLabels
<1>1. /\ \A k \in DOMAIN labels : Linked(k)
      /\ \A a \in Analysts : analyst[a].at = "open" =>
           /\ analyst[a].lastHash = LastHash
           /\ \A b \in Analysts \ {a} : analyst[b].at # "open"
      /\ labels \in Seq(LabelLine)
      /\ DOMAIN analyst = Analysts
  BY <1>0 DEF StoreUnmeddled, LabelsTyped
<1>2. ASSUME labels' = labels
      PROVE  LastHash' = LastHash /\ \A k \in DOMAIN labels' : Linked(k)'
  BY <1>1, <1>2 DEF LastHash, Linked, PreviousHash
<1>3. ASSUME NEW a \in Analysts, OpenStore(a)
      PROVE  \A b \in Analysts : analyst'[b].at = "open" =>
               /\ analyst'[b].lastHash = LastHash'
               /\ \A c \in Analysts \ {b} : analyst'[c].at # "open"
  <2>1. \A b \in Analysts \ {a} : analyst[b].at # "open"
    BY <1>0, <1>3 DEF OpenStore
  <2>2. /\ analyst'[a].lastHash = LastHash
        /\ \A b \in Analysts \ {a} : analyst'[b] = analyst[b]
        /\ labels' = labels
    BY <1>1, <1>3 DEF OpenStore
  <2> QED
    BY <1>2, <2>1, <2>2
<1>4. ASSUME NEW a \in Analysts, AppendLabel(a), ~torn
      PROVE  /\ \A k \in DOMAIN labels' : Linked(k)'
             /\ \A b \in Analysts : analyst'[b].at # "open"
  <2>1. PICK l : l = Line(analyst[a].label, analyst[a].lastHash)
    OBVIOUS
  <2>2. /\ l \in LabelLine
        /\ l.previous = LastHash
        /\ l.entry = HashAfter(LastHash, l.label)
        /\ \A b \in Analysts \ {a} : analyst[b].at # "open"
    BY <1>1, <1>4, <2>1, RunKinds, LineTyped DEF AppendLabel, Line
  <2>3. /\ labels' = Append(labels, l)
        /\ analyst' = [analyst EXCEPT ![a] = [at |-> "end"]]
    BY <1>4, <2>1 DEF AppendLabel
  <2>4. \A b \in Analysts : analyst'[b].at # "open"
    BY <1>1, <2>2, <2>3
  <2>5. /\ DOMAIN labels' = 1..Len(labels) + 1
        /\ \A k \in DOMAIN labels : k \in DOMAIN labels' /\ labels'[k] = labels[k]
        /\ labels'[Len(labels) + 1] = l
        /\ DOMAIN labels = 1..Len(labels) /\ Len(labels) \in Nat
    BY <1>1, <2>2, <2>3, AppendedLine
  <2>6. ASSUME NEW k \in DOMAIN labels
        PROVE  Linked(k)'
    <3>1. labels'[k] = labels[k] /\ (k # 1 => labels'[k - 1] = labels[k - 1])
      BY <2>5
    <3> QED
      BY <1>1, <3>1 DEF Linked, PreviousHash, HashAfter
  <2>7. ASSUME NEW k, k = Len(labels) + 1
        PROVE  Linked(k)'
    <3>1. LastHash = IF k = 1 THEN Genesis ELSE labels'[k - 1].entry
      <4>1. labels = << >> <=> k = 1
        BY <1>1, <2>5, <2>7, EmptySeq
      <4>2. k # 1 => labels'[k - 1] = labels[Len(labels)]
        BY <2>5, <2>7
      <4> QED
        BY <4>1, <4>2 DEF LastHash
    <3>2. labels'[k] = l
      BY <2>5, <2>7
    <3> QED
      BY <2>2, <3>1, <3>2 DEF Linked, PreviousHash, HashAfter, Genesis
  <2> QED
    BY <2>4, <2>5, <2>6, <2>7
<1>5. ASSUME NEW a \in Analysts,
             \/ \E label \in Label : Show(a, label)
             \/ OpenRaises(a) \/ AppendRaises(a) \/ Again(a) \/ (AppendLabel(a) /\ torn)
      PROVE  /\ labels' = labels
             /\ analyst'[a].at # "open"
             /\ \A b \in Analysts \ {a} : analyst'[b] = analyst[b]
  <2>1. ASSUME NEW r, r.at # "open", labels' = labels, analyst' = [analyst EXCEPT ![a] = r]
        PROVE  /\ labels' = labels
               /\ analyst'[a].at # "open"
               /\ \A b \in Analysts \ {a} : analyst'[b] = analyst[b]
    BY <1>1, <2>1
  <2>2. CASE \E label \in Label : Show(a, label)
    <3>1. PICK label \in Label : Show(a, label)
      BY <2>2
    <3>2. PICK r : r = [at |-> "shown", label |-> label]
      OBVIOUS
    <3>3. labels' = labels /\ analyst' = [analyst EXCEPT ![a] = r]
      BY <3>1, <3>2 DEF Show
    <3> QED
      BY <2>1, <3>2, <3>3
  <2>3. CASE OpenRaises(a) \/ AppendRaises(a) \/ (AppendLabel(a) /\ torn)
    <3>1. PICK r : r = [at |-> "end"]
      OBVIOUS
    <3>2. labels' = labels /\ analyst' = [analyst EXCEPT ![a] = r]
      BY <2>3, <3>1 DEF OpenRaises, AppendRaises, AppendLabel
    <3> QED
      BY <2>1, <3>1, <3>2
  <2>4. CASE Again(a)
    BY <2>1, <2>4 DEF Again, NotStarted
  <2> QED
    BY <1>5, <2>2, <2>3, <2>4
<1>6. ASSUME NEW a \in Analysts, labels' = labels, analyst'[a].at # "open",
             \A b \in Analysts \ {a} : analyst'[b] = analyst[b]
      PROVE  \A b \in Analysts : analyst'[b].at = "open" =>
               /\ analyst'[b].lastHash = LastHash'
               /\ \A c \in Analysts \ {b} : analyst'[c].at # "open"
  BY <1>1, <1>2, <1>6
<1>7. ~ \E k \in DOMAIN labels, label \in Label : EditLabel(k, label)
  BY DEF EditLabel
<1>8. ~ \E n \in 0..Len(labels) - 1 : CutLabels(n)
  BY DEF CutLabels
<1>9. CASE UNCHANGED <<labels, torn, analyst, recorded, meddled>>
  BY <1>1, <1>2, <1>9
<1>10. CASE \E a \in Analysts : OpenStore(a)
  <2>1. labels' = labels
    BY <1>10 DEF OpenStore
  <2> QED
    BY <1>2, <1>3, <1>10, <2>1
<1>11. CASE \E a \in Analysts : AppendLabel(a) /\ ~torn
  BY <1>4, <1>11
<1>12. CASE \E a \in Analysts :
              \/ \E label \in Label : Show(a, label)
              \/ OpenRaises(a) \/ AppendRaises(a) \/ Again(a) \/ (AppendLabel(a) /\ torn)
  BY <1>2, <1>5, <1>6, <1>12
<1> QED
  BY <1>7, <1>8, <1>9, <1>10, <1>11, <1>12, StepsOfStore DEF StoreStep

LEMMA InitLabels == Init => LabelInv
<1> SUFFICES ASSUME Init PROVE LabelInv
  OBVIOUS
<1>1. labels \in Seq(LabelLine)
  BY EmptySeq DEF Init
<1>2. LabelsTyped
  BY <1>1 DEF Init, LabelsTyped
<1>3. LinesTrue /\ StoreUnmeddled
  BY DEF Init, LinesTrue, StoreUnmeddled, NotStarted
<1> QED
  BY <1>2, <1>3 DEF LabelInv

THEOREM LabelInvariantHolds == Spec => []LabelInv
BY InitLabels, NextTyped, NextLines, NextUnmeddled, PTL DEF Spec, LabelInv

(* A linked line holds the label it was written with: its hash is of both. *)
LEMMA LinkedAsWritten ==
  ASSUME LabelsTyped, LinesTrue, NEW k \in DOMAIN labels, Linked(k)
  PROVE  labels[k].label = labels[k].written
<1>1. labels[k] \in LabelLine
  BY ElementOfSeq DEF LabelsTyped
<1>2. /\ labels[k].label \in Label /\ labels[k].written \in Label
      /\ labels[k].previous \in Seq(Label)
  BY <1>1 DEF LabelLine, Hash
<1>3. Append(labels[k].previous, labels[k].label)
        = Append(labels[k].previous, labels[k].written)
  BY DEF Linked, LinesTrue, HashAfter
<1> QED
  BY <1>2, <1>3, AppendProperties

(* A label store that verifies holds every line as written and, unless     *)
(* lines were cut off its end, every label whose append() returned, for    *)
(* any number of analysts that may have had it open at once.               *)
THEOREM MeddlingAlwaysShows == Spec => []MeddlingShows
<1>1. LabelInv => MeddlingShows
  <2> SUFFICES ASSUME LabelInv, Verified
               PROVE  /\ \A k \in DOMAIN labels : labels[k].label = labels[k].written
                      /\ "cut" \notin meddled =>
                           \A label \in recorded :
                             \E k \in DOMAIN labels : labels[k].label = label
    BY DEF MeddlingShows
  <2>1. \A k \in DOMAIN labels : labels[k].label = labels[k].written
    BY LinkedAsWritten DEF LabelInv, Verified
  <2> QED
    BY <2>1 DEF LabelInv, LinesTrue, Verified
<1> QED
  BY <1>1, LabelInvariantHolds, PTL

(* A label store nobody meddled with verifies for as long as it can be     *)
(* read, whichever writes failed.                                          *)
THEOREM FalseAlarmNever == Spec => []NoFalseAlarm
<1>1. LabelInv => NoFalseAlarm
  BY DEF LabelInv, StoreUnmeddled, NoFalseAlarm, Verified
<1> QED
  BY <1>1, LabelInvariantHolds, PTL

-----------------------------------------------------------------------------
(* The boundary: what is under way, what is remembered and what is filed.  *)

LEMMA Appended ==
  ASSUME NEW S, NEW s \in Seq(S), NEW e \in S
  PROVE  /\ Append(s, e) \in Seq(S)
         /\ Len(Append(s, e)) = Len(s) + 1
         /\ DOMAIN Append(s, e) = 1..Len(s) + 1
         /\ \A k \in DOMAIN s : k \in DOMAIN Append(s, e) /\ Append(s, e)[k] = s[k]
         /\ Append(s, e)[Len(s) + 1] = e
         /\ DOMAIN s = 1..Len(s) /\ Len(s) \in Nat
OBVIOUS

LEMMA FinitePlaces ==
  ASSUME NEW S, NEW s \in Seq(S), NEW places \in SUBSET DOMAIN s
  PROVE  IsFiniteSet(places) /\ Cardinality(places) \in Nat
<1>1. DOMAIN s = 1..Len(s) /\ Len(s) \in Nat
  OBVIOUS
<1>2. IsFiniteSet(DOMAIN s)
  BY <1>1, FS_Interval
<1> QED
  BY <1>2, FS_Subset, FS_CardinalityType

(* The events since a time after one more.                                 *)
LEMMA SinceAppended ==
  ASSUME NEW s \in Seq(Event), NEW e \in Event, NEW agent, NEW time
  PROVE  LET before == Since(s, agent, time)
         IN  /\ Since(Append(s, e), agent, time)
                  = IF e.agent = agent /\ e.time >= time
                    THEN before \union {Len(s) + 1} ELSE before
             /\ before \subseteq DOMAIN s /\ Len(s) + 1 \notin before
             /\ \A k \in before : Append(s, e)[k] = s[k]
<1> DEFINE t == Append(s, e)
<1>1. /\ DOMAIN t = 1..Len(s) + 1
      /\ \A k \in DOMAIN s : k \in DOMAIN t /\ t[k] = s[k]
      /\ t[Len(s) + 1] = e
      /\ DOMAIN s = 1..Len(s) /\ Len(s) \in Nat
  BY Appended
<1> HIDE DEF t
<1>2. \A k : k \in DOMAIN t <=> k \in DOMAIN s \/ k = Len(s) + 1
  BY <1>1
<1>3. Len(s) + 1 \notin DOMAIN s
  BY <1>1
<1>4. \A k : k \in Since(t, agent, time) <=>
             \/ k \in Since(s, agent, time)
             \/ k = Len(s) + 1 /\ e.agent = agent /\ e.time >= time
  BY <1>1, <1>2, <1>3 DEF Since
<1>5. Since(s, agent, time) \subseteq DOMAIN s
  BY DEF Since
<1>6. Since(t, agent, time)
        = IF e.agent = agent /\ e.time >= time
          THEN Since(s, agent, time) \union {Len(s) + 1} ELSE Since(s, agent, time)
  <2>1. CASE e.agent = agent /\ e.time >= time
    BY <1>4, <2>1
  <2>2. CASE ~(e.agent = agent /\ e.time >= time)
    BY <1>4, <2>2
  <2> QED
    BY <2>1, <2>2
<1>7. /\ Len(s) + 1 \notin Since(s, agent, time)
      /\ \A k \in Since(s, agent, time) : t[k] = s[k]
  BY <1>1, <1>3, <1>5
<1> QED
  BY <1>5, <1>6, <1>7 DEF t

LEMMA FeaturesTyped ==
  ASSUME NEW s \in Seq(Event), NEW places \in SUBSET DOMAIN s, NEW plan \in Plans
  PROVE  Features(s, places, plan) \in [plan : Plans, recent : Nat, violations : Nat]
<1>1. {k \in places : s[k].violation} \in SUBSET DOMAIN s
  OBVIOUS
<1>2. Cardinality(places) \in Nat /\ Cardinality({k \in places : s[k].violation}) \in Nat
  BY <1>1, FinitePlaces
<1> QED
  BY <1>2 DEF Features

LEMMA AcceptedTyped == \A trust : Accepted(trust) \in BOOLEAN
BY DEF Accepted

(* What Record() writes.                                                   *)
RecordedTrust  == TrustValues \union {NoTrust}
RecordedVector == [plan : Plans, recent : Nat, violations : Nat] \union {Unscored}

LEMMA RecordedFacts ==
  ASSUME BoundaryTyped, NEW agent \in Agents, NEW plan \in Plans,
         NEW trust \in RecordedTrust, NEW live \in RecordedVector,
         NEW undisturbed \in BOOLEAN, NEW saved \in BOOLEAN,
         Record(agent, plan, trust, live, undisturbed, saved)
  PROVE  /\ \E event \in Event :
              /\ event.agent = agent /\ event.time = now /\ event.saved = saved
              /\ event.plan = plan /\ event.live = live /\ event.undisturbed = undisturbed
              /\ memory' = Append(memory, event)
              /\ file' = IF saved THEN Append(file, event) ELSE file
         /\ \/ log' = log
            \/ /\ saved
               /\ \E entry \in Entry :
                    /\ entry.agent = agent /\ entry.time = now
                    /\ entry.accepted = Accepted(entry.trust)
                    /\ log' = Append(log, entry)
<1>1. now \in 0..limit.time
  BY DEF BoundaryTyped
<1>2. PICK event : event =
        [agent |-> agent, time |-> now, violation |-> ~Accepted(trust),
         saved |-> saved, plan |-> plan, live |-> live, undisturbed |-> undisturbed]
  OBVIOUS
<1>3. event \in Event
  BY <1>1, <1>2, AcceptedTyped DEF Event, RecordedVector
<1>4. PICK entry : entry =
        [agent |-> agent, time |-> now, trust |-> trust, accepted |-> Accepted(trust),
         executor |-> IF trust = NoTrust THEN "none" ELSE "production"]
  OBVIOUS
<1>5. entry \in Entry
  BY <1>1, <1>4, AcceptedTyped DEF Entry, RecordedTrust
<1>6. /\ memory' = Append(memory, event)
      /\ file' = IF saved THEN Append(file, event) ELSE file
      /\ IF saved THEN log' \in {log, Append(log, entry)} ELSE log' = log
  BY <1>2, <1>4 DEF Record
<1>7. /\ event.agent = agent /\ event.time = now /\ event.saved = saved
      /\ event.plan = plan /\ event.live = live /\ event.undisturbed = undisturbed
      /\ entry.agent = agent /\ entry.time = now
      /\ entry.accepted = Accepted(entry.trust)
  BY <1>2, <1>4
<1> QED
  BY <1>3, <1>5, <1>6, <1>7

(* The end of an evaluation, scored or rejected.                           *)
Ends(event) ==
  /\ event \in Event /\ event.time = now /\ now' = now
  /\ memory' = Append(memory, event)
  /\ file' = IF event.saved THEN Append(file, event) ELSE file
  /\ \/ log' = log
     \/ /\ event.saved
        /\ \E entry \in Entry :
             /\ entry.agent = event.agent /\ entry.time = now
             /\ entry.accepted = Accepted(entry.trust)
             /\ log' = Append(log, entry)
  /\ evaluation' \in [Evaluators -> Evaluation \union {Idle}]
  /\ Len(memory) + 1 + Cardinality(Busy') <= limit.decisions
  /\ \A w \in Busy' : evaluation'[w].undisturbed =>
       w \in Busy /\ evaluation'[w] = evaluation[w] /\ evaluation[w].agent # event.agent
  /\ event.undisturbed =>
       \E v \in Busy : /\ evaluation[v].undisturbed
                       /\ evaluation[v].agent = event.agent
                       /\ evaluation[v].live = event.live
                       /\ evaluation[v].live.plan = event.plan

LEMMA StepsOfBoundary ==
  [Next]_vars =>
    /\ limit' = limit
    /\ Boundary \/ UNCHANGED boundaryVars
BY StepsOfStore DEF Next, UpdateReputation, Labelling, Show, OpenStore, OpenRaises, AppendLabel,
   AppendRaises, Again, EditLabel, CutLabels, vars, boundaryVars

LEMMA Disturbed ==
  ASSUME NEW e \in Evaluation
  PROVE  /\ [e EXCEPT !.undisturbed = FALSE] \in Evaluation
         /\ ~[e EXCEPT !.undisturbed = FALSE].undisturbed
BY DEF Evaluation

LEMMA BusyTyped ==
  ASSUME BoundaryTyped
  PROVE  /\ \A v \in Busy : v \in Evaluators /\ evaluation[v] \in Evaluation
         /\ \A v \in Evaluators : v \notin Busy => evaluation[v] = Idle
         /\ IsFiniteSet(Busy) /\ Cardinality(Busy) \in Nat
         /\ Len(memory) \in Nat /\ Len(file) \in Nat
         /\ limit.decisions \in Nat /\ limit.time \in Nat
<1>1. IsFiniteSet(Busy)
  BY AgentsAssumption, FS_Subset DEF Busy
<1>2. limit \in [decisions : Nat, time : Nat, labels : Nat]
  BY NumbersAssumption DEF BoundaryTyped
<1> QED
  BY <1>1, <1>2, FS_CardinalityType DEF Busy, BoundaryTyped

LEMMA EndsScored ==
  ASSUME BoundaryTyped, NEW v \in Evaluators, NEW saved \in BOOLEAN, EndScored(v, saved)
  PROVE  \E event : Ends(event)
<1> DEFINE e == evaluation[v]
           disturbed(w) == [evaluation[w] EXCEPT !.undisturbed = FALSE]
<1>1. /\ v \in Busy /\ now' = now
      /\ Record(e.agent, e.live.plan, e.trust, e.live, e.undisturbed, saved)
      /\ evaluation' = [w \in Evaluators |->
           IF w = v THEN Idle
           ELSE IF w \in Busy /\ evaluation[w].agent = e.agent
                THEN disturbed(w) ELSE evaluation[w]]
  BY DEF EndScored, reportVars, labelVars
<1>2. /\ e.agent \in Agents /\ e.live.plan \in Plans /\ e.trust \in RecordedTrust
      /\ e.live \in RecordedVector
      /\ e.undisturbed \in BOOLEAN
  BY <1>1, BusyTyped DEF Evaluation, RecordedTrust, RecordedVector
<1>3. PICK event \in Event :
        /\ event.agent = e.agent /\ event.time = now /\ event.saved = saved
        /\ event.plan = e.live.plan /\ event.live = e.live
        /\ event.undisturbed = e.undisturbed
        /\ memory' = Append(memory, event)
        /\ file' = IF saved THEN Append(file, event) ELSE file
  BY <1>1, <1>2, RecordedFacts
<1>4. \/ log' = log
      \/ /\ saved
         /\ \E entry \in Entry :
              /\ entry.agent = e.agent /\ entry.time = now
              /\ entry.accepted = Accepted(entry.trust)
              /\ log' = Append(log, entry)
  BY <1>1, <1>2, RecordedFacts
<1>5. \A w \in Busy : disturbed(w) \in Evaluation /\ ~disturbed(w).undisturbed
  BY BusyTyped, Disturbed
<1> HIDE DEF disturbed
<1>6. evaluation' \in [Evaluators -> Evaluation \union {Idle}]
  BY <1>1, <1>5 DEF BoundaryTyped
<1>7. Busy' \subseteq Busy \ {v}
  BY <1>1 DEF Busy
<1>8. Cardinality(Busy') <= Cardinality(Busy) - 1 /\ Cardinality(Busy') \in Nat
  BY <1>1, <1>7, BusyTyped, FS_RemoveElement, FS_Subset, FS_CardinalityType
<1>9. Len(memory) + 1 + Cardinality(Busy') <= limit.decisions
  BY <1>8, BusyTyped DEF BoundaryTyped
<1>10. \A w \in Busy' : evaluation'[w].undisturbed =>
         w \in Busy /\ evaluation'[w] = evaluation[w] /\ evaluation[w].agent # e.agent
  <2> SUFFICES ASSUME NEW w \in Busy', evaluation'[w].undisturbed
               PROVE  evaluation'[w] = evaluation[w] /\ evaluation[w].agent # e.agent
    BY <1>7
  <2>1. w \in Busy /\ w # v /\ w \in Evaluators
    BY <1>7, BusyTyped
  <2> QED
    BY <1>1, <1>5, <2>1
<1> QED
  BY <1>1, <1>3, <1>4, <1>6, <1>9, <1>10 DEF Ends

LEMMA EndsRejected ==
  ASSUME BoundaryTyped, NEW agent \in Agents, NEW plan \in Plans, NEW saved \in BOOLEAN,
         EndRejected(agent, plan, saved)
  PROVE  \E event : Ends(event)
<1> DEFINE disturbed(w) == [evaluation[w] EXCEPT !.undisturbed = FALSE]
<1>1. /\ Len(memory) + Cardinality(Busy) < limit.decisions /\ now' = now
      /\ Record(agent, plan, NoTrust, Unscored, FALSE, saved)
      /\ evaluation' = [w \in Evaluators |->
           IF w \in Busy /\ evaluation[w].agent = agent THEN disturbed(w) ELSE evaluation[w]]
  BY DEF EndRejected, reportVars, labelVars
<1>2. NoTrust \in RecordedTrust /\ Unscored \in RecordedVector
  BY DEF RecordedTrust, RecordedVector
<1>3. PICK undisturbed \in BOOLEAN : ~undisturbed
  OBVIOUS
<1>4. Record(agent, plan, NoTrust, Unscored, undisturbed, saved)
  BY <1>1, <1>3 DEF Record
<1>5. PICK event \in Event :
        /\ event.agent = agent /\ event.time = now /\ event.saved = saved
        /\ event.undisturbed = undisturbed
        /\ memory' = Append(memory, event)
        /\ file' = IF saved THEN Append(file, event) ELSE file
  BY <1>2, <1>3, <1>4, RecordedFacts
<1>6. \/ log' = log
      \/ /\ saved
         /\ \E entry \in Entry :
              /\ entry.agent = agent /\ entry.time = now
              /\ entry.accepted = Accepted(entry.trust)
              /\ log' = Append(log, entry)
  BY <1>2, <1>3, <1>4, RecordedFacts
<1>7. \A w \in Busy : disturbed(w) \in Evaluation /\ ~disturbed(w).undisturbed
  BY BusyTyped, Disturbed
<1> HIDE DEF disturbed
<1>8. evaluation' \in [Evaluators -> Evaluation \union {Idle}]
  BY <1>1, <1>7 DEF BoundaryTyped
<1>9. Busy' \subseteq Busy
  BY <1>1 DEF Busy
<1>10. Cardinality(Busy') <= Cardinality(Busy) /\ Cardinality(Busy') \in Nat
  BY <1>9, BusyTyped, FS_Subset, FS_CardinalityType
<1>11. Len(memory) + 1 + Cardinality(Busy') <= limit.decisions
  BY <1>1, <1>10, BusyTyped
<1>12. \A w \in Busy' : evaluation'[w].undisturbed =>
        w \in Busy /\ evaluation'[w] = evaluation[w] /\ evaluation[w].agent # agent
  <2> SUFFICES ASSUME NEW w \in Busy', evaluation'[w].undisturbed
               PROVE  evaluation'[w] = evaluation[w] /\ evaluation[w].agent # agent
    BY <1>9
  <2>1. w \in Busy /\ w \in Evaluators
    BY <1>9, BusyTyped
  <2> QED
    BY <1>1, <1>7, <2>1
<1> QED
  BY <1>1, <1>3, <1>5, <1>6, <1>8, <1>11, <1>12 DEF Ends

LEMMA NextBoundaryTyped == BoundaryTyped /\ [Next]_vars => BoundaryTyped'
<1> SUFFICES ASSUME BoundaryTyped, [Next]_vars PROVE BoundaryTyped'
  OBVIOUS
<1>0. /\ UNCHANGED <<limit, Event>>
      /\ memory \in Seq(Event) /\ file \in Seq(Event)
      /\ evaluation \in [Evaluators -> Evaluation \union {Idle}]
  BY StepsOfBoundary DEF Event, BoundaryTyped
<1>1. CASE Tick
  <2>1. /\ now' = now + 1 /\ now < limit.time /\ UNCHANGED <<memory, file>>
        /\ evaluation' = [v \in Evaluators |->
             IF v \in Busy THEN [evaluation[v] EXCEPT !.undisturbed = FALSE] ELSE Idle]
    BY <1>1 DEF Tick
  <2>2. \A v \in Busy : [evaluation[v] EXCEPT !.undisturbed = FALSE] \in Evaluation
    BY BusyTyped, Disturbed
  <2>3. Busy' \subseteq Busy
    BY <2>1 DEF Busy
  <2>4. Cardinality(Busy') <= Cardinality(Busy) /\ Cardinality(Busy') \in Nat
    BY <2>3, BusyTyped, FS_Subset, FS_CardinalityType
  <2>5. evaluation' \in [Evaluators -> Evaluation \union {Idle}]
    BY <2>1, <2>2
  <2>6. now' \in 0..limit.time
    BY <2>1, BusyTyped DEF BoundaryTyped
  <2>7. Len(memory) + Cardinality(Busy') <= limit.decisions
    BY <2>4, BusyTyped DEF BoundaryTyped
  <2> QED
    BY <1>0, <2>1, <2>5, <2>6, <2>7 DEF BoundaryTyped
<1>2. ASSUME NEW v \in Evaluators, NEW agent \in Agents, NEW plan \in Plans,
             NEW trust \in TrustValues, Score(v, agent, plan, trust)
      PROVE  BoundaryTyped'
  <2> DEFINE live == Features(memory, Recent(agent), plan)
             undisturbed == \A k \in DOMAIN memory : memory[k].agent = agent => memory[k].saved
  <2>1. /\ Len(memory) + Cardinality(Busy) < limit.decisions
        /\ evaluation' = [evaluation EXCEPT ![v] =
             [agent |-> agent, trust |-> trust, undisturbed |-> undisturbed, live |-> live]]
        /\ UNCHANGED <<now, memory, file>>
    BY <1>2 DEF Score
  <2>2. live \in [plan : Plans, recent : Nat, violations : Nat]
    BY FeaturesTyped DEF Recent, Since, BoundaryTyped
  <2>3. undisturbed \in BOOLEAN
    OBVIOUS
  <2> HIDE DEF live, undisturbed
  <2>4. [agent |-> agent, trust |-> trust, undisturbed |-> undisturbed, live |-> live]
          \in Evaluation
    BY <2>2, <2>3 DEF Evaluation
  <2>5. evaluation' \in [Evaluators -> Evaluation \union {Idle}]
    BY <1>0, <2>1, <2>4
  <2>6. Busy' \subseteq Busy \union {v}
    BY <1>0, <2>1 DEF Busy
  <2>7. Cardinality(Busy') <= Cardinality(Busy) + 1 /\ Cardinality(Busy') \in Nat
    <3>1. /\ IsFiniteSet(Busy \union {v})
          /\ Cardinality(Busy \union {v}) \in {Cardinality(Busy), Cardinality(Busy) + 1}
      BY BusyTyped, FS_AddElement
    <3>2. IsFiniteSet(Busy') /\ Cardinality(Busy') <= Cardinality(Busy \union {v})
      BY <2>6, <3>1, FS_Subset
    <3>3. Cardinality(Busy') \in Nat
      BY <3>2, FS_CardinalityType
    <3> QED
      BY <3>1, <3>2, <3>3, BusyTyped
  <2>8. Len(memory) + Cardinality(Busy') <= limit.decisions
    BY <2>1, <2>7, BusyTyped
  <2> QED
    BY <1>0, <2>1, <2>5, <2>8 DEF BoundaryTyped
<1>3. ASSUME NEW event, Ends(event)
      PROVE  BoundaryTyped'
  <2>1. /\ memory' \in Seq(Event) /\ Len(memory') = Len(memory) + 1
        /\ file' \in Seq(Event) /\ Len(file') <= Len(file) + 1 /\ Len(file') \in Nat
    BY <1>0, <1>3, Appended, BusyTyped DEF Ends
  <2>2. Len(file') <= Len(memory')
    BY <2>1, BusyTyped DEF BoundaryTyped
  <2> QED
    BY <1>0, <1>3, <2>1, <2>2 DEF BoundaryTyped, Ends
<1>4. CASE Restart
  <2>1. /\ memory' = file /\ UNCHANGED <<now, file>>
        /\ evaluation' = [v \in Evaluators |-> Idle]
    BY <1>4 DEF Restart
  <2>2. Busy' = {}
    BY <2>1 DEF Busy
  <2>3. Len(memory') + Cardinality(Busy') <= limit.decisions
    BY <2>1, <2>2, FS_EmptySet, BusyTyped DEF BoundaryTyped
  <2>4. Len(file) <= Len(file)
    BY BusyTyped
  <2> QED
    BY <1>0, <2>1, <2>3, <2>4 DEF BoundaryTyped
<1>5. CASE UNCHANGED boundaryVars
  <2>1. Busy' = Busy
    BY <1>5 DEF Busy, boundaryVars
  <2> QED
    BY <1>0, <1>5, <2>1 DEF BoundaryTyped, boundaryVars
<1> QED
  BY <1>1, <1>2, <1>3, <1>4, <1>5, EndsScored, EndsRejected, StepsOfBoundary DEF Boundary

-----------------------------------------------------------------------------
(* The file has what memory has, of what was saved.                        *)

LEMMA SavedFinite ==
  ASSUME NEW s \in Seq(Event), NEW agent, NEW time
  PROVE  /\ IsFiniteSet(SavedSince(s, agent, time))
         /\ Cardinality(SavedSince(s, agent, time)) \in Nat
         /\ IsFiniteSet(SavedViolations(s, agent, time))
         /\ Cardinality(SavedViolations(s, agent, time)) \in Nat
<1>1. /\ SavedSince(s, agent, time) \in SUBSET DOMAIN s
      /\ SavedViolations(s, agent, time) \in SUBSET DOMAIN s
  BY DEF SavedSince, SavedViolations, Since
<1> QED
  BY <1>1, FinitePlaces

LEMMA SavedAppended ==
  ASSUME NEW s \in Seq(Event), NEW e \in Event, NEW agent, NEW time
  PROVE  LET new == e.saved /\ e.agent = agent /\ e.time >= time
         IN  /\ Cardinality(SavedSince(Append(s, e), agent, time))
                  = Cardinality(SavedSince(s, agent, time)) + IF new THEN 1 ELSE 0
             /\ Cardinality(SavedViolations(Append(s, e), agent, time))
                  = Cardinality(SavedViolations(s, agent, time))
                      + IF new /\ e.violation THEN 1 ELSE 0
<1> DEFINE t == Append(s, e)
           new == e.saved /\ e.agent = agent /\ e.time >= time
<1>1. /\ Since(t, agent, time)
           = IF e.agent = agent /\ e.time >= time
             THEN Since(s, agent, time) \union {Len(s) + 1} ELSE Since(s, agent, time)
      /\ Len(s) + 1 \notin Since(s, agent, time)
      /\ \A k \in Since(s, agent, time) : t[k] = s[k]
      /\ t[Len(s) + 1] = e
  BY SinceAppended, Appended
<1> HIDE DEF t
<1>2. /\ SavedSince(t, agent, time)
           = IF new THEN SavedSince(s, agent, time) \union {Len(s) + 1}
             ELSE SavedSince(s, agent, time)
      /\ Len(s) + 1 \notin SavedSince(s, agent, time)
      /\ \A k \in SavedSince(s, agent, time) : t[k] = s[k]
  <2>1. \A k : k \in SavedSince(t, agent, time) <=>
               k \in SavedSince(s, agent, time) \/ (new /\ k = Len(s) + 1)
    BY <1>1 DEF SavedSince
  <2>2. CASE new
    BY <1>1, <2>1, <2>2 DEF SavedSince
  <2>3. CASE ~new
    BY <1>1, <2>1, <2>3 DEF SavedSince
  <2> QED
    BY <2>2, <2>3
<1>3. /\ SavedViolations(t, agent, time)
           = IF new /\ e.violation THEN SavedViolations(s, agent, time) \union {Len(s) + 1}
             ELSE SavedViolations(s, agent, time)
      /\ Len(s) + 1 \notin SavedViolations(s, agent, time)
  <2>1. \A k : k \in SavedViolations(t, agent, time) <=>
               \/ k \in SavedViolations(s, agent, time)
               \/ new /\ e.violation /\ k = Len(s) + 1
    BY <1>1, <1>2 DEF SavedViolations
  <2>2. CASE new /\ e.violation
    BY <1>2, <2>1, <2>2 DEF SavedViolations
  <2>3. CASE ~(new /\ e.violation)
    BY <1>2, <2>1, <2>3 DEF SavedViolations
  <2> QED
    BY <2>2, <2>3
<1> HIDE DEF new
<1>4. ASSUME NEW S, NEW T, IsFiniteSet(S), Len(s) + 1 \notin S, NEW p \in BOOLEAN,
             T = IF p THEN S \union {Len(s) + 1} ELSE S
      PROVE  Cardinality(T) = Cardinality(S) + IF p THEN 1 ELSE 0
  <2>1. CASE p
    BY <1>4, <2>1, FS_AddElement
  <2>2. CASE ~p
    BY <1>4, <2>2, FS_CardinalityType
  <2> QED
    BY <2>1, <2>2
<1>5. new \in BOOLEAN /\ e.violation \in BOOLEAN
  BY DEF new, Event
<1>6. Cardinality(SavedSince(t, agent, time))
        = Cardinality(SavedSince(s, agent, time)) + IF new THEN 1 ELSE 0
  BY <1>2, <1>4, <1>5, SavedFinite
<1>7. Cardinality(SavedViolations(t, agent, time))
        = Cardinality(SavedViolations(s, agent, time)) + IF new /\ e.violation THEN 1 ELSE 0
  BY <1>3, <1>4, <1>5, SavedFinite
<1> QED
  BY <1>6, <1>7 DEF t, new

(* In the file everything is saved.                                        *)
LEMMA FiledAreSaved ==
  ASSUME \A k \in DOMAIN file : file[k].saved, NEW agent, NEW time
  PROVE  /\ SavedSince(file, agent, time) = Since(file, agent, time)
         /\ SavedViolations(file, agent, time)
              = {k \in Since(file, agent, time) : file[k].violation}
<1>1. SavedSince(file, agent, time) = Since(file, agent, time)
  BY DEF SavedSince, Since
<1> QED
  BY <1>1 DEF SavedViolations

LEMMA NextSavedAreFiled ==
  BoundaryTyped /\ SavedAreFiled /\ [Next]_vars => SavedAreFiled'
<1> SUFFICES ASSUME BoundaryTyped, SavedAreFiled, [Next]_vars PROVE SavedAreFiled'
  OBVIOUS
<1>0. limit' = limit /\ memory \in Seq(Event) /\ file \in Seq(Event)
  BY StepsOfBoundary DEF BoundaryTyped
<1>1. ASSUME UNCHANGED <<memory, file>>
      PROVE  SavedAreFiled'
  BY <1>0, <1>1 DEF SavedAreFiled
<1>2. CASE Restart
  <2>1. memory' = file /\ file' = file
    BY <1>2 DEF Restart
  <2>2. /\ \A k \in DOMAIN file' : file'[k].saved
        /\ memory' = file'
    BY <2>1 DEF SavedAreFiled
  <2> QED
    BY <2>2 DEF SavedAreFiled
<1>3. ASSUME NEW event, Ends(event)
      PROVE  SavedAreFiled'
  <2>1. /\ event \in Event
        /\ memory' = Append(memory, event)
        /\ file' = IF event.saved THEN Append(file, event) ELSE file
    BY <1>3 DEF Ends
  <2>2. \A k \in DOMAIN file' : file'[k].saved
    <3>1. CASE event.saved
      <4>1. /\ file' = Append(file, event)
            /\ DOMAIN Append(file, event) = 1..Len(file) + 1
            /\ \A k \in DOMAIN file : Append(file, event)[k] = file[k]
            /\ Append(file, event)[Len(file) + 1] = event
            /\ DOMAIN file = 1..Len(file) /\ Len(file) \in Nat
        BY <1>0, <2>1, <3>1, Appended
      <4>2. \A k \in DOMAIN file' : k \in DOMAIN file \/ k = Len(file) + 1
        BY <4>1
      <4> QED
        BY <3>1, <4>1, <4>2 DEF SavedAreFiled
    <3>2. CASE ~event.saved
      BY <2>1, <3>2 DEF SavedAreFiled
    <3> QED
      BY <3>1, <3>2
  <2>3. ASSUME NEW agent \in Agents, NEW time \in (0 - Hour)..limit.time
        PROVE  /\ Cardinality(SavedSince(memory', agent, time))
                    = Cardinality(SavedSince(file', agent, time))
               /\ Cardinality(SavedViolations(memory', agent, time))
                    = Cardinality(SavedViolations(file', agent, time))
    <3>1. /\ Cardinality(SavedSince(memory, agent, time))
               = Cardinality(SavedSince(file, agent, time))
          /\ Cardinality(SavedViolations(memory, agent, time))
               = Cardinality(SavedViolations(file, agent, time))
          /\ Cardinality(SavedSince(memory, agent, time)) \in Nat
          /\ Cardinality(SavedViolations(memory, agent, time)) \in Nat
      BY <1>0, SavedFinite DEF SavedAreFiled
    <3>2. CASE event.saved
      BY <1>0, <2>1, <3>1, <3>2, SavedAppended
    <3>3. CASE ~event.saved
      BY <1>0, <2>1, <3>1, <3>3, SavedAppended
    <3> QED
      BY <3>2, <3>3
  <2> QED
    BY <1>0, <2>2, <2>3 DEF SavedAreFiled
<1>4. CASE Tick \/ UNCHANGED boundaryVars
  BY <1>1, <1>4 DEF Tick, boundaryVars
<1>5. ASSUME NEW v \in Evaluators, NEW agent \in Agents, NEW plan \in Plans,
             NEW trust \in TrustValues, Score(v, agent, plan, trust)
      PROVE  SavedAreFiled'
  BY <1>1, <1>5 DEF Score
<1> QED
  BY <1>2, <1>3, <1>4, <1>5, EndsScored, EndsRejected, StepsOfBoundary DEF Boundary

-----------------------------------------------------------------------------
(* What is scored and what is replayed.                                    *)

(* Features depend on the events they are read from only.                  *)
LEMMA SameFeatures ==
  ASSUME NEW s, NEW t, NEW places, NEW plan, \A k \in places : s[k] = t[k]
  PROVE  Features(s, places, plan) = Features(t, places, plan)
<1>1. {k \in places : s[k].violation} = {k \in places : t[k].violation}
  OBVIOUS
<1> QED
  BY <1>1 DEF Features

LEMMA NextUndisturbed ==
  BoundaryTyped /\ UndisturbedAsNow /\ [Next]_vars => UndisturbedAsNow'
<1> SUFFICES ASSUME BoundaryTyped, UndisturbedAsNow, [Next]_vars,
                    NEW v \in Busy', evaluation'[v].undisturbed
             PROVE  LET e == evaluation'[v]
                    IN  /\ \A k \in DOMAIN memory' :
                             memory'[k].agent = e.agent => memory'[k].saved
                        /\ e.live = Features(memory', Since(memory', e.agent, now' - Hour),
                                             e.live.plan)
  BY DEF UndisturbedAsNow, Recent
<1>0. memory \in Seq(Event) /\ DOMAIN evaluation = Evaluators
  BY DEF BoundaryTyped
<1>1. ASSUME v \in Busy, evaluation'[v] = evaluation[v], UNCHANGED <<now, memory>>
      PROVE  LET e == evaluation'[v]
             IN  /\ \A k \in DOMAIN memory' : memory'[k].agent = e.agent => memory'[k].saved
                 /\ e.live = Features(memory', Since(memory', e.agent, now' - Hour),
                                      e.live.plan)
  BY <1>1 DEF UndisturbedAsNow, Recent
<1>2. CASE Tick
  <2>1. evaluation' = [w \in Evaluators |->
          IF w \in Busy THEN [evaluation[w] EXCEPT !.undisturbed = FALSE] ELSE Idle]
    BY <1>2 DEF Tick
  <2>2. v \in Evaluators /\ v \in Busy
    BY <2>1 DEF Busy
  <2>3. evaluation'[v] = [evaluation[v] EXCEPT !.undisturbed = FALSE]
    BY <2>1, <2>2
  <2> QED
    BY <2>2, <2>3, BusyTyped, Disturbed
<1>3. ASSUME NEW w \in Evaluators, NEW agent \in Agents, NEW plan \in Plans,
             NEW trust \in TrustValues, Score(w, agent, plan, trust)
      PROVE  LET e == evaluation'[v]
             IN  /\ \A k \in DOMAIN memory' : memory'[k].agent = e.agent => memory'[k].saved
                 /\ e.live = Features(memory', Since(memory', e.agent, now' - Hour),
                                      e.live.plan)
  <2>1. /\ evaluation' = [evaluation EXCEPT ![w] =
             [agent |-> agent, trust |-> trust,
              undisturbed |-> \A k \in DOMAIN memory :
                memory[k].agent = agent => memory[k].saved,
              live |-> Features(memory, Recent(agent), plan)]]
        /\ UNCHANGED <<now, memory>>
    BY <1>3 DEF Score
  <2>2. CASE v = w
    <3>1. /\ evaluation'[v].agent = agent
          /\ evaluation'[v].undisturbed
               = (\A k \in DOMAIN memory : memory[k].agent = agent => memory[k].saved)
          /\ evaluation'[v].live = Features(memory, Recent(agent), plan)
      BY <1>0, <2>1, <2>2
    <3>2. Features(memory, Recent(agent), plan).plan = plan
      BY DEF Features
    <3> QED
      BY <2>1, <3>1, <3>2 DEF Recent
  <2>3. CASE v # w
    <3>1. v \in Busy /\ evaluation'[v] = evaluation[v]
      BY <1>0, <2>1, <2>3 DEF Busy
    <3> QED
      BY <1>1, <2>1, <3>1
  <2> QED
    BY <2>2, <2>3
<1>4. ASSUME NEW event, Ends(event)
      PROVE  LET e == evaluation'[v]
             IN  /\ \A k \in DOMAIN memory' : memory'[k].agent = e.agent => memory'[k].saved
                 /\ e.live = Features(memory', Since(memory', e.agent, now' - Hour),
                                      e.live.plan)
  <2>1. /\ v \in Busy /\ evaluation'[v] = evaluation[v]
        /\ evaluation[v].agent # event.agent
        /\ event \in Event /\ memory' = Append(memory, event) /\ now' = now
    BY <1>4 DEF Ends
  <2> DEFINE e == evaluation[v]
  <2>2. /\ \A k \in DOMAIN memory : memory[k].agent = e.agent => memory[k].saved
        /\ e.live = Features(memory, Since(memory, e.agent, now - Hour), e.live.plan)
    BY <2>1 DEF UndisturbedAsNow, Recent
  <2>3. /\ DOMAIN memory' = 1..Len(memory) + 1
        /\ \A k \in DOMAIN memory : memory'[k] = memory[k]
        /\ memory'[Len(memory) + 1] = event
        /\ DOMAIN memory = 1..Len(memory) /\ Len(memory) \in Nat
    BY <1>0, <2>1, Appended
  <2>4. \A k \in DOMAIN memory' : k \in DOMAIN memory \/ k = Len(memory) + 1
    BY <2>3
  <2>5. \A k \in DOMAIN memory' : memory'[k].agent = e.agent => memory'[k].saved
    BY <2>1, <2>2, <2>3, <2>4
  <2>6. /\ Since(memory', e.agent, now - Hour) = Since(memory, e.agent, now - Hour)
        /\ \A k \in Since(memory, e.agent, now - Hour) : memory'[k] = memory[k]
    BY <1>0, <2>1, SinceAppended
  <2>7. Features(memory', Since(memory, e.agent, now - Hour), e.live.plan)
          = Features(memory, Since(memory, e.agent, now - Hour), e.live.plan)
    BY <2>6, SameFeatures
  <2> QED
    BY <2>1, <2>2, <2>5, <2>6, <2>7
<1>5. ~Restart
  BY DEF Restart, Busy
<1>6. CASE UNCHANGED boundaryVars
  BY <1>1, <1>6 DEF boundaryVars, Busy
<1> QED
  BY <1>2, <1>3, <1>4, <1>5, <1>6, EndsScored, EndsRejected, StepsOfBoundary DEF Boundary

(* What is replayed for an event in the file does not change when another  *)
(* is added, and for that one is read from all that were there.            *)
LEMMA ReplayedAppended ==
  ASSUME NEW s \in Seq(Event), NEW e \in Event
  PROVE  LET t == Append(s, e)
         IN  /\ \A k \in DOMAIN s : Replayed(t, k) = Replayed(s, k)
             /\ Replayed(t, Len(s) + 1) = Features(s, Since(s, e.agent, e.time - Hour), e.plan)
<1> DEFINE t == Append(s, e)
<1>1. /\ DOMAIN t = 1..Len(s) + 1
      /\ \A k \in DOMAIN s : k \in DOMAIN t /\ t[k] = s[k]
      /\ t[Len(s) + 1] = e
      /\ DOMAIN s = 1..Len(s) /\ Len(s) \in Nat
  BY Appended
<1> HIDE DEF t
<1>2. ASSUME NEW k \in DOMAIN s
      PROVE  Replayed(t, k) = Replayed(s, k)
  <2>1. \A j \in 1..k - 1 : j \in DOMAIN s /\ j \in DOMAIN t /\ t[j] = s[j]
    BY <1>1
  <2>2. t[k] = s[k]
    BY <1>1
  <2>3. PriorTo(t, k) = PriorTo(s, k)
    BY <2>1, <2>2 DEF PriorTo, Since
  <2>4. \A j \in PriorTo(s, k) : t[j] = s[j]
    BY <2>1 DEF PriorTo
  <2> QED
    BY <2>2, <2>3, <2>4, SameFeatures DEF Replayed
<1>3. Replayed(t, Len(s) + 1) = Features(s, Since(s, e.agent, e.time - Hour), e.plan)
  <2>1. (Len(s) + 1) - 1 = Len(s)
    BY <1>1
  <2>2. PriorTo(t, Len(s) + 1) = Since(s, e.agent, e.time - Hour)
    BY <1>1, <2>1 DEF PriorTo, Since
  <2>3. \A j \in Since(s, e.agent, e.time - Hour) : t[j] = s[j]
    BY <1>1 DEF Since
  <2> QED
    BY <1>1, <2>2, <2>3, SameFeatures DEF Replayed
<1> QED
  BY <1>2, <1>3 DEF t

(* When all of an agent was saved, file and memory give the same features. *)
LEMMA FiledFeatures ==
  ASSUME BoundaryTyped, SavedAreFiled, NEW agent \in Agents, NEW plan,
         \A k \in DOMAIN memory : memory[k].agent = agent => memory[k].saved
  PROVE  Features(memory, Since(memory, agent, now - Hour), plan)
           = Features(file, Since(file, agent, now - Hour), plan)
<1> DEFINE time == now - Hour
<1>1. time \in (0 - Hour)..limit.time
  BY NumbersAssumption, BusyTyped DEF BoundaryTyped
<1>2. SavedSince(memory, agent, time) = Since(memory, agent, time)
  BY DEF SavedSince, Since
<1>3. /\ SavedSince(file, agent, time) = Since(file, agent, time)
      /\ SavedViolations(file, agent, time)
           = {k \in Since(file, agent, time) : file[k].violation}
  BY FiledAreSaved DEF SavedAreFiled
<1>4. SavedViolations(memory, agent, time)
        = {k \in Since(memory, agent, time) : memory[k].violation}
  BY <1>2 DEF SavedViolations
<1>5. /\ Cardinality(SavedSince(memory, agent, time))
           = Cardinality(SavedSince(file, agent, time))
      /\ Cardinality(SavedViolations(memory, agent, time))
           = Cardinality(SavedViolations(file, agent, time))
  BY <1>1 DEF SavedAreFiled
<1> QED
  BY <1>2, <1>3, <1>4, <1>5 DEF Features

LEMMA NextReplays ==
  BoundaryTyped /\ SavedAreFiled /\ UndisturbedAsNow /\ RefitReplaysLive /\ [Next]_vars
    => RefitReplaysLive'
<1> SUFFICES ASSUME BoundaryTyped, SavedAreFiled, UndisturbedAsNow, RefitReplaysLive,
                    [Next]_vars
             PROVE  RefitReplaysLive'
  OBVIOUS
<1>0. file \in Seq(Event)
  BY DEF BoundaryTyped
<1>1. CASE file' = file
  BY <1>1 DEF RefitReplaysLive, Replayed, Features, PriorTo, Since
<1>2. ASSUME NEW event, Ends(event), event.saved
      PROVE  RefitReplaysLive'
  <2>1. /\ event \in Event /\ event.time = now
        /\ file' = Append(file, event)
    BY <1>2 DEF Ends
  <2>2. /\ DOMAIN file' = 1..Len(file) + 1
        /\ \A k \in DOMAIN file : file'[k] = file[k]
        /\ file'[Len(file) + 1] = event
        /\ DOMAIN file = 1..Len(file) /\ Len(file) \in Nat
    BY <1>0, <2>1, Appended
  <2>3. /\ \A k \in DOMAIN file : Replayed(file', k) = Replayed(file, k)
        /\ Replayed(file', Len(file) + 1)
             = Features(file, Since(file, event.agent, now - Hour), event.plan)
    BY <1>0, <2>1, ReplayedAppended
  <2>4. ASSUME event.undisturbed
        PROVE  Replayed(file', Len(file) + 1) = event.live
    <3>1. PICK v \in Busy : /\ evaluation[v].undisturbed
                            /\ evaluation[v].agent = event.agent
                            /\ evaluation[v].live = event.live
                            /\ evaluation[v].live.plan = event.plan
      BY <1>2, <2>4 DEF Ends
    <3>2. /\ \A k \in DOMAIN memory : memory[k].agent = event.agent => memory[k].saved
          /\ event.live = Features(memory, Since(memory, event.agent, now - Hour), event.plan)
      BY <3>1 DEF UndisturbedAsNow, Recent
    <3>3. event.agent \in Agents
      BY <2>1 DEF Event
    <3> QED
      BY <2>3, <3>2, <3>3, FiledFeatures
  <2>5. \A k \in DOMAIN file' : k \in DOMAIN file \/ k = Len(file) + 1
    BY <2>2
  <2>6. \A k \in DOMAIN file' : file'[k].undisturbed => Replayed(file', k) = file'[k].live
    BY <2>2, <2>3, <2>4, <2>5 DEF RefitReplaysLive
  <2> QED
    BY <2>6 DEF RefitReplaysLive
<1>3. ASSUME NEW event, Ends(event), ~event.saved
      PROVE  RefitReplaysLive'
  BY <1>1, <1>3 DEF Ends
<1>4. CASE Tick \/ Restart \/ UNCHANGED boundaryVars
  BY <1>1, <1>4 DEF Tick, Restart, boundaryVars
<1>5. ASSUME NEW v \in Evaluators, NEW agent \in Agents, NEW plan \in Plans,
             NEW trust \in TrustValues, Score(v, agent, plan, trust)
      PROVE  RefitReplaysLive'
  BY <1>1, <1>5 DEF Score
<1> QED
  BY <1>2, <1>3, <1>4, <1>5, EndsScored, EndsRejected, StepsOfBoundary DEF Boundary

LEMMA InitRefit == Init => RefitInv
<1> SUFFICES ASSUME Init PROVE RefitInv
  OBVIOUS
<1>1. /\ memory = << >> /\ file = << >> /\ limit \in Limits /\ now = 0
      /\ evaluation = [v \in Evaluators |-> Idle]
  BY DEF Init
<1>2. Busy = {}
  BY <1>1 DEF Busy
<1>3. limit.time \in Nat /\ limit.decisions \in Nat
  BY <1>1, NumbersAssumption
<1>4. /\ << >> \in Seq(Event) /\ Len(<< >>) = 0 /\ DOMAIN << >> = {}
  BY EmptySeq
<1>5. BoundaryTyped
  BY <1>1, <1>2, <1>3, <1>4, FS_EmptySet DEF BoundaryTyped
<1>6. SavedAreFiled
  BY <1>1, <1>4 DEF SavedAreFiled
<1> QED
  BY <1>1, <1>2, <1>4, <1>5, <1>6 DEF RefitInv, UndisturbedAsNow, RefitReplaysLive

THEOREM RefitInvariantHolds == Spec => []RefitInv
BY InitRefit, NextBoundaryTyped, NextSavedAreFiled, NextUndisturbed, NextReplays, PTL
   DEF Spec, RefitInv

(* What refit_from_history() takes for the features of a plan is what the  *)
(* engine scored it with, for a plan whose evaluation nothing disturbed,   *)
(* for any agents, evaluations at once, failing writes and restarts.       *)
THEOREM RefitIsExact == Spec => []RefitReplaysLive
<1>1. RefitInv => RefitReplaysLive
  BY DEF RefitInv
<1> QED
  BY <1>1, RefitInvariantHolds, PTL

-----------------------------------------------------------------------------
(* The log.                                                                *)

LEMMA NextLog == BoundaryTyped /\ LogInOrder /\ [Next]_vars => LogInOrder'
<1> SUFFICES ASSUME BoundaryTyped, LogInOrder, [Next]_vars PROVE LogInOrder'
  OBVIOUS
<1>0. /\ UNCHANGED <<limit, Entry>>
      /\ log \in Seq(Entry) /\ file \in Seq(Event)
      /\ Len(log) \in Nat /\ Len(file) \in Nat /\ Len(log) <= Len(file) + 1
      /\ DOMAIN log = 1..Len(log)
      /\ now \in 0..limit.time /\ limit.time \in Nat
      /\ \A k \in DOMAIN log :
           /\ log[k].accepted = Accepted(log[k].trust)
           /\ log[k].time \in 0..limit.time /\ log[k].time <= now
           /\ \A j \in 1..k : log[j].time <= log[k].time
  <2>1. log \in Seq(Entry) /\ limit' = limit
    BY StepsOfBoundary DEF LogInOrder
  <2>2. \A k \in DOMAIN log : log[k] \in Entry
    BY <2>1, ElementOfSeq
  <2>3. \A k \in DOMAIN log : log[k].time \in 0..limit.time
    BY <2>2 DEF Entry
  <2> QED
    BY <2>1, <2>3, BusyTyped DEF LogInOrder, BoundaryTyped, Entry
<1>1. ASSUME log' = log, file' = file, now' = now \/ now' = now + 1
      PROVE  LogInOrder'
  <2>1. \A k \in DOMAIN log : log[k].time <= now'
    BY <1>0, <1>1
  <2> QED
    BY <1>0, <1>1, <2>1 DEF LogInOrder, Accepted, LevelOf
<1>2. ASSUME NEW event, Ends(event), log' = log
      PROVE  LogInOrder'
  <2>1. Len(file') \in {Len(file), Len(file) + 1}
    BY <1>0, <1>2, Appended DEF Ends
  <2>2. Len(log) <= Len(file') + 1
    BY <1>0, <2>1
  <2>3. now' = now
    BY <1>2 DEF Ends
  <2> QED
    BY <1>0, <1>2, <2>2, <2>3 DEF LogInOrder, Accepted, LevelOf
<1>3. ASSUME NEW event, Ends(event), log' # log
      PROVE  LogInOrder'
  <2>1. event \in Event /\ file' = Append(file, event) /\ now' = now
    BY <1>3 DEF Ends
  <2>2. PICK entry \in Entry : /\ entry.time = now
                               /\ entry.accepted = Accepted(entry.trust)
                               /\ log' = Append(log, entry)
    BY <1>3 DEF Ends
  <2>3. /\ log' \in Seq(Entry) /\ Len(log') = Len(log) + 1 /\ Len(file') = Len(file) + 1
        /\ DOMAIN log' = 1..Len(log) + 1
        /\ \A k \in DOMAIN log : log'[k] = log[k]
        /\ log'[Len(log) + 1] = entry
    BY <1>0, <2>1, <2>2, Appended
  <2>4. ASSUME NEW k \in DOMAIN log
        PROVE  /\ log'[k].accepted = Accepted(log'[k].trust)
               /\ log'[k].time <= now'
               /\ \A j \in 1..k : log'[j].time <= log'[k].time
    <3>1. k \in Nat /\ k <= Len(log)
      BY <1>0
    <3>2. \A j \in 1..k : j \in DOMAIN log
      BY <1>0, <3>1
    <3>3. \A j \in 1..k : log'[j] = log[j]
      BY <2>3, <3>2
    <3> QED
      BY <1>0, <2>1, <2>3, <3>3
  <2>5. ASSUME NEW k, k = Len(log) + 1
        PROVE  /\ log'[k].accepted = Accepted(log'[k].trust)
               /\ log'[k].time <= now'
               /\ \A j \in 1..k : log'[j].time <= log'[k].time
    <3>1. \A j \in 1..k : j = k \/ (j \in DOMAIN log /\ log'[j] = log[j])
      BY <1>0, <2>3, <2>5
    <3>2. log'[k].time = now /\ log'[k].accepted = Accepted(log'[k].trust)
      BY <2>2, <2>3, <2>5
    <3>3. \A j \in DOMAIN log : log[j].time <= now
      BY <1>0
    <3>4. now <= now
      BY <1>0
    <3>5. \A j \in 1..k : log'[j].time <= log'[k].time
      BY <3>1, <3>2, <3>3, <3>4
    <3> QED
      BY <2>1, <3>2, <3>4, <3>5
  <2>6. \A k \in DOMAIN log' : k \in DOMAIN log \/ k = Len(log) + 1
    BY <1>0, <2>3
  <2>7. Len(log') <= Len(file') + 1
    BY <1>0, <2>3
  <2> QED
    BY <1>0, <2>3, <2>4, <2>5, <2>6, <2>7 DEF LogInOrder, Accepted, LevelOf
<1>4. CASE Tick \/ Restart \/ UNCHANGED boundaryVars
  BY <1>1, <1>4 DEF Tick, Restart, boundaryVars
<1>5. ASSUME NEW v \in Evaluators, NEW agent \in Agents, NEW plan \in Plans,
             NEW trust \in TrustValues, Score(v, agent, plan, trust)
      PROVE  LogInOrder'
  BY <1>1, <1>5 DEF Score
<1> QED
  BY <1>2, <1>3, <1>4, <1>5, EndsScored, EndsRejected, StepsOfBoundary DEF Boundary

-----------------------------------------------------------------------------
(* The reputations.                                                        *)

LEMMA PushedFacts ==
  ASSUME NEW deque \in Seq(TrustValues), Len(deque) <= RecentWindow, NEW value \in TrustValues
  PROVE  LET new == Pushed(deque, value)
         IN  /\ new \in Seq(TrustValues)
             /\ Len(new) = IF Len(deque) < RecentWindow THEN Len(deque) + 1 ELSE RecentWindow
             /\ new[Len(new)] = value
             /\ \A i \in 1..Len(new) - 1 : new[i] = deque[Len(deque) + 1 - Len(new) + i]
<1>0. Len(deque) \in Nat /\ RecentWindow \in Nat \ {0}
  BY NumbersAssumption
<1>1. CASE Len(deque) < RecentWindow
  BY <1>0, <1>1 DEF Pushed
<1>2. CASE ~(Len(deque) < RecentWindow)
  <2>1. Len(deque) = RecentWindow /\ deque # << >>
    BY <1>0, <1>2, EmptySeq
  <2>2. /\ Tail(deque) \in Seq(TrustValues) /\ Len(Tail(deque)) = Len(deque) - 1
        /\ \A i \in 1..Len(deque) - 1 : Tail(deque)[i] = deque[i + 1]
    BY <2>1, HeadTailProperties
  <2> DEFINE t == Tail(deque)
             new == Append(t, value)
  <2>3. /\ new \in Seq(TrustValues) /\ Len(new) = Len(deque)
        /\ new[Len(new)] = value
        /\ \A i \in 1..Len(t) : new[i] = t[i]
    <3> HIDE DEF t
    <3>1. t \in Seq(TrustValues) /\ Len(t) = Len(deque) - 1
      BY <2>2 DEF t
    <3>2. /\ Append(t, value) \in Seq(TrustValues)
          /\ Len(Append(t, value)) = Len(t) + 1
          /\ \A k \in DOMAIN t : Append(t, value)[k] = t[k]
          /\ Append(t, value)[Len(t) + 1] = value
          /\ DOMAIN t = 1..Len(t) /\ Len(t) \in Nat
      BY <3>1, Appended
    <3> QED
      BY <1>0, <3>1, <3>2
  <2> HIDE DEF new
  <2>4. \A i \in 1..Len(new) - 1 : new[i] = deque[Len(deque) + 1 - Len(new) + i]
    BY <1>0, <2>2, <2>3
  <2>5. Pushed(deque, value) = new
    BY <1>2 DEF Pushed, new
  <2> QED
    BY <1>2, <2>1, <2>3, <2>4, <2>5
<1> QED
  BY <1>1, <1>2

(* The places of an agent among one entry more.                            *)
PlacesUpTo(n) == SUBSET (1..n)

LEMMA PlacesGrow ==
  ASSUME NEW entries, NEW n \in Nat, NEW agent
  PROVE  LET e == entries[n + 1]
             own == OwnUpTo(entries, n, agent)
             refused == RefusedUpTo(entries, n, agent)
             scored == ScoredUpTo(entries, n, agent)
         IN  /\ OwnUpTo(entries, n + 1, agent)
                  = IF e.agent = agent THEN own \union {n + 1} ELSE own
             /\ RefusedUpTo(entries, n + 1, agent)
                  = IF e.agent = agent /\ ~e.accepted THEN refused \union {n + 1} ELSE refused
             /\ ScoredUpTo(entries, n + 1, agent)
                  = IF e.agent = agent /\ Scored(e) THEN scored \union {n + 1} ELSE scored
             /\ own \in PlacesUpTo(n) /\ refused \in PlacesUpTo(n) /\ scored \in PlacesUpTo(n)
<1>1. 1..n + 1 = (1..n) \union {n + 1} /\ n + 1 \notin 1..n
  OBVIOUS
<1>2. OwnUpTo(entries, n + 1, agent)
        = IF entries[n + 1].agent = agent THEN OwnUpTo(entries, n, agent) \union {n + 1}
          ELSE OwnUpTo(entries, n, agent)
  BY <1>1 DEF OwnUpTo
<1>3. RefusedUpTo(entries, n + 1, agent)
        = IF entries[n + 1].agent = agent /\ ~entries[n + 1].accepted
          THEN RefusedUpTo(entries, n, agent) \union {n + 1}
          ELSE RefusedUpTo(entries, n, agent)
  BY <1>2 DEF RefusedUpTo
<1>4. ScoredUpTo(entries, n + 1, agent)
        = IF entries[n + 1].agent = agent /\ Scored(entries[n + 1])
          THEN ScoredUpTo(entries, n, agent) \union {n + 1}
          ELSE ScoredUpTo(entries, n, agent)
  BY <1>2 DEF ScoredUpTo
<1>5. /\ OwnUpTo(entries, n, agent) \in PlacesUpTo(n)
      /\ RefusedUpTo(entries, n, agent) \in PlacesUpTo(n)
      /\ ScoredUpTo(entries, n, agent) \in PlacesUpTo(n)
  BY DEF OwnUpTo, RefusedUpTo, ScoredUpTo, PlacesUpTo
<1> QED
  BY <1>1, <1>2, <1>3, <1>4, <1>5

LEMMA FiniteUpTo ==
  ASSUME NEW n \in Nat, NEW S \in PlacesUpTo(n)
  PROVE  /\ IsFiniteSet(S) /\ Cardinality(S) \in Nat
         /\ Cardinality(S \union {n + 1}) = Cardinality(S) + 1
         /\ Later(S \union {n + 1}, n + 1) = 0
         /\ \A k \in S : /\ Later(S, k) \in Nat
                         /\ Later(S \union {n + 1}, k) = Later(S, k) + 1
<1>0. S \in SUBSET (1..n) /\ \A j \in S : j \in Nat /\ j <= n
  BY DEF PlacesUpTo
<1>1. IsFiniteSet(S) /\ Cardinality(S) \in Nat
  <2>1. IsFiniteSet(1..n) /\ S \in SUBSET (1..n)
    BY <1>0, FS_Interval
  <2> QED
    BY <2>1, FS_Subset, FS_CardinalityType
<1>2. n + 1 \notin S
  BY <1>0
<1>3. Cardinality(S \union {n + 1}) = Cardinality(S) + 1
  BY <1>1, <1>2, FS_AddElement
<1>4. Later(S \union {n + 1}, n + 1) = 0
  <2>1. \A j \in S \union {n + 1} : ~(j > n + 1)
    BY <1>0
  <2> QED
    BY <2>1, FS_EmptySet DEF Later
<1>5. ASSUME NEW k \in S
      PROVE  Later(S, k) \in Nat /\ Later(S \union {n + 1}, k) = Later(S, k) + 1
  <2> DEFINE L == {j \in S : j > k}
  <2>1. {j \in S \union {n + 1} : j > k} = L \union {n + 1}
    BY <1>0
  <2>2. n + 1 \notin L
    BY <1>2
  <2>3. IsFiniteSet(L) /\ Cardinality(L) \in Nat
    BY <1>1, FS_Subset, FS_CardinalityType
  <2>4. Cardinality(L \union {n + 1}) = Cardinality(L) + 1
    BY <2>2, <2>3, FS_AddElement
  <2> QED
    BY <2>1, <2>3, <2>4 DEF Later
<1> QED
  BY <1>1, <1>3, <1>4, <1>5

(* The window over the scored entries of an agent moves on by one.         *)
LEMMA WindowMoves ==
  ASSUME NEW n \in Nat, NEW S \in PlacesUpTo(n), NEW entries,
         NEW deque \in Seq(TrustValues), NEW trust \in TrustValues,
         trust = entries[n + 1].trust, WindowOver(deque, entries, S)
  PROVE  /\ Pushed(deque, trust) \in Seq(TrustValues)
         /\ WindowOver(Pushed(deque, trust), entries, S \union {n + 1})
<1> DEFINE T == S \union {n + 1}
           new == Pushed(deque, trust)
<1>0. /\ Len(deque) \in Nat /\ RecentWindow \in Nat \ {0} /\ Len(deque) <= RecentWindow
      /\ Cardinality(S) \in Nat /\ Cardinality(T) = Cardinality(S) + 1
      /\ Later(T, n + 1) = 0
      /\ \A k \in S : Later(S, k) \in Nat /\ Later(T, k) = Later(S, k) + 1
      /\ Len(deque) = IF Cardinality(S) <= RecentWindow THEN Cardinality(S) ELSE RecentWindow
  <2>1. /\ RecentWindow \in Nat \ {0} /\ Len(deque) \in Nat
        /\ Len(deque) = IF Cardinality(S) <= RecentWindow THEN Cardinality(S)
                        ELSE RecentWindow
    BY NumbersAssumption DEF WindowOver
  <2>2. /\ Cardinality(S) \in Nat /\ Cardinality(T) = Cardinality(S) + 1
        /\ Later(T, n + 1) = 0
        /\ \A k \in S : Later(S, k) \in Nat /\ Later(T, k) = Later(S, k) + 1
    BY FiniteUpTo
  <2>3. Len(deque) <= RecentWindow
    BY <2>1, <2>2
  <2> QED
    BY <2>1, <2>2, <2>3
<1>1. /\ new \in Seq(TrustValues)
      /\ Len(new) = IF Len(deque) < RecentWindow THEN Len(deque) + 1 ELSE RecentWindow
      /\ new[Len(new)] = trust
      /\ \A i \in 1..Len(new) - 1 : new[i] = deque[Len(deque) + 1 - Len(new) + i]
  BY <1>0, PushedFacts
<1> HIDE DEF new
<1>2. Len(new) = IF Cardinality(T) <= RecentWindow THEN Cardinality(T) ELSE RecentWindow
  BY <1>0, <1>1
<1> HIDE DEF T
<1>3. ASSUME NEW k \in S, Later(T, k) < Len(new)
      PROVE  new[Len(new) - Later(T, k)] = entries[k].trust
  <2> DEFINE later == Later(S, k)
             i == Len(new) - Later(T, k)
  <2>1. later \in Nat /\ Later(T, k) = later + 1 /\ Len(new) \in Nat
    BY <1>0, <1>1
  <2> HIDE DEF later
  <2>2. i \in 1..Len(new) - 1 /\ Len(deque) + 1 - Len(new) + i = Len(deque) - later
    <3>1. Len(deque) \in Nat
      BY <1>0
    <3>2. i = Len(new) - (later + 1) /\ later + 1 < Len(new)
      BY <1>3, <2>1
    <3> HIDE DEF i
    <3> QED
      BY <2>1, <3>1, <3>2
  <2>3. later < Len(deque)
    BY <1>0, <1>1, <1>3, <2>1
  <2>4. new[i] = deque[Len(deque) - later]
    BY <1>1, <2>2
  <2>5. deque[Len(deque) - later] = entries[k].trust
    BY <2>3 DEF later, WindowOver
  <2> QED
    BY <2>4, <2>5
<1>4. new[Len(new) - Later(T, n + 1)] = entries[n + 1].trust
  BY <1>0, <1>1
<1> QED
  BY <1>1, <1>2, <1>3, <1>4 DEF new, T, WindowOver

LEMMA UpdatedTells ==
  ASSUME NEW entries \in Seq(Entry), NEW n \in Nat, n + 1 \in DOMAIN entries,
         NEW agents \in [Agents -> Reputation], Tells(agents, entries, n)
  PROVE  /\ Updated(agents, entries[n + 1]) \in [Agents -> Reputation]
         /\ Tells(Updated(agents, entries[n + 1]), entries, n + 1)
<1> DEFINE e == entries[n + 1]
           new == Updated(agents, e)
           old == agents[e.agent]
           r == [interactions |-> old.interactions + 1,
                 violations   |-> IF e.accepted THEN old.violations ELSE old.violations + 1,
                 recent       |-> IF Scored(e) THEN Pushed(old.recent, e.trust)
                                  ELSE old.recent]
<1>0. e \in Entry
  BY ElementOfSeq
<1>1. /\ e.agent \in Agents \union {Nobody} /\ e.accepted \in BOOLEAN
      /\ Scored(e) => e.trust \in TrustValues
      /\ Nobody \notin Agents
  BY <1>0, AgentsAssumption DEF Entry, Scored, Nobody
<1>2. IF e.agent = Nobody THEN new = agents ELSE new = [agents EXCEPT ![e.agent] = r]
  BY DEF Updated
<1> HIDE DEF new
<1>3. ASSUME NEW agent \in Agents, agent # e.agent
      PROVE  new[agent] \in Reputation /\ TellsOf(new[agent], entries, n + 1, agent)
  <2>1. new[agent] = agents[agent]
    BY <1>1, <1>2, <1>3
  <2>2. /\ OwnUpTo(entries, n + 1, agent) = OwnUpTo(entries, n, agent)
        /\ RefusedUpTo(entries, n + 1, agent) = RefusedUpTo(entries, n, agent)
        /\ ScoredUpTo(entries, n + 1, agent) = ScoredUpTo(entries, n, agent)
    BY <1>3, PlacesGrow
  <2>3. TellsOf(agents[agent], entries, n, agent)
    BY DEF Tells
  <2> QED
    BY <2>1, <2>2, <2>3 DEF TellsOf
<1>4. ASSUME e.agent \in Agents
      PROVE  new[e.agent] \in Reputation /\ TellsOf(new[e.agent], entries, n + 1, e.agent)
  <2> DEFINE own == OwnUpTo(entries, n, e.agent)
             refused == RefusedUpTo(entries, n, e.agent)
             scored == ScoredUpTo(entries, n, e.agent)
  <2>1. new[e.agent] = r
    BY <1>1, <1>2, <1>4
  <2>2. /\ OwnUpTo(entries, n + 1, e.agent) = own \union {n + 1}
        /\ RefusedUpTo(entries, n + 1, e.agent)
             = IF e.accepted THEN refused ELSE refused \union {n + 1}
        /\ ScoredUpTo(entries, n + 1, e.agent)
             = IF Scored(e) THEN scored \union {n + 1} ELSE scored
        /\ own \in PlacesUpTo(n) /\ refused \in PlacesUpTo(n) /\ scored \in PlacesUpTo(n)
    BY <1>1, PlacesGrow
  <2>3. /\ old \in Reputation
        /\ old.interactions = Cardinality(own)
        /\ old.violations = Cardinality(refused)
        /\ WindowOver(old.recent, entries, scored)
    BY <1>4 DEF Tells, TellsOf
  <2>4. /\ old.interactions \in Nat /\ old.violations \in Nat
        /\ old.recent \in Seq(TrustValues)
    BY <2>3 DEF Reputation
  <2>11. /\ r.interactions = old.interactions + 1
         /\ r.violations = IF e.accepted THEN old.violations ELSE old.violations + 1
         /\ r.recent = IF Scored(e) THEN Pushed(old.recent, e.trust) ELSE old.recent
         /\ r = [interactions |-> r.interactions, violations |-> r.violations,
                 recent |-> r.recent]
    OBVIOUS
  <2> HIDE DEF own, refused, scored, r, old
  <2>12. own \in PlacesUpTo(n) /\ refused \in PlacesUpTo(n) /\ scored \in PlacesUpTo(n)
    BY <2>2
  <2>13. /\ Cardinality(own) \in Nat /\ Cardinality(own \union {n + 1}) = Cardinality(own) + 1
         /\ Cardinality(refused) \in Nat
         /\ Cardinality(refused \union {n + 1}) = Cardinality(refused) + 1
    BY <2>12, FiniteUpTo
  <2>5. /\ r.interactions \in Nat
        /\ r.interactions = Cardinality(own \union {n + 1})
    BY <2>3, <2>4, <2>11, <2>13
  <2>6. /\ r.violations \in Nat
        /\ r.violations
             = Cardinality(IF e.accepted THEN refused ELSE refused \union {n + 1})
    <3> HIDE DEF e
    <3>1. CASE e.accepted
      BY <2>3, <2>4, <2>11, <3>1
    <3>2. CASE ~e.accepted
      BY <2>3, <2>4, <2>11, <2>13, <3>2
    <3> QED
      BY <3>1, <3>2
  <2>7. CASE Scored(e)
    <3>1. r.recent = Pushed(old.recent, e.trust) /\ e.trust \in TrustValues
      BY <1>1, <2>7, <2>11
    <3>2. /\ r.recent \in Seq(TrustValues)
          /\ WindowOver(r.recent, entries, scored \union {n + 1})
      <4>1. PICK deque \in Seq(TrustValues), trust \in TrustValues :
              deque = old.recent /\ trust = entries[n + 1].trust
        BY <2>4, <3>1
      <4>2. WindowOver(deque, entries, scored)
        BY <2>3, <4>1
      <4>3. /\ Pushed(deque, trust) \in Seq(TrustValues)
            /\ WindowOver(Pushed(deque, trust), entries, scored \union {n + 1})
        BY <2>12, <4>1, <4>2, WindowMoves
      <4> QED
        BY <3>1, <4>1, <4>3
    <3>3. r \in Reputation
      BY <2>5, <2>6, <2>11, <3>2 DEF Reputation
    <3> HIDE DEF e
    <3> QED
      BY <2>1, <2>2, <2>5, <2>6, <2>7, <3>2, <3>3 DEF TellsOf
  <2>8. CASE ~Scored(e)
    <3>1. r.recent = old.recent
      BY <2>8, <2>11
    <3>2. r \in Reputation
      BY <2>4, <2>5, <2>6, <2>11, <3>1 DEF Reputation
    <3> HIDE DEF e
    <3> QED
      BY <2>1, <2>2, <2>3, <2>5, <2>6, <2>8, <3>1, <3>2 DEF TellsOf
  <2> QED
    BY <2>7, <2>8
<1>5. DOMAIN new = Agents /\ new = [agent \in Agents |-> new[agent]]
  BY <1>2
<1>6. \A agent \in Agents :
        new[agent] \in Reputation /\ TellsOf(new[agent], entries, n + 1, agent)
  BY <1>3, <1>4
<1> QED
  BY <1>5, <1>6 DEF new, Tells

(* What holds of a number, and of the next one, holds up to any other.     *)
LEMMA LeastOfNumbers ==
  ASSUME NEW T \in SUBSET Nat, T # {}
  PROVE  \E x \in T : \A y \in T : x <= y
<1> DEFINE R == {ss \in Nat \X Nat : ss[1] < ss[2]}
<1>1. IsWellFoundedOn(R, Nat)
  BY NatLessThanWellFounded DEF OpToRel
<1>2. PICK x \in T : \A y \in T : ~(<<y, x>> \in R)
  <2> HIDE DEF R
  <2> QED
    BY <1>1, WFMin
<1>3. \A y \in T : ~(y < x)
  BY <1>2
<1> QED
  BY <1>3

LEMMA AllFromTo ==
  ASSUME NEW m \in Nat, NEW n \in Nat, NEW T \in SUBSET (m..n),
         m \in T, \A k \in m + 1..n : k - 1 \in T => k \in T
  PROVE  T = m..n
<1> DEFINE rest == (m..n) \ T
<1> SUFFICES ASSUME rest # {} PROVE FALSE
  OBVIOUS
<1>1. PICK x \in rest : \A y \in rest : x <= y
  <2>1. rest \in SUBSET Nat
    OBVIOUS
  <2> HIDE DEF rest
  <2> QED
    BY <2>1, LeastOfNumbers
<1>2. x # m /\ x \in m + 1..n
  OBVIOUS
<1>3. x - 1 \in T
  BY <1>1, <1>2
<1> QED
  BY <1>2, <1>3

(* The engine is updated entry by entry.                                   *)
LEMMA UpdatedUpToUnfolds ==
  ASSUME read \in Nat, NEW n \in Nat, read <= n
  PROVE  \E f : /\ UpdatedUpTo(n) = f[n]
                /\ f[read] = reputation
                /\ \A k \in read + 1..n : f[k] = Updated(f[k - 1], log[k])
<1> DEFINE Partial(p, m) == /\ p[read] = reputation
                            /\ \A k \in read + 1..m : p[k] = Updated(p[k - 1], log[k])
           T == {m \in read..n : \E p : Partial(p, m)}
           Fits(f) == f = [k \in read..n |->
             IF k = read THEN reputation ELSE Updated(f[k - 1], log[k])]
           after == CHOOSE f : Fits(f)
<1>1. read \in T
  <2> DEFINE p == [k \in read..n |-> reputation]
  <2>1. Partial(p, read) /\ read \in read..n
    OBVIOUS
  <2> HIDE DEF Partial, p
  <2> QED
    BY <2>1
<1>2. ASSUME NEW m \in read + 1..n, m - 1 \in T
      PROVE  m \in T
  <2>1. PICK p : Partial(p, m - 1)
    BY <1>2
  <2> DEFINE q == [k \in read..n |-> IF k = m THEN Updated(p[m - 1], log[m]) ELSE p[k]]
  <2>2. q[read] = reputation
    BY <2>1
  <2>3. \A k \in read..m - 1 : q[k] = p[k]
    OBVIOUS
  <2>4. q[m] = Updated(p[m - 1], log[m])
    OBVIOUS
  <2> HIDE DEF q
  <2>5. ASSUME NEW k \in read + 1..m
        PROVE  q[k] = Updated(q[k - 1], log[k])
    <3>1. CASE k = m
      <4>1. q[m - 1] = p[m - 1]
        BY <2>3
      <4> QED
        BY <2>4, <3>1, <4>1
    <3>2. CASE k # m
      <4>1. q[k] = p[k] /\ q[k - 1] = p[k - 1]
        BY <2>3, <3>2
      <4>2. p[k] = Updated(p[k - 1], log[k])
        BY <2>1, <3>2
      <4> QED
        BY <4>1, <4>2
    <3> QED
      BY <3>1, <3>2
  <2>6. Partial(q, m) /\ m \in read..n
    BY <2>2, <2>5
  <2> HIDE DEF Partial
  <2> QED
    BY <2>6
<1>3. n \in T
  <2>1. T \in SUBSET (read..n)
    OBVIOUS
  <2> HIDE DEF T
  <2>2. T = read..n
    BY <1>1, <1>2, <2>1, AllFromTo
  <2> QED
    BY <2>2
<1>4. PICK p : Partial(p, n)
  BY <1>3
<1> DEFINE g == [k \in read..n |-> p[k]]
<1>5. Fits(g)
  <2>1. ASSUME NEW k \in read..n
        PROVE  p[k] = IF k = read THEN reputation ELSE Updated(g[k - 1], log[k])
    <3>1. CASE k = read
      BY <1>4, <3>1
    <3>2. CASE k # read
      <4>1. g[k - 1] = p[k - 1]
        BY <3>2
      <4>2. p[k] = Updated(p[k - 1], log[k])
        BY <1>4, <3>2
      <4> QED
        BY <3>2, <4>1, <4>2
    <3> QED
      BY <3>1, <3>2
  <2> QED
    BY <2>1
<1>6. Fits(after)
  <2> HIDE DEF Fits, g
  <2> QED
    BY <1>5
<1>7. UpdatedUpTo(n) = after[n]
  BY DEF UpdatedUpTo
<1> HIDE DEF after
<1>8. /\ after[read] = reputation
      /\ \A k \in read + 1..n : after[k] = Updated(after[k - 1], log[k])
  BY <1>6
<1> QED
  BY <1>7, <1>8

LEMMA UpdatedUpToTells ==
  ASSUME log \in Seq(Entry), ReputationTells, NEW n \in read..Len(log)
  PROVE  /\ UpdatedUpTo(n) \in [Agents -> Reputation]
         /\ Tells(UpdatedUpTo(n), log, n)
<1>0. /\ read \in Nat /\ n \in Nat /\ read <= n /\ n <= Len(log)
      /\ DOMAIN log = 1..Len(log) /\ Len(log) \in Nat
      /\ reputation \in [Agents -> Reputation] /\ Tells(reputation, log, read)
  BY DEF ReputationTells
<1>1. PICK f : /\ UpdatedUpTo(n) = f[n]
               /\ f[read] = reputation
               /\ \A k \in read + 1..n : f[k] = Updated(f[k - 1], log[k])
  BY <1>0, UpdatedUpToUnfolds
<1> DEFINE T == {k \in read..n : f[k] \in [Agents -> Reputation] /\ Tells(f[k], log, k)}
<1>2. read \in T
  BY <1>0, <1>1
<1>3. ASSUME NEW k \in read + 1..n, k - 1 \in T
      PROVE  k \in T
  <2>1. /\ k - 1 \in Nat /\ (k - 1) + 1 = k /\ (k - 1) + 1 \in DOMAIN log
        /\ f[k - 1] \in [Agents -> Reputation] /\ Tells(f[k - 1], log, k - 1)
    BY <1>0, <1>3
  <2>2. /\ Updated(f[k - 1], log[(k - 1) + 1]) \in [Agents -> Reputation]
        /\ Tells(Updated(f[k - 1], log[(k - 1) + 1]), log, (k - 1) + 1)
    BY <2>1, UpdatedTells
  <2>3. f[k] = Updated(f[k - 1], log[k]) /\ k \in read..n
    BY <1>0, <1>1
  <2> QED
    BY <2>1, <2>2, <2>3
<1>4. T = read..n
  <2>1. T \in SUBSET (read..n)
    OBVIOUS
  <2> HIDE DEF T
  <2> QED
    BY <1>0, <1>2, <1>3, <2>1, AllFromTo
<1> QED
  BY <1>0, <1>1, <1>4

(* What is told of the first entries does not depend on later ones.        *)
LEMMA TellsOfTheFirst ==
  ASSUME NEW agents, NEW entries, NEW more, NEW n, Tells(agents, entries, n),
         \A k \in 1..n : more[k] = entries[k]
  PROVE  Tells(agents, more, n)
<1>1. ASSUME NEW agent \in Agents
      PROVE  /\ OwnUpTo(more, n, agent) = OwnUpTo(entries, n, agent)
             /\ RefusedUpTo(more, n, agent) = RefusedUpTo(entries, n, agent)
             /\ ScoredUpTo(more, n, agent) = ScoredUpTo(entries, n, agent)
  BY DEF OwnUpTo, RefusedUpTo, ScoredUpTo
<1>2. \A agent \in Agents : \A k \in ScoredUpTo(entries, n, agent) : more[k] = entries[k]
  BY DEF ScoredUpTo, OwnUpTo
<1> QED
  BY <1>1, <1>2 DEF Tells, TellsOf, WindowOver

LEMMA NextReputation ==
  BoundaryTyped /\ LogInOrder /\ ReputationTells /\ [Next]_vars => ReputationTells'
<1> SUFFICES ASSUME BoundaryTyped, LogInOrder, ReputationTells, [Next]_vars
             PROVE  ReputationTells'
  OBVIOUS
<1>0. /\ log \in Seq(Entry) /\ read \in 0..Len(log) /\ Len(log) \in Nat
      /\ DOMAIN log = 1..Len(log)
      /\ reputation \in [Agents -> Reputation] /\ Tells(reputation, log, read)
  BY DEF LogInOrder, ReputationTells
<1>1. ASSUME UNCHANGED <<log, read, reputation>>
      PROVE  ReputationTells'
  BY <1>0, <1>1 DEF ReputationTells
<1>2. ASSUME NEW event, Ends(event), UNCHANGED <<read, reputation>>
      PROVE  ReputationTells'
  <2>1. CASE log' = log
    BY <1>1, <1>2, <2>1
  <2>2. CASE log' # log
    <3>1. PICK entry \in Entry : log' = Append(log, entry)
      BY <1>2, <2>2 DEF Ends
    <3>2. /\ Len(log') = Len(log) + 1
          /\ \A k \in DOMAIN log : log'[k] = log[k]
      BY <1>0, <3>1, Appended
    <3>3. \A k \in 1..read : log'[k] = log[k]
      BY <1>0, <3>2
    <3>4. Tells(reputation, log', read)
      BY <1>0, <3>3, TellsOfTheFirst
    <3>5. read \in 0..Len(log')
      BY <1>0, <3>2
    <3> QED
      BY <1>0, <1>2, <3>4, <3>5 DEF ReputationTells
  <2> QED
    BY <2>1, <2>2
<1>3. CASE UpdateReputation
  <2>1. PICK n \in read + 1..Len(log) : read' = n /\ reputation' = UpdatedUpTo(n)
    BY <1>3 DEF UpdateReputation
  <2>2. n \in read..Len(log) /\ n \in 0..Len(log) /\ log' = log
    BY <1>0, <1>3 DEF UpdateReputation, boundaryVars
  <2>3. UpdatedUpTo(n) \in [Agents -> Reputation] /\ Tells(UpdatedUpTo(n), log, n)
    BY <1>0, <2>2, UpdatedUpToTells
  <2> QED
    BY <2>1, <2>2, <2>3 DEF ReputationTells
<1>4. CASE Boundary
  <2>1. UNCHANGED <<read, reputation>>
    BY <1>4 DEF Boundary, Tick, Score, EndScored, EndRejected, Restart, reportVars
  <2>2. CASE Tick \/ Restart
    BY <1>1, <2>1, <2>2 DEF Tick, Restart
  <2>3. ASSUME NEW v \in Evaluators, NEW agent \in Agents, NEW plan \in Plans,
               NEW trust \in TrustValues, Score(v, agent, plan, trust)
        PROVE  ReputationTells'
    BY <1>1, <2>1, <2>3 DEF Score
  <2> QED
    BY <1>2, <1>4, <2>1, <2>2, <2>3, EndsScored, EndsRejected DEF Boundary
<1>5. CASE Labelling
  BY <1>1, <1>5 DEF Labelling, Show, OpenStore, OpenRaises, AppendLabel,
              AppendRaises, Again, EditLabel, CutLabels, boundaryVars, reportVars
<1>6. CASE UNCHANGED vars
  BY <1>1, <1>6 DEF vars, boundaryVars, reportVars
<1> QED
  BY <1>3, <1>4, <1>5, <1>6 DEF Next

LEMMA InitReport == Init => ReportInv
<1> SUFFICES ASSUME Init PROVE ReportInv
  OBVIOUS
<1>1. BoundaryTyped /\ file = << >> /\ now = 0 /\ limit \in Limits
  BY InitRefit DEF Init, RefitInv
<1>2. /\ Len(log) <= 1
      /\ log \in Seq([agent : Agents \union {Nobody}, time : {0},
                      trust : TrustValues \union {NoTrust}, accepted : BOOLEAN,
                      executor : {"none", "production"}])
      /\ \A k \in DOMAIN log : log[k].accepted = Accepted(log[k].trust)
      /\ read = 0 /\ reputation = [agent \in Agents |-> NoReputation]
  BY OldEntriesAssumption DEF Init
<1> DEFINE Old == [agent : Agents \union {Nobody}, time : {0},
                   trust : TrustValues \union {NoTrust}, accepted : BOOLEAN,
                   executor : {"none", "production"}]
<1>3. Old \subseteq Entry
  BY <1>1, BusyTyped DEF Entry
<1>4. \A k \in DOMAIN log : log[k] \in Old
  <2>1. log \in Seq(Old)
    BY <1>2
  <2> HIDE DEF Old
  <2> QED
    BY <2>1, ElementOfSeq
<1>5. log \in Seq(Entry)
  <2> HIDE DEF Old
  <2>1. log \in Seq(Old)
    BY <1>2 DEF Old
  <2> QED
    BY <1>3, <1>4, <2>1
<1>6. \A k \in DOMAIN log : log[k].time = 0
  BY <1>4
<1>7. LogInOrder
  <2>1. Len(<< >>) = 0 /\ DOMAIN log = 1..Len(log) /\ Len(log) \in Nat
    BY <1>5, EmptySeq
  <2>2. \A k \in DOMAIN log : \A j \in 1..k : j \in DOMAIN log
    BY <2>1
  <2> QED
    BY <1>1, <1>2, <1>5, <1>6, <2>1, <2>2 DEF LogInOrder
<1>8. ReputationTells
  <2>1. NoReputation \in Reputation /\ Len(NoReputation.recent) = 0
    BY EmptySeq DEF NoReputation, Reputation
  <2>2. ASSUME NEW agent \in Agents
        PROVE  TellsOf(NoReputation, log, 0, agent)
    <3>1. /\ OwnUpTo(log, 0, agent) = {} /\ RefusedUpTo(log, 0, agent) = {}
          /\ ScoredUpTo(log, 0, agent) = {}
      BY DEF OwnUpTo, RefusedUpTo, ScoredUpTo
    <3>2. NoReputation.interactions = 0 /\ NoReputation.violations = 0
      BY DEF NoReputation
    <3>3. WindowOver(NoReputation.recent, log, {})
      BY <2>1, FS_EmptySet, NumbersAssumption DEF WindowOver
    <3> QED
      BY <3>1, <3>2, <3>3, FS_EmptySet DEF TellsOf
  <2> QED
    BY <1>2, <1>5, <2>1, <2>2 DEF ReputationTells, Tells
<1> QED
  BY <1>1, <1>7, <1>8 DEF ReportInv

THEOREM ReportInvariantHolds == Spec => []ReportInv
BY InitReport, NextBoundaryTyped, NextLog, NextReputation, PTL DEF Spec, ReportInv

-----------------------------------------------------------------------------
(* Types.                                                                  *)

FlagsTyped ==
  torn \in BOOLEAN /\ recorded \in SUBSET Label /\ meddled \subseteq {"edited", "cut", "overlapped"}

LEMMA NextFlags == LabelsTyped /\ FlagsTyped /\ [Next]_vars => FlagsTyped'
<1> SUFFICES ASSUME LabelsTyped, FlagsTyped, [Next]_vars PROVE FlagsTyped'
  OBVIOUS
<1>1. Label' = Label
  BY StepsOfStore DEF Label
<1>2. ASSUME NEW a \in Analysts, AppendLabel(a)
      PROVE  FlagsTyped'
  <2>1. analyst[a].label \in Label
    BY <1>2, RunKinds DEF AppendLabel
  <2> QED
    BY <1>1, <1>2, <2>1 DEF FlagsTyped, AppendLabel
<1>3. ASSUME NEW a \in Analysts,
             \/ \E label \in Label : Show(a, label)
             \/ OpenStore(a) \/ OpenRaises(a) \/ AppendRaises(a) \/ Again(a)
      PROVE  FlagsTyped'
  BY <1>1, <1>3 DEF FlagsTyped, Show, OpenStore, OpenRaises, AppendRaises, Again
<1>4. CASE \/ \E k \in DOMAIN labels, label \in Label : EditLabel(k, label)
           \/ \E n \in 0..Len(labels) - 1 : CutLabels(n)
  BY <1>1, <1>4 DEF FlagsTyped, EditLabel, CutLabels
<1>5. CASE UNCHANGED <<labels, torn, analyst, recorded, meddled>>
  BY <1>1, <1>5 DEF FlagsTyped
<1> QED
  BY <1>2, <1>3, <1>4, <1>5, StepsOfStore DEF StoreStep

LEMMA FlagsAlwaysTyped == Spec => []FlagsTyped
<1>1. Init => FlagsTyped
  BY DEF Init, FlagsTyped
<1>2. LabelInv => LabelsTyped
  BY DEF LabelInv
<1> QED
  BY <1>1, <1>2, NextFlags, LabelInvariantHolds, PTL DEF Spec

(* Every variable stays in its type: no more decisions, log entries or     *)
(* scores in a window than there may be.                                   *)
THEOREM TypeCorrect == Spec => []TypeOK
<1>1. ReportInv /\ LabelInv /\ FlagsTyped => TypeOK
  <2> SUFFICES ASSUME ReportInv, LabelInv, FlagsTyped PROVE TypeOK
    OBVIOUS
  <2>1. BoundaryTyped /\ LogInOrder /\ ReputationTells /\ LabelsTyped
    BY DEF ReportInv, LabelInv
  <2>2. Len(memory) <= limit.decisions /\ Len(log) <= limit.decisions + 1
    BY <2>1, BusyTyped DEF BoundaryTyped, LogInOrder
  <2>3. \A agent \in Agents : Len(reputation[agent].recent) <= RecentWindow
    <3> SUFFICES ASSUME NEW agent \in Agents
                 PROVE  Len(reputation[agent].recent) <= RecentWindow
      OBVIOUS
    <3>0. read \in Nat
      BY <2>1 DEF ReputationTells, LogInOrder
    <3>1. read \in Nat /\ ScoredUpTo(log, read, agent) \in PlacesUpTo(read)
      BY <3>0, PlacesGrow
    <3>2. Cardinality(ScoredUpTo(log, read, agent)) \in Nat
      BY <3>1, FiniteUpTo
    <3>3. WindowOver(reputation[agent].recent, log, ScoredUpTo(log, read, agent))
      BY <2>1 DEF ReputationTells, Tells, TellsOf
    <3> QED
      BY <3>2, <3>3, NumbersAssumption DEF WindowOver
  <2>4. \A k \in DOMAIN labels : labels[k].label \in Label /\ labels[k].written \in Label
    <3>1. \A k \in DOMAIN labels : labels[k] \in LabelLine
      BY <2>1, ElementOfSeq DEF LabelsTyped
    <3> QED
      BY <3>1 DEF LabelLine
  <2>5. \A a \in Analysts : analyst[a].at \in {"start", "shown", "open", "end"}
    BY <2>1 DEF LabelsTyped, NotStarted
  <2> QED
    BY <2>1, <2>2, <2>3, <2>4, <2>5
       DEF TypeOK, BoundaryTyped, LogInOrder, ReputationTells, FlagsTyped
<1> QED
  BY <1>1, ReportInvariantHolds, LabelInvariantHolds, FlagsAlwaysTyped, PTL

-----------------------------------------------------------------------------
(* The reports.                                                            *)

(* A finite set is counted by its parts.                                   *)
LEMMA CountParts ==
  ASSUME NEW S, IsFiniteSet(S), NEW T \in SUBSET S
  PROVE  /\ IsFiniteSet(T) /\ IsFiniteSet(S \ T)
         /\ Cardinality(T) \in Nat /\ Cardinality(S \ T) \in Nat
         /\ Cardinality(S) = Cardinality(T) + Cardinality(S \ T)
<1>1. IsFiniteSet(T) /\ IsFiniteSet(S \ T)
  BY FS_Subset
<1>2. Cardinality(T) \in Nat /\ Cardinality(S \ T) \in Nat
  BY <1>1, FS_CardinalityType
<1>3. T \union (S \ T) = S /\ T \cap (S \ T) = {}
  OBVIOUS
<1>4. Cardinality(S) = Cardinality(T) + Cardinality(S \ T) - Cardinality({})
  BY <1>1, <1>3, FS_Union
<1> QED
  BY <1>1, <1>2, <1>4, FS_EmptySet

(* Of a finite set of numbers exactly one is the i-th.                     *)
Rank(K, k) == Cardinality({j \in K : j <= k})

LEMMA RanksDiffer ==
  ASSUME NEW K \in SUBSET Nat, IsFiniteSet(K)
  PROVE  /\ \A k \in K : Rank(K, k) \in 1..Cardinality(K)
         /\ \A k, l \in K : k < l => Rank(K, k) < Rank(K, l)
<1>1. ASSUME NEW k \in K
      PROVE  Rank(K, k) \in 1..Cardinality(K)
  <2> DEFINE L == {j \in K : j <= k}
  <2>1. L \in SUBSET K /\ k \in L
    OBVIOUS
  <2>2. /\ Cardinality(L) \in Nat /\ Cardinality(K) \in Nat
        /\ Cardinality(L) <= Cardinality(K)
        /\ Cardinality(L) # 0
    BY <2>1, FS_Subset, FS_CardinalityType, FS_EmptySet
  <2> QED
    BY <2>2 DEF Rank
<1>2. ASSUME NEW k \in K, NEW l \in K, k < l
      PROVE  Rank(K, k) < Rank(K, l)
  <2> DEFINE A == {j \in K : j <= k}
             B == {j \in K : j <= l}
  <2>0. k \in Nat /\ l \in Nat /\ \A j \in K : j \in Nat
    OBVIOUS
  <2>1. A \in SUBSET B /\ B \in SUBSET K /\ l \in B /\ l \notin A
    <3>1. \A j \in K : j <= k => j <= l
      BY <1>2, <2>0
    <3>2. l <= l /\ ~(l <= k)
      BY <1>2, <2>0
    <3> QED
      BY <3>1, <3>2
  <2> HIDE DEF A, B
  <2>2. IsFiniteSet(B)
    BY <2>1, FS_Subset
  <2>3. IsFiniteSet(A) /\ Cardinality(A) <= Cardinality(B) /\ Cardinality(A) # Cardinality(B)
    BY <2>1, <2>2, FS_Subset
  <2>4. Cardinality(A) \in Nat /\ Cardinality(B) \in Nat
    BY <2>2, <2>3, FS_CardinalityType
  <2> QED
    BY <2>3, <2>4 DEF Rank, A, B
<1> QED
  BY <1>1, <1>2

LEMMA PlaceExists ==
  ASSUME NEW K \in SUBSET Nat, IsFiniteSet(K), NEW i \in 1..Cardinality(K)
  PROVE  \E k \in K : Rank(K, k) = i
<1> DEFINE f == [k \in K |-> Rank(K, k)]
           T == 1..Cardinality(K)
<1>1. f \in [K -> T]
  BY RanksDiffer
<1>2. \A k, l \in K : f[k] = f[l] => k = l
  <2>1. \A k, l \in K : k < l \/ l < k \/ k = l
    OBVIOUS
  <2>2. \A k, l \in K : k < l => f[k] # f[l]
    <3>1. \A k, l \in K : k < l => Rank(K, k) < Rank(K, l)
      BY RanksDiffer
    <3>2. \A k \in K : Rank(K, k) \in Nat
      <4>1. \A k \in K : Rank(K, k) \in T
        BY RanksDiffer
      <4> QED
        BY <4>1
    <3> QED
      BY <3>1, <3>2
  <2> QED
    BY <2>1, <2>2
<1>3. Cardinality(K) \in Nat
  BY FS_CardinalityType
<1>4. IsFiniteSet(T) /\ Cardinality(T) = Cardinality(K)
  BY <1>3, FS_Interval
<1> HIDE DEF f, T
<1>5. f \in Injection(K, T)
  BY <1>1, <1>2 DEF Injection, IsInjective
<1>6. f \in Surjection(K, T)
  BY <1>4, <1>5, FS_Injection
<1>7. \E k \in K : f[k] = i
  BY <1>6 DEF Surjection, T
<1> QED
  BY <1>7 DEF f

LEMMA PlaceInOrderFacts ==
  ASSUME NEW K \in SUBSET Nat, IsFiniteSet(K), NEW i \in 1..Cardinality(K)
  PROVE  PlaceInOrder(K, i) \in K /\ Rank(K, PlaceInOrder(K, i)) = i
BY PlaceExists DEF PlaceInOrder, Rank

LEMMA PlacesOfScored ==
  ASSUME LogInOrder, NEW agent
  PROVE  /\ ScoredOf(agent) = ScoredUpTo(log, Len(log), agent)
         /\ ScoredOf(agent) \in SUBSET DOMAIN log
         /\ ScoredOf(agent) \in SUBSET Nat
         /\ IsFiniteSet(ScoredOf(agent)) /\ Cardinality(ScoredOf(agent)) \in Nat
<1>1. log \in Seq(Entry) /\ DOMAIN log = 1..Len(log) /\ Len(log) \in Nat
  BY DEF LogInOrder
<1>2. /\ ScoredOf(agent) = ScoredUpTo(log, Len(log), agent)
      /\ ScoredOf(agent) \in SUBSET DOMAIN log
  BY <1>1 DEF ScoredOf, EntriesOf, ScoredUpTo, OwnUpTo
<1>3. DOMAIN log \subseteq Nat
  BY <1>1
<1> QED
  BY <1>1, <1>2, <1>3, FinitePlaces

(* Sorting the entries by time leaves them where they are.                 *)
LEMMA SortedAsLogged ==
  ASSUME LogInOrder, BoundaryTyped, NEW agent
  PROVE  SeriesByTime(agent) = SeriesInOrder(agent)
<1> DEFINE K == ScoredOf(agent)
<1>1. /\ K \in SUBSET Nat /\ K \in SUBSET DOMAIN log
      /\ IsFiniteSet(K) /\ Cardinality(K) \in Nat
  BY PlacesOfScored
<1>2. \A k \in DOMAIN log : /\ log[k].time \in Int
                            /\ \A j \in 1..k : log[j].time <= log[k].time
  <2>1. \A k \in DOMAIN log : log[k] \in Entry
    BY ElementOfSeq DEF LogInOrder
  <2>2. limit.time \in Nat
    BY BusyTyped
  <2>3. \A k \in DOMAIN log : log[k].time \in Int
    BY <2>1, <2>2 DEF Entry
  <2> QED
    BY <2>3 DEF LogInOrder
<1>3. ASSUME NEW k \in K, NEW j \in K
      PROVE  SortsNoLater(j, k) <=> j <= k
  <2>1. /\ j \in DOMAIN log /\ k \in DOMAIN log /\ DOMAIN log = 1..Len(log)
        /\ Len(log) \in Nat
    BY <1>1 DEF LogInOrder
  <2>2. log[j].time \in Int /\ log[k].time \in Int
    BY <1>2, <2>1
  <2>3. CASE j <= k
    <3>1. log[j].time <= log[k].time
      BY <1>2, <2>1, <2>3
    <3> QED
      BY <2>2, <2>3, <3>1 DEF SortsNoLater
  <2>4. CASE ~(j <= k)
    <3>1. log[k].time <= log[j].time
      BY <1>2, <2>1, <2>4
    <3> QED
      BY <2>2, <2>4, <3>1 DEF SortsNoLater
  <2> QED
    BY <2>3, <2>4
<1> HIDE DEF K
<1>4. \A k \in K : Cardinality({j \in K : SortsNoLater(j, k)}) = Rank(K, k)
  <2> SUFFICES ASSUME NEW k \in K
               PROVE  Cardinality({j \in K : SortsNoLater(j, k)}) = Rank(K, k)
    OBVIOUS
  <2>1. {j \in K : SortsNoLater(j, k)} = {j \in K : j <= k}
    BY <1>3
  <2> QED
    BY <2>1 DEF Rank
<1>5. ASSUME NEW i \in 1..Cardinality(K)
      PROVE  PlaceByTime(K, i) = PlaceInOrder(K, i)
  <2>1. PlaceInOrder(K, i) \in K /\ Rank(K, PlaceInOrder(K, i)) = i
    BY <1>1, PlaceInOrderFacts
  <2>2. \E k \in K : Cardinality({j \in K : SortsNoLater(j, k)}) = i
    BY <1>4, <2>1
  <2>3. /\ PlaceByTime(K, i) \in K
        /\ Cardinality({j \in K : SortsNoLater(j, PlaceByTime(K, i))}) = i
    BY <2>2 DEF PlaceByTime
  <2>4. Rank(K, PlaceByTime(K, i)) = i
    BY <1>4, <2>3
  <2>5. \A k, l \in K : k < l => Rank(K, k) < Rank(K, l)
    BY <1>1, RanksDiffer
  <2>6. \A k, l \in K : k < l \/ l < k \/ k = l
    <3>1. \A k \in K : k \in Nat
      BY <1>1
    <3> QED
      BY <3>1
  <2>7. i \in Nat /\ ~(i < i)
    BY <1>1
  <2>8. PlaceByTime(K, i) \in K
    BY <2>3
  <2> QED
    BY <2>1, <2>4, <2>5, <2>6, <2>7, <2>8
<1> QED
  BY <1>5 DEF SeriesByTime, SeriesInOrder, K

LEMMA LaterByRank ==
  ASSUME NEW K \in SUBSET Nat, IsFiniteSet(K), NEW k \in K
  PROVE  /\ Rank(K, k) \in Nat /\ Later(K, k) \in Nat /\ Cardinality(K) \in Nat
         /\ Cardinality(K) = Rank(K, k) + Later(K, k)
<1> DEFINE T == {j \in K : j <= k}
<1>1. \A j \in K : ~(j <= k) <=> j > k
  <2>1. k \in Nat /\ \A j \in K : j \in Nat
    OBVIOUS
  <2> QED
    BY <2>1
<1>2. K \ T = {j \in K : j > k}
  BY <1>1
<1>3. T \in SUBSET K
  OBVIOUS
<1> HIDE DEF T
<1>4. /\ Cardinality(T) \in Nat /\ Cardinality(K \ T) \in Nat
      /\ Cardinality(K) = Cardinality(T) + Cardinality(K \ T)
  BY <1>3, CountParts
<1> QED
  BY <1>2, <1>4 DEF Rank, Later, T

LEMMA SeriesFacts ==
  ASSUME NEW agent, Cardinality(ScoredOf(agent)) \in Nat
  PROVE  /\ Len(SeriesInOrder(agent)) = Cardinality(ScoredOf(agent))
         /\ \A i \in 1..Cardinality(ScoredOf(agent)) :
              SeriesInOrder(agent)[i] = log[PlaceInOrder(ScoredOf(agent), i)].trust
<1> DEFINE N == Cardinality(ScoredOf(agent))
           value(i) == log[PlaceInOrder(ScoredOf(agent), i)].trust
           S == {value(i) : i \in 1..N}
           s == [i \in 1..N |-> value(i)]
<1>1. s \in [1..N -> S]
  OBVIOUS
<1>2. \A i \in 1..N : s[i] = value(i)
  OBVIOUS
<1> HIDE DEF N, S, s, value
<1>3. N \in Nat
  BY DEF N
<1>4. s \in Seq(S) /\ Len(s) = N
  BY <1>1, <1>3
<1>5. SeriesInOrder(agent) = s
  BY DEF SeriesInOrder, s, N, value
<1> QED
  BY <1>2, <1>4, <1>5 DEF N, value

LEMMA ReputationsAgree ==
  ASSUME ReportInv, NEW agent \in Agents
  PROVE  ReputationAgrees(agent)
<1> DEFINE K == ScoredOf(agent)
           N == Cardinality(K)
           recent == reputation[agent].recent
           L == Len(recent)
           series == SeriesInOrder(agent)
<1> SUFFICES ASSUME read = Len(log)
             PROVE  /\ reputation[agent].interactions = AgentSummary(agent).interactions
                    /\ reputation[agent].violations
                         = AgentSummary(agent).interactions - AgentSummary(agent).accepted
                    /\ IF Len(series) <= RecentWindow THEN L = Len(series)
                       ELSE L = RecentWindow
                    /\ \A i \in DOMAIN recent : recent[i] = series[Len(series) - L + i]
  BY DEF ReputationAgrees
<1>1. BoundaryTyped /\ LogInOrder /\ ReputationTells
  BY DEF ReportInv
<1>2. /\ log \in Seq(Entry) /\ DOMAIN log = 1..Len(log) /\ Len(log) \in Nat
      /\ reputation[agent] \in Reputation
      /\ TellsOf(reputation[agent], log, Len(log), agent)
      /\ RecentWindow \in Nat
  BY <1>1, NumbersAssumption DEF LogInOrder, ReputationTells, Tells
<1>3. /\ K \in SUBSET Nat /\ IsFiniteSet(K) /\ N \in Nat
      /\ K = ScoredUpTo(log, Len(log), agent)
  BY <1>1, PlacesOfScored
<1>4. /\ reputation[agent].interactions = AgentSummary(agent).interactions
      /\ reputation[agent].violations
           = AgentSummary(agent).interactions - AgentSummary(agent).accepted
  <2> DEFINE own == EntriesOf(agent)
             good == {k \in own : log[k].accepted}
  <2>1. own = OwnUpTo(log, Len(log), agent) /\ own \in SUBSET DOMAIN log
    BY <1>2 DEF EntriesOf, OwnUpTo
  <2>2. own \ good = RefusedUpTo(log, Len(log), agent)
    BY <2>1 DEF RefusedUpTo
  <2>3. good \in SUBSET own
    OBVIOUS
  <2>4. IsFiniteSet(own)
    BY <1>2, <2>1, FinitePlaces
  <2>5. /\ AgentSummary(agent).interactions = Cardinality(own)
        /\ AgentSummary(agent).accepted = Cardinality(good)
    BY DEF AgentSummary
  <2> HIDE DEF own, good
  <2>6. /\ Cardinality(good) \in Nat /\ Cardinality(own \ good) \in Nat
        /\ Cardinality(own) = Cardinality(good) + Cardinality(own \ good)
    BY <2>3, <2>4, CountParts
  <2>7. /\ reputation[agent].interactions = Cardinality(own)
        /\ reputation[agent].violations = Cardinality(own \ good)
    BY <1>2, <2>1, <2>2 DEF TellsOf
  <2> QED
    BY <2>5, <2>6, <2>7
<1>5. /\ recent \in Seq(TrustValues) /\ L \in Nat /\ DOMAIN recent = 1..L
      /\ L = IF N <= RecentWindow THEN N ELSE RecentWindow
      /\ \A k \in K : Later(K, k) < L => recent[L - Later(K, k)] = log[k].trust
  <2>1. recent \in Seq(TrustValues)
    BY <1>2 DEF Reputation
  <2>2. WindowOver(recent, log, K)
    BY <1>2, <1>3 DEF TellsOf
  <2> QED
    BY <2>1, <2>2 DEF WindowOver
<1>6. /\ Len(series) = N
      /\ \A i \in 1..N : series[i] = log[PlaceInOrder(K, i)].trust
  BY <1>3, SeriesFacts
<1> HIDE DEF K, N, recent, L, series
<1>7. ASSUME NEW i \in 1..L
      PROVE  recent[i] = series[N - L + i]
  <2> DEFINE m == N - L + i
             p == PlaceInOrder(K, m)
  <2>1. m \in 1..N /\ L - (L - i) = i /\ L - i < L /\ N - m = L - i
    BY <1>2, <1>3, <1>5
  <2> HIDE DEF m
  <2>2. p \in K /\ Rank(K, p) = m
    BY <1>3, <2>1, PlaceInOrderFacts DEF N
  <2> HIDE DEF p
  <2>3. N = m + Later(K, p) /\ Later(K, p) \in Nat
    BY <1>3, <2>2, LaterByRank DEF N
  <2>4. Later(K, p) = L - i
    BY <1>3, <2>1, <2>3
  <2>5. recent[i] = log[p].trust
    BY <1>5, <2>1, <2>2, <2>4
  <2>6. series[m] = log[p].trust
    BY <1>6, <2>1 DEF p
  <2> QED
    BY <2>5, <2>6 DEF m
<1>8. IF N <= RecentWindow THEN L = N ELSE L = RecentWindow
  BY <1>5
<1> QED
  BY <1>4, <1>5, <1>6, <1>7, <1>8 DEF recent, L, series

-----------------------------------------------------------------------------
(* The levels.                                                             *)

(* Parts of a finite set that have nothing in common are counted one by    *)
(* one.                                                                    *)
LEMMA CountTwo ==
  ASSUME NEW A, NEW B, IsFiniteSet(A \union B), A \cap B = {}
  PROVE  /\ IsFiniteSet(A) /\ IsFiniteSet(B)
         /\ Cardinality(A) \in Nat /\ Cardinality(B) \in Nat
         /\ Cardinality(A \union B) = Cardinality(A) + Cardinality(B)
<1>1. IsFiniteSet(A) /\ IsFiniteSet(B)
  <2>1. A \in SUBSET (A \union B) /\ B \in SUBSET (A \union B)
    OBVIOUS
  <2> QED
    BY <2>1, FS_Subset
<1>2. Cardinality(A) \in Nat /\ Cardinality(B) \in Nat
  BY <1>1, FS_CardinalityType
<1>3. Cardinality(A \union B) = Cardinality(A) + Cardinality(B) - Cardinality({})
  BY <1>1, FS_Union
<1> QED
  BY <1>1, <1>2, <1>3, FS_EmptySet

FiveParts(S, A, B, C, D, E) ==
  /\ IsFiniteSet(S)
  /\ S = A \union (B \union (C \union (D \union E)))
  /\ A \cap (B \union (C \union (D \union E))) = {}
  /\ B \cap (C \union (D \union E)) = {}
  /\ C \cap (D \union E) = {}
  /\ D \cap E = {}

LEMMA CountFive ==
  ASSUME NEW S, NEW A, NEW B, NEW C, NEW D, NEW E, FiveParts(S, A, B, C, D, E)
  PROVE  /\ Cardinality(A) + Cardinality(B) + Cardinality(C) + Cardinality(D) + Cardinality(E)
              = Cardinality(S)
         /\ Cardinality(A \union E) = Cardinality(A) + Cardinality(E)
<1> DEFINE de == D \union E
           cde == C \union de
           bcde == B \union cde
<1>1. /\ IsFiniteSet(A) /\ IsFiniteSet(bcde)
      /\ Cardinality(A) \in Nat /\ Cardinality(bcde) \in Nat
      /\ Cardinality(A \union bcde) = Cardinality(A) + Cardinality(bcde)
  BY CountTwo DEF FiveParts
<1>2. /\ IsFiniteSet(cde) /\ Cardinality(B) \in Nat /\ Cardinality(cde) \in Nat
      /\ Cardinality(bcde) = Cardinality(B) + Cardinality(cde)
  BY <1>1, CountTwo DEF FiveParts
<1>3. /\ IsFiniteSet(de) /\ Cardinality(C) \in Nat /\ Cardinality(de) \in Nat
      /\ Cardinality(cde) = Cardinality(C) + Cardinality(de)
  BY <1>2, CountTwo DEF FiveParts
<1>4. /\ IsFiniteSet(E) /\ Cardinality(D) \in Nat /\ Cardinality(E) \in Nat
      /\ Cardinality(de) = Cardinality(D) + Cardinality(E)
  BY <1>3, CountTwo DEF FiveParts
<1>5. Cardinality(A \union E) = Cardinality(A) + Cardinality(E)
  <2>1. A \cap E = {}
    BY DEF FiveParts
  <2>2. IsFiniteSet(A \union E)
    BY <1>1, <1>4, FS_Union
  <2> QED
    BY <2>1, <2>2, CountTwo
<1> HIDE DEF bcde, cde, de
<1>6. Cardinality(A) + Cardinality(B) + Cardinality(C) + Cardinality(D) + Cardinality(E)
        = Cardinality(A \union bcde)
  BY <1>1, <1>2, <1>3, <1>4
<1> QED
  BY <1>5, <1>6 DEF bcde, cde, de, FiveParts

LEMMA LevelsOfTrust ==
  \A trust : LevelOf(trust) \in {"low", "medium", "high", "verified"}
BY DEF LevelOf

LEMMA FourLevels == Range(TrustLevels) = {"low", "medium", "high", "verified"}
<1>1. DOMAIN TrustLevels = 1..4
  BY DEF TrustLevels
<1>2. /\ TrustLevels[1] = "low" /\ TrustLevels[2] = "medium"
      /\ TrustLevels[3] = "high" /\ TrustLevels[4] = "verified"
  BY DEF TrustLevels
<1>3. 1..4 = {1, 2, 3, 4}
  OBVIOUS
<1> QED
  BY <1>1, <1>2, <1>3 DEF Range

LEMMA LevelsCounted ==
  ASSUME LogInOrder
  PROVE  LevelsAgree
<1> DEFINE S == DOMAIN log
           at(level) == {k \in S : IF Scored(log[k]) THEN Level(log[k]) = level
                                   ELSE level = "hard_rejected"}
           count == TrustLevelDistribution
<1>1. log \in Seq(Entry) /\ S = 1..Len(log) /\ Len(log) \in Nat
  BY DEF LogInOrder
<1>2. IsFiniteSet(S) /\ Cardinality(S) = Len(log)
  BY <1>1, FS_Interval
<1>3. /\ count["low"] = Cardinality(at("low"))
      /\ count["medium"] = Cardinality(at("medium"))
      /\ count["high"] = Cardinality(at("high"))
      /\ count["verified"] = Cardinality(at("verified"))
      /\ count["hard_rejected"] = Cardinality(at("hard_rejected"))
  BY FourLevels DEF TrustLevelDistribution
<1>4. \A k \in S : /\ Scored(log[k]) => Level(log[k]) = LevelOf(log[k].trust)
                   /\ LevelOf(log[k].trust) \in {"low", "medium", "high", "verified"}
  BY LevelsOfTrust DEF Level
<1> DEFINE A == at("low")
           B == at("medium")
           C == at("high")
           D == at("verified")
           E == at("hard_rejected")
<1>5. FiveParts(S, A, B, C, D, E)
  BY <1>2, <1>4 DEF FiveParts
<1>6. A \union E = {k \in S : ~log[k].accepted}
  <2>1. \A k \in S : log[k].accepted = Accepted(log[k].trust)
    BY DEF LogInOrder
  <2>2. \A k \in S : log[k].accepted <=> Scored(log[k]) /\ LevelOf(log[k].trust) # "low"
    BY <2>1 DEF Accepted, Scored
  <2> QED
    BY <1>4, <2>2
<1> HIDE DEF at, S, A, B, C, D, E, count
<1>7. /\ Cardinality(A) + Cardinality(B) + Cardinality(C) + Cardinality(D) + Cardinality(E)
           = Cardinality(S)
      /\ Cardinality(A \union E) = Cardinality(A) + Cardinality(E)
  BY <1>5, CountFive
<1> QED
  BY <1>2, <1>3, <1>6, <1>7 DEF LevelsAgree, A, B, C, D, E, count, S

LEMMA ThresholdsCounted ==
  ASSUME labels \in Seq(LabelLine)
  PROVE  ThresholdsAgree
<1> DEFINE labelsAt(level) ==
             IF level \in DOMAIN PerTrustLevel THEN PerTrustLevel[level].labels ELSE 0
           E == {k \in Matched : ~Scored(EntryFor(k))}
<1> SUFFICES ASSUME Ready
             PROVE  labelsAt("low") + labelsAt("medium") + labelsAt("high")
                      + labelsAt("verified") + Cardinality(E) = Cardinality(Matched)
  BY DEF ThresholdsAgree
<1>1. IsFiniteSet(Matched)
  <2>1. Matched \in SUBSET DOMAIN labels
    BY DEF Matched
  <2> QED
    BY <2>1, FinitePlaces
<1>2. ASSUME NEW level \in {"low", "medium", "high", "verified"}
      PROVE  labelsAt(level) = Cardinality(AtLevel(level))
  <2>1. PerTrustLevel = [l \in {m \in Range(TrustLevels) : AtLevel(m) # {}} |->
          [labels |-> Cardinality(AtLevel(l)), correct |-> NumCorrect(l)]]
    BY DEF PerTrustLevel
  <2>2. CASE AtLevel(level) = {}
    BY <2>1, <2>2, FS_EmptySet
  <2>3. CASE AtLevel(level) # {}
    BY <2>1, <2>3, FourLevels
  <2> QED
    BY <2>2, <2>3
<1> DEFINE A == AtLevel("low")
           B == AtLevel("medium")
           C == AtLevel("high")
           D == AtLevel("verified")
<1>3. \A k \in Matched :
        Level(EntryFor(k)) = IF Scored(EntryFor(k)) THEN LevelOf(EntryFor(k).trust) ELSE "none"
  BY DEF Level
<1>4. \A k \in Matched :
        LevelOf(EntryFor(k).trust) \in {"low", "medium", "high", "verified"}
  BY LevelsOfTrust
<1>5. FiveParts(Matched, A, B, C, D, E)
  BY <1>1, <1>3, <1>4 DEF AtLevel, FiveParts
<1>6. /\ labelsAt("low") = Cardinality(A) /\ labelsAt("medium") = Cardinality(B)
      /\ labelsAt("high") = Cardinality(C) /\ labelsAt("verified") = Cardinality(D)
  BY <1>2
<1> HIDE DEF labelsAt, A, B, C, D, E
<1>7. /\ Cardinality(A) + Cardinality(B) + Cardinality(C) + Cardinality(D) + Cardinality(E)
           = Cardinality(Matched)
      /\ Cardinality(A \union E) = Cardinality(A) + Cardinality(E)
  BY <1>5, CountFive
<1> QED
  BY <1>6, <1>7

(* The running reputation, the KPIs, the two series and the levels agree   *)
(* about every agent, for any number of agents and decisions, thresholds   *)
(* and window; and the report on the thresholds counts every label.        *)
THEOREM ReportsAlwaysAgree == Spec => []ReportsAgree
<1>1. ReportInv /\ LabelInv => ReportsAgree
  <2> SUFFICES ASSUME ReportInv, LabelInv PROVE ReportsAgree
    OBVIOUS
  <2>1. BoundaryTyped /\ LogInOrder /\ labels \in Seq(LabelLine)
    BY DEF ReportInv, LabelInv, LabelsTyped
  <2>2. \A agent \in Agents : SeriesByTime(agent) = SeriesInOrder(agent)
    BY <2>1, SortedAsLogged
  <2>3. \A agent \in Agents : ReputationAgrees(agent)
    BY ReputationsAgree
  <2> QED
    BY <2>1, <2>2, <2>3, LevelsCounted, ThresholdsCounted DEF ReportsAgree
<1> QED
  BY <1>1, ReportInvariantHolds, LabelInvariantHolds, PTL

=============================================================================
