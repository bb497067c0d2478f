------------------------------ MODULE Oversight ------------------------------
(***************************************************************************)
(* What is read off the trust boundary's records afterwards: analysts'     *)
(* labels (analytics/trust_labels.py, scripts/label_trust_decision.py),    *)
(* the reports over the audit log (reputation.py, kpi.py, drift.py,        *)
(* trust_forecasting.py, threshold_validation.py), and the refit of the    *)
(* behavioural trust engine (trust_boundary/behavioral_trust.py) from the  *)
(* history file.                                                           *)
(*                                                                         *)
(* The boundary is reduced to what these read: an evaluation takes its     *)
(* behavioural features when it scores and adds to history and audit log   *)
(* when it ends, which may be later and after other evaluations.           *)
(*                                                                         *)
(* A trust value is in percent and its level follows from Thresholds.      *)
(* Labels are chained by their hashes; the hash of a chain is the sequence *)
(* of the labels hashed into it, as SHA-256 is taken to be injective.      *)
(***************************************************************************)
EXTENDS Integers, Sequences, FiniteSets, SequencesExt

CONSTANTS
  Agents,           (* agent_id; "unknown" stands for a missing one         *)
  Evaluators,       (* evaluations that may be under way at once            *)
  Analysts,         (* runs of label_trust_decision.py                      *)
  Plans,            (* per plan: how many actions, how many high-risk       *)
  TrustValues,      (* what T may be, in percent                            *)
  Thresholds,       (* trust_level_thresholds, in percent                   *)
  Labels,           (* LabelValue                                           *)
  Hour,             (* the behavioural window, in ticks                     *)
  RecentWindow,     (* _RECENT_WINDOW                                       *)
  MinSamples,       (* MIN_SAMPLES of the threshold report                  *)
  OldEntries,       (* entries a log may already have                       *)
  Limits            (* bounds, per behaviour: decisions, time, labels       *)

ASSUME NumbersAssumption ==
  /\ Hour \in Nat /\ RecentWindow \in Nat \ {0} /\ MinSamples \in Nat
  /\ Limits \subseteq [decisions : Nat, time : Nat, labels : Nat]
  /\ TrustValues \subseteq 0..100
  /\ Thresholds \in [low : 0..100, medium : 0..100, high : 0..100]
  /\ Plans \subseteq [actions : Nat, highRisk : Nat]
ASSUME AgentsAssumption == "unknown" \notin Agents /\ IsFiniteSet(Evaluators)

VARIABLES
  now,          (* the clock                                                *)
  evaluation,   (* per evaluator: the plan scored and not yet recorded      *)
  memory,       (* EntityHistory: trust_decision events, oldest first       *)
  file,         (* the history file: those of them whose write succeeded    *)
  log,          (* the audit log; an entry's sequence is its place          *)
  read,         (* entries the reputation engine was updated with           *)
  reputation,   (* CrossAgentReputationEngine._agents                       *)
  labels,       (* the lines of the label store                             *)
  torn,         (* the label store ends in a line that was cut short        *)
  analyst,      (* per analyst: where label_trust_decision.py is            *)
  recorded,     (* history: the labels whose append() returned              *)
  meddled,      (* history: "edited" and "cut" if the label store was,      *)
                (* "overlapped" if two analysts had it open at once         *)
  limit         (* the bounds of this behaviour                             *)

boundaryVars == <<now, evaluation, memory, file, log>>
reportVars   == <<read, reputation>>
labelVars    == <<labels, torn, analyst, recorded, meddled>>
vars == <<boundaryVars, reportVars, labelVars, limit>>

-----------------------------------------------------------------------------
(* Behavioural features, live and replayed.                                *)

Nobody   == "unknown"
Idle     == [agent |-> "none"]
Unscored == [recent |-> -1, violations |-> -1, plan |-> Idle]

(* _feature_vector() of a plan, from the events at some places.            *)
Features(events, places, plan) ==
  [plan       |-> plan,
   recent     |-> Cardinality(places),
   violations |-> Cardinality({k \in places : events[k].violation})]

(* The events of an agent since a time.                                    *)
Since(events, agent, time) ==
  {k \in DOMAIN events : events[k].agent = agent /\ events[k].time >= time}

(* EntityHistory.recent() within the hour.                                 *)
Recent(agent) == Since(memory, agent, now - Hour)

(* Mutant of PriorTo: the event itself is among those before it.           *)
PriorToInclusive(events, k) ==
  {j \in 1..k : j \in Since(events, events[k].agent, events[k].time - Hour)}

(* refit_from_history(): the entity's events before this one, within the   *)
(* hour.  Events are in the order of their timestamps already.             *)
PriorTo(events, k) ==
  {j \in 1..k - 1 : j \in Since(events, events[k].agent, events[k].time - Hour)}

Replayed(events, k) == Features(events, PriorTo(events, k), events[k].plan)

-----------------------------------------------------------------------------
(* The reports over the audit log.                                         *)

TrustLevels == <<"low", "medium", "high", "verified">>

LevelOf(trust) ==
  IF trust < Thresholds.low THEN "low"
  ELSE IF trust < Thresholds.medium THEN "medium"
  ELSE IF trust < Thresholds.high THEN "high"
  ELSE "verified"

NoTrust == -1
Scored(e) == e.trust # NoTrust
Level(e)  == IF Scored(e) THEN LevelOf(e.trust) ELSE "none"

(* autonomy_mode is read_only at the low level only.                       *)
Accepted(trust) == trust # NoTrust /\ LevelOf(trust) # "low"

(* CrossAgentReputationEngine.                                             *)
Reputation   == [interactions : Nat, violations : Nat, recent : Seq(TrustValues)]
NoReputation == [interactions |-> 0, violations |-> 0, recent |-> << >>]

(* Mutant of Pushed: a deque without a length.                             *)
PushedUnbounded(deque, value) == Append(deque, value)

(* deque(maxlen=recent_window).append()                                    *)
Pushed(deque, value) ==
  IF Len(deque) < RecentWindow THEN Append(deque, value) ELSE Append(Tail(deque), value)

(* Mutant of Updated: only a plan that was scored can be a violation.      *)
UpdatedIfScored(agents, e) ==
  IF e.agent = Nobody THEN agents
  ELSE [agents EXCEPT ![e.agent] =
          [interactions |-> @.interactions + 1,
           violations   |-> IF Scored(e) /\ ~e.accepted THEN @.violations + 1 ELSE @.violations,
           recent       |-> IF Scored(e) THEN Pushed(@.recent, e.trust) ELSE @.recent]]

Updated(agents, e) ==
  IF e.agent = Nobody THEN agents
  ELSE [agents EXCEPT ![e.agent] =
          [interactions |-> @.interactions + 1,
           violations   |-> IF e.accepted THEN @.violations ELSE @.violations + 1,
           recent       |-> IF Scored(e) THEN Pushed(@.recent, e.trust) ELSE @.recent]]

(* kpi.py.  Entries are counted by their places in the log.                *)
EntriesOf(agent)   == {k \in DOMAIN log : log[k].agent = agent}
ScoredOf(agent)    == {k \in EntriesOf(agent) : Scored(log[k])}

AgentSummary(agent) ==
  [interactions |-> Cardinality(EntriesOf(agent)),
   scored       |-> Cardinality(ScoredOf(agent)),
   accepted     |-> Cardinality({k \in EntriesOf(agent) : log[k].accepted})]

TrustLevelDistribution ==
  [level \in Range(TrustLevels) \union {"hard_rejected"} |->
     Cardinality({k \in DOMAIN log :
       IF Scored(log[k]) THEN Level(log[k]) = level ELSE level = "hard_rejected"})]

(* The series of drift.audit_log_drift(): an agent's trust values as they  *)
(* come in the log.                                                        *)
PlaceInOrder(K, i) == CHOOSE k \in K : Cardinality({j \in K : j <= k}) = i

SeriesInOrder(agent) ==
  [i \in 1..Cardinality(ScoredOf(agent)) |-> log[PlaceInOrder(ScoredOf(agent), i)].trust]

(* trust_forecasting._score_series_by_agent(), which sorts by timestamp,   *)
(* entries of the same time as they come.                                  *)
SortsNoLater(j, k) ==
  log[j].time < log[k].time \/ (log[j].time = log[k].time /\ j <= k)

PlaceByTime(K, i) == CHOOSE k \in K : Cardinality({j \in K : SortsNoLater(j, k)}) = i

SeriesByTime(agent) ==
  [i \in 1..Cardinality(ScoredOf(agent)) |-> log[PlaceByTime(ScoredOf(agent), i)].trust]

-----------------------------------------------------------------------------
(* The label store.                                                        *)

Label   == [sequence : 1..limit.decisions + 1, label : Labels]
Genesis == << >>

HashAfter(hash, label) == Append(hash, label)

(* A line of the store; written is the label it was written with.          *)
Line(label, previous) ==
  [label |-> label, entry |-> HashAfter(previous, label), previous |-> previous,
   written |-> label]

LastHash == IF labels = << >> THEN Genesis ELSE labels[Len(labels)].entry

PreviousHash(k) == IF k = 1 THEN Genesis ELSE labels[k - 1].entry

(* Mutant of Linked: the chain is followed by the stored hashes only.      *)
LinkedByStoredHash(k) == labels[k].previous = PreviousHash(k)

Linked(k) ==
  /\ labels[k].entry = HashAfter(PreviousHash(k), labels[k].label)
  /\ labels[k].previous = PreviousHash(k)

(* verify_label_chain() returns ok; it raises on a line it cannot read.    *)
Verified == ~torn /\ \A k \in DOMAIN labels : Linked(k)

(* threshold_validation.compute_report(): the labels whose decision is in  *)
(* the log, by trust level, and whether there are enough decisions.        *)
Matched == {k \in DOMAIN labels : labels[k].label.sequence \in DOMAIN log}

EntryFor(k) == log[labels[k].label.sequence]

AtLevel(level) == {k \in Matched : Level(EntryFor(k)) = level}

LabeledDecisions == {labels[k].label.sequence : k \in Matched}
Ready == Cardinality(LabeledDecisions) >= MinSamples

NumCorrect(level) == Cardinality({k \in AtLevel(level) : labels[k].label.label = "correct"})

PerTrustLevel ==
  IF Ready
  THEN [level \in {l \in Range(TrustLevels) : AtLevel(l) # {}} |->
          [labels |-> Cardinality(AtLevel(level)), correct |-> NumCorrect(level)]]
  ELSE << >>

ProductionReviews == {k \in Matched : EntryFor(k).executor = "production"}

-----------------------------------------------------------------------------
Evaluation ==
  [agent : Agents, trust : TrustValues, live : [plan : Plans, recent : Nat, violations : Nat],
   undisturbed : BOOLEAN]

Event ==
  [agent : Agents, time : 0..limit.time, violation : BOOLEAN, saved : BOOLEAN, plan : Plans,
   live : [plan : Plans, recent : Nat, violations : Nat] \union {Unscored},
   undisturbed : BOOLEAN]

Entry ==
  [agent : Agents \union {Nobody}, time : 0..limit.time, trust : TrustValues \union {NoTrust},
   accepted : BOOLEAN, executor : {"none", "production"}]

(* A log may begin with an entry of an older version.                      *)
ASSUME OldEntriesAssumption ==
  \A old \in OldEntries :
    /\ Len(old) <= 1
    /\ old \in Seq([agent : Agents \union {Nobody}, time : {0},
                    trust : TrustValues \union {NoTrust}, accepted : BOOLEAN,
                    executor : {"none", "production"}])
    /\ \A k \in DOMAIN old : old[k].accepted = Accepted(old[k].trust)

TypeOK ==
  /\ now \in 0..limit.time
  /\ evaluation \in [Evaluators -> Evaluation \union {Idle}]
  /\ memory \in Seq(Event) /\ Len(memory) <= limit.decisions
  /\ file \in Seq(Event) /\ Len(file) <= Len(memory)
  /\ log \in Seq(Entry) /\ Len(log) <= limit.decisions + 1
  /\ read \in 0..Len(log)
  /\ reputation \in [Agents -> Reputation]
  /\ \A agent \in Agents : Len(reputation[agent].recent) <= RecentWindow
  /\ \A k \in DOMAIN labels : labels[k].label \in Label /\ labels[k].written \in Label
  /\ torn \in BOOLEAN
  /\ \A a \in Analysts : analyst[a].at \in {"start", "shown", "open", "end"}
  /\ recorded \in SUBSET Label
  /\ meddled \subseteq {"edited", "cut", "overlapped"}
  /\ limit \in Limits

NotStarted == [at |-> "start"]

Init ==
  /\ now = 0
  /\ evaluation = [v \in Evaluators |-> Idle]
  /\ memory = << >>
  /\ file = << >>
  /\ log \in OldEntries
  /\ limit \in Limits
  /\ read = 0
  /\ reputation = [agent \in Agents |-> NoReputation]
  /\ labels = << >>
  /\ torn = FALSE
  /\ analyst = [a \in Analysts |-> NotStarted]
  /\ recorded = {}
  /\ meddled = {}

-----------------------------------------------------------------------------
(* The boundary.                                                           *)

Busy == {v \in Evaluators : evaluation[v] # Idle}

(* Time passes: no evaluation under way is as it was scored any more.      *)
Tick ==
  /\ now < limit.time
  /\ now' = now + 1
  /\ evaluation' = [v \in Evaluators |->
                      IF v \in Busy THEN [evaluation[v] EXCEPT !.undisturbed = FALSE] ELSE Idle]
  /\ UNCHANGED <<memory, file, log, reportVars, labelVars, limit>>

(* BehavioralTrustEngine.score(): the features of a plan, as of now.  They *)
(* are not those of the file if an event of the agent failed to reach it.  *)
Score(v, agent, plan, trust) ==
  /\ evaluation[v] = Idle
  /\ Len(memory) + Cardinality(Busy) < limit.decisions
  /\ evaluation' = [evaluation EXCEPT ![v] =
                      [agent |-> agent, trust |-> trust,
                       undisturbed |-> \A k \in DOMAIN memory :
                         memory[k].agent = agent => memory[k].saved,
                       live |-> Features(memory, Recent(agent), plan)]]
  /\ UNCHANGED <<now, memory, file, log, reportVars, labelVars, limit>>

(* _finalize(): the event goes into memory, into the history file if the   *)
(* write succeeds, and then an entry goes into the audit log.  A write     *)
(* that fails leaves nothing: after one cut short nothing reads the file,  *)
(* which is in module TrustBoundary.                                       *)
Record(agent, plan, trust, live, undisturbed, saved) ==
  LET event == [agent |-> agent, time |-> now, violation |-> ~Accepted(trust),
                saved |-> saved, plan |-> plan, live |-> live, undisturbed |-> undisturbed]
      entry == [agent |-> agent, time |-> now, trust |-> trust, accepted |-> Accepted(trust),
                executor |-> IF trust = NoTrust THEN "none" ELSE "production"]
  IN  /\ memory' = Append(memory, event)
      /\ IF saved THEN file' = Append(file, event) /\ log' \in {log, Append(log, entry)}
         ELSE UNCHANGED <<file, log>>

(* A scored evaluation ends; others of its agent are disturbed by it.      *)
EndScored(v, saved) ==
  /\ v \in Busy
  /\ LET e == evaluation[v]
     IN  /\ Record(e.agent, e.live.plan, e.trust, e.live, e.undisturbed, saved)
         /\ evaluation' = [w \in Evaluators |->
              IF w = v THEN Idle
              ELSE IF w \in Busy /\ evaluation[w].agent = e.agent
                   THEN [evaluation[w] EXCEPT !.undisturbed = FALSE] ELSE evaluation[w]]
  /\ UNCHANGED <<now, reportVars, labelVars, limit>>

(* A plan is rejected before anything is scored.                           *)
EndRejected(agent, plan, saved) ==
  /\ Len(memory) + Cardinality(Busy) < limit.decisions
  /\ Record(agent, plan, NoTrust, Unscored, FALSE, saved)
  /\ evaluation' = [w \in Evaluators |->
       IF w \in Busy /\ evaluation[w].agent = agent
       THEN [evaluation[w] EXCEPT !.undisturbed = FALSE] ELSE evaluation[w]]
  /\ UNCHANGED <<now, reportVars, labelVars, limit>>

(* The process starts again, from the history file.                        *)
Restart ==
  /\ memory # file \/ Busy # {}
  /\ memory' = file
  /\ evaluation' = [v \in Evaluators |-> Idle]
  /\ UNCHANGED <<now, file, log, reportVars, labelVars, limit>>

-----------------------------------------------------------------------------
(* The reputation engine takes in a slice of the log.                      *)
UpdatedUpTo(n) ==
  LET after[k \in read..n] == IF k = read THEN reputation ELSE Updated(after[k - 1], log[k])
  IN  after[n]

UpdateReputation ==
  /\ read < Len(log)
  /\ \E n \in read + 1..Len(log) : read' = n /\ reputation' = UpdatedUpTo(n)
  /\ UNCHANGED <<boundaryVars, labelVars, limit>>

-----------------------------------------------------------------------------
(* label_trust_decision.py.                                                *)

(* The decision is looked up in the log and shown.                         *)
Show(a, label) ==
  /\ analyst[a] = NotStarted
  /\ Len(labels) < limit.labels
  /\ label.sequence \in DOMAIN log
  /\ analyst' = [analyst EXCEPT ![a] = [at |-> "shown", label |-> label]]
  /\ UNCHANGED <<boundaryVars, reportVars, limit, labels, torn, recorded, meddled>>

(* Mutant of OpenStore: the chain is begun anew.                           *)
OpenStoreAtGenesis(a) ==
  /\ analyst[a].at = "shown" /\ ~torn
  /\ analyst' = [analyst EXCEPT ![a] = [at |-> "open", label |-> @.label, lastHash |-> Genesis]]
  /\ meddled' = meddled
       \union (IF \E b \in Analysts \ {a} : analyst[b].at = "open" THEN {"overlapped"} ELSE {})
  /\ UNCHANGED <<boundaryVars, reportVars, limit, labels, torn, recorded>>

(* AnalystLabelStore(): last_hash is that of the last line, unverified.    *)
OpenStore(a) ==
  /\ analyst[a].at = "shown" /\ ~torn
  /\ analyst' = [analyst EXCEPT ![a] = [at |-> "open", label |-> @.label, lastHash |-> LastHash]]
  /\ meddled' = meddled
       \union (IF \E b \in Analysts \ {a} : analyst[b].at = "open" THEN {"overlapped"} ELSE {})
  /\ UNCHANGED <<boundaryVars, reportVars, limit, labels, torn, recorded>>

(* json.loads() raises on a line that was cut short.                       *)
OpenRaises(a) ==
  /\ analyst[a].at = "shown" /\ torn
  /\ analyst' = [analyst EXCEPT ![a] = [at |-> "end"]]
  /\ UNCHANGED <<boundaryVars, reportVars, limit, labels, torn, recorded, meddled>>

(* AnalystLabelStore.append().  After a line cut short the text runs into  *)
(* that line, which stays unreadable.                                      *)
AppendLabel(a) ==
  /\ analyst[a].at = "open"
  /\ Len(labels) < limit.labels
  /\ labels' = IF torn THEN labels
               ELSE Append(labels, Line(analyst[a].label, analyst[a].lastHash))
  /\ recorded' = recorded \union {analyst[a].label}
  /\ analyst' = [analyst EXCEPT ![a] = [at |-> "end"]]
  /\ UNCHANGED <<boundaryVars, reportVars, limit, torn, meddled>>

(* The write fails: nothing is in the file, or part of the line.           *)
AppendRaises(a) ==
  /\ analyst[a].at = "open"
  /\ torn' \in {torn, TRUE}
  /\ analyst' = [analyst EXCEPT ![a] = [at |-> "end"]]
  /\ UNCHANGED <<boundaryVars, reportVars, limit, labels, recorded, meddled>>

(* Another run of the script.                                              *)
Again(a) ==
  /\ analyst[a].at = "end"
  /\ analyst' = [analyst EXCEPT ![a] = NotStarted]
  /\ UNCHANGED <<boundaryVars, reportVars, limit, labels, torn, recorded, meddled>>

(* Someone edits a label in the file, or cuts lines off its end.  Bound:   *)
(* once each.                                                              *)
EditLabel(k, label) ==
  /\ labels[k].label # label /\ "edited" \notin meddled
  /\ labels' = [labels EXCEPT ![k].label = label]
  /\ meddled' = meddled \union {"edited"}
  /\ UNCHANGED <<boundaryVars, reportVars, limit, torn, analyst, recorded>>

CutLabels(n) ==
  /\ "cut" \notin meddled
  /\ labels' = SubSeq(labels, 1, n)
  /\ meddled' = meddled \union {"cut"}
  /\ UNCHANGED <<boundaryVars, reportVars, limit, torn, analyst, recorded>>

Boundary ==
  \/ Tick
  \/ \E v \in Evaluators, agent \in Agents, plan \in Plans, trust \in TrustValues :
       Score(v, agent, plan, trust)
  \/ \E v \in Evaluators, saved \in BOOLEAN : EndScored(v, saved)
  \/ \E agent \in Agents, plan \in Plans, saved \in BOOLEAN : EndRejected(agent, plan, saved)
  \/ Restart

Labelling ==
  \/ \E a \in Analysts :
       \/ \E label \in Label : Show(a, label)
       \/ OpenStore(a)
       \/ OpenRaises(a)
       \/ AppendLabel(a)
       \/ AppendRaises(a)
       \/ Again(a)
  \/ \E k \in DOMAIN labels, label \in Label : EditLabel(k, label)
  \/ \E n \in 0..Len(labels) - 1 : CutLabels(n)

Next ==
  \/ Boundary
  \/ UpdateReputation
  \/ Labelling

Spec == Init /\ [][Next]_vars

-----------------------------------------------------------------------------
(* Properties.                                                             *)

(* A label store that verifies holds every line as it was written, though  *)
(* no store verifies it when it opens it and later ones extend it; and     *)
(* every label whose append() returned is in it, unless lines were cut off *)
(* its end, which the chain cannot show.                                   *)
MeddlingShows ==
  Verified =>
    /\ \A k \in DOMAIN labels : labels[k].label = labels[k].written
    /\ "cut" \notin meddled =>
         \A label \in recorded : \E k \in DOMAIN labels : labels[k].label = label

(* A label store nobody edited or cut and no two analysts had open at once *)
(* verifies as long as it can be read, whichever writes failed.            *)
NoFalseAlarm == meddled = {} /\ ~torn => Verified

(* What refit_from_history() takes for the features of a plan is what the  *)
(* engine scored it with, for a plan whose evaluation saw neither the      *)
(* clock move nor another of its agent end, while no event of the agent    *)
(* was missing from the history file.                                      *)
RefitReplaysLive ==
  \A k \in DOMAIN file : file[k].undisturbed => Replayed(file, k) = file[k].live

(* The reports agree about every agent, though each reads the log its own  *)
(* way: the running reputation, entry by entry, with the KPIs and, in its  *)
(* window, with the end of the series that is forecast and watched for     *)
(* drift, sorted by time or not; and the levels with all of them.  The     *)
(* report on the thresholds counts every label of a scored decision.       *)
ReputationAgrees(agent) ==
  LET series == SeriesInOrder(agent)
      recent == reputation[agent].recent
  IN  read = Len(log) =>
        /\ reputation[agent].interactions = AgentSummary(agent).interactions
        /\ reputation[agent].violations
             = AgentSummary(agent).interactions - AgentSummary(agent).accepted
        /\ IF Len(series) <= RecentWindow THEN Len(recent) = Len(series)
           ELSE Len(recent) = RecentWindow
        /\ \A i \in DOMAIN recent : recent[i] = series[Len(series) - Len(recent) + i]

LevelsAgree ==
  LET count == TrustLevelDistribution
  IN  /\ count["low"] + count["medium"] + count["high"] + count["verified"]
           + count["hard_rejected"] = Len(log)
      /\ count["low"] + count["hard_rejected"]
           = Cardinality({k \in DOMAIN log : ~log[k].accepted})

ThresholdsAgree ==
  LET labelsAt(level) ==
        IF level \in DOMAIN PerTrustLevel THEN PerTrustLevel[level].labels ELSE 0
  IN  Ready => labelsAt("low") + labelsAt("medium") + labelsAt("high") + labelsAt("verified")
                 + Cardinality({k \in Matched : ~Scored(EntryFor(k))}) = Cardinality(Matched)

ReportsAgree ==
  /\ \A agent \in Agents : SeriesByTime(agent) = SeriesInOrder(agent)
  /\ \A agent \in Agents : ReputationAgrees(agent)
  /\ LevelsAgree
  /\ ThresholdsAgree

-----------------------------------------------------------------------------
(* The inductive invariant behind MeddlingShows and NoFalseAlarm.          *)

Hash == Seq(Label)

LabelLine == [label : Label, entry : Hash, previous : Hash, written : Label]

LabelsTyped ==
  /\ labels \in Seq(LabelLine)
  /\ analyst \in [Analysts -> {NotStarted, [at |-> "end"]}
                               \union [at : {"shown"}, label : Label]
                               \union [at : {"open"}, label : Label, lastHash : Hash]]

(* Whatever became of the label of a line, its hash is of the label as     *)
(* written, and no line is lost while lines are whole and none is cut off. *)
LinesTrue ==
  /\ \A k \in DOMAIN labels :
       labels[k].entry = HashAfter(labels[k].previous, labels[k].written)
  /\ ~torn /\ "cut" \notin meddled =>
       \A label \in recorded : \E k \in DOMAIN labels : labels[k].written = label

(* With a store nobody meddled with, one analyst at a time holds its end.  *)
StoreUnmeddled ==
  meddled = {} =>
    /\ \A k \in DOMAIN labels : Linked(k)
    /\ \A a \in Analysts : analyst[a].at = "open" =>
         /\ analyst[a].lastHash = LastHash
         /\ \A b \in Analysts \ {a} : analyst[b].at # "open"

LabelInv == LabelsTyped /\ LinesTrue /\ StoreUnmeddled

(* The inductive invariant behind RefitReplaysLive.  There is room for     *)
(* what is under way.                                                      *)
BoundaryTyped ==
  /\ limit \in Limits
  /\ now \in 0..limit.time
  /\ evaluation \in [Evaluators -> Evaluation \union {Idle}]
  /\ memory \in Seq(Event) /\ file \in Seq(Event)
  /\ Len(file) <= Len(memory)
  /\ Len(memory) + Cardinality(Busy) <= limit.decisions

(* After restarts the places in memory are other ones than in the file,    *)
(* but since any time there are as many events of an agent, and of its     *)
(* violations, that were saved.                                            *)
SavedSince(events, agent, time) == {k \in Since(events, agent, time) : events[k].saved}

SavedViolations(events, agent, time) ==
  {k \in SavedSince(events, agent, time) : events[k].violation}

SavedAreFiled ==
  /\ \A k \in DOMAIN file : file[k].saved
  /\ \A agent \in Agents, time \in (0 - Hour)..limit.time :
       /\ Cardinality(SavedSince(memory, agent, time))
            = Cardinality(SavedSince(file, agent, time))
       /\ Cardinality(SavedViolations(memory, agent, time))
            = Cardinality(SavedViolations(file, agent, time))

(* An undisturbed evaluation scored its plan as it would be scored now.    *)
UndisturbedAsNow ==
  \A v \in Busy :
    LET e == evaluation[v]
    IN  e.undisturbed =>
          /\ \A k \in DOMAIN memory : memory[k].agent = e.agent => memory[k].saved
          /\ e.live = Features(memory, Recent(e.agent), e.live.plan)

RefitInv == BoundaryTyped /\ SavedAreFiled /\ UndisturbedAsNow /\ RefitReplaysLive

(* The inductive invariant behind ReportsAgree: no entry is earlier than    *)
(* one before it.                                                          *)
LogInOrder ==
  /\ log \in Seq(Entry) /\ Len(log) <= Len(file) + 1
  /\ \A k \in DOMAIN log :
       /\ log[k].accepted = Accepted(log[k].trust)
       /\ log[k].time <= now
       /\ \A j \in 1..k : log[j].time <= log[k].time

(* A reputation tells of an agent's first n entries: how many, how many    *)
(* were not accepted, and the trust of the last scored ones.               *)
OwnUpTo(entries, n, agent)      == {k \in 1..n : entries[k].agent = agent}
RefusedUpTo(entries, n, agent)  == {k \in OwnUpTo(entries, n, agent) : ~entries[k].accepted}
ScoredUpTo(entries, n, agent)   == {k \in OwnUpTo(entries, n, agent) : Scored(entries[k])}
Later(places, k)                == Cardinality({j \in places : j > k})

WindowOver(recent, entries, places) ==
  /\ Len(recent) = IF Cardinality(places) <= RecentWindow
                   THEN Cardinality(places) ELSE RecentWindow
  /\ \A k \in places : Later(places, k) < Len(recent) =>
       recent[Len(recent) - Later(places, k)] = entries[k].trust

TellsOf(r, entries, n, agent) ==
  /\ r.interactions = Cardinality(OwnUpTo(entries, n, agent))
  /\ r.violations = Cardinality(RefusedUpTo(entries, n, agent))
  /\ WindowOver(r.recent, entries, ScoredUpTo(entries, n, agent))

Tells(agents, entries, n) ==
  \A agent \in Agents : TellsOf(agents[agent], entries, n, agent)

ReputationTells ==
  /\ read \in 0..Len(log)
  /\ reputation \in [Agents -> Reputation]
  /\ Tells(reputation, log, read)

ReportInv == BoundaryTyped /\ LogInOrder /\ ReputationTells

=============================================================================
