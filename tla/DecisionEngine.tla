--------------------------- MODULE DecisionEngine ---------------------------
(***************************************************************************)
(* From an alert to a plan: AgenticDecisionEngine (agentic/                *)
(* decision_engine.py), LLMDecisionEngine (agentic/llm_engine.py) and the  *)
(* reason, validate, retry loop it runs (agentic/graph.py).                *)
(*                                                                         *)
(* The engine that factory.py builds has zero, one or two chat models in   *)
(* front of the template engine.  A model answers with anything or fails.  *)
(* decide() is split where it calls a model, the retrieval or the history, *)
(* and time passes in between.                                             *)
(*                                                                         *)
(* A plan is the set of playbooks it invokes.  A rationale is sound or     *)
(* blank; confidence, targets and texts are left out.                      *)
(***************************************************************************)
EXTENDS Integers, Sequences, FiniteSets

CONSTANTS
  Sources,        (* values of alert.source_id, none given being one        *)
  Playbooks,      (* capabilities, allowed for an alert or not              *)
  Allowed,        (* the sets of playbooks that contexts allow              *)
  Proposals,      (* what a chat model proposes                             *)
  ModelLists,     (* the lists of chat models considered                    *)
  MaxAttempts,    (* max_attempts                                           *)
  Window,         (* repeat_window_minutes                                  *)
  Faults,         (* what may break, see FaultKinds                         *)
  MaxAlerts,      (* bound: alerts                                          *)
  MaxTime         (* bound: the clock                                       *)

FaultKinds == {"retrieval", "history_write", "graph"}
Models     == {"primary", "fallback_model"}
NoProposal == [plan |-> {}, rationale |-> "none"]

ASSUME ProposalsAssumption ==
  /\ Proposals \subseteq [plan : SUBSET Playbooks, rationale : {"sound", "blank"}]
  /\ Allowed \subseteq SUBSET Playbooks
ASSUME ModelListsAssumption ==
  ModelLists \subseteq {<< >>, <<"primary">>, <<"primary", "fallback_model">>}
ASSUME NumbersAssumption ==
  MaxAttempts \in Nat /\ Window \in Nat /\ MaxAlerts \in Nat /\ MaxTime \in Nat
ASSUME FaultsAssumption == Faults \subseteq FaultKinds

VARIABLES
  clock,          (* the time                                               *)
  models,         (* the chat models of this engine, in the order of use    *)
  incidents,      (* the incidents in the EntityHistory                     *)
  alerts,         (* the alerts decide() was called with                    *)
  answers,        (* what it returned or raised                             *)
  pc,             (* the step of decide() that comes next                   *)
  cur,            (* its local variables                                    *)
  brokenFor,      (* history: the alerts during which a write or the        *)
                  (* retrieval broke                                        *)
  tried           (* history: per alert the models asked, and whether a     *)
                  (* proposal of theirs was found valid                     *)

vars == <<clock, models, incidents, alerts, answers, pc, cur, brokenFor, tried>>

-----------------------------------------------------------------------------
Alerts == [source : Sources, allowed : Allowed]
Incident == [source : Sources, at : Nat, alert : Nat, id : Nat]
Engines == Models \union {"template"}

Answer == [raised : BOOLEAN, plan : SUBSET Playbooks, engine : Engines,
           repeat : BOOLEAN, recalled : Nat, incident : Nat]

Steps == {"idle", "recall", "reason", "validate", "record",
          "template_recall", "template_record"}

Current == Len(alerts)
Alert   == alerts[Current]

NoDecision == [model |-> 0, attempt |-> 0, proposed |-> NoProposal,
               repeat |-> FALSE, recalled |-> 0]

(* Mutant of MayRetry: one attempt too many.                               *)
MayRetryOnceMore == cur.attempt <= MaxAttempts

(* _route(), for a state without a plan.                                   *)
MayRetry == cur.attempt < MaxAttempts

TypeOK ==
  /\ clock \in Nat
  /\ models \in ModelLists
  /\ incidents \in Seq(Incident)
  /\ alerts \in Seq(Alerts)
  /\ answers \in Seq(Answer)
  /\ pc \in Steps
  /\ pc # "idle" => Current > 0
  /\ cur \in [model : 0..2, attempt : 0..MaxAttempts + 1,
              proposed : Proposals \union {NoProposal},
              repeat : BOOLEAN, recalled : Nat]
  /\ cur.attempt <= 1 \/ cur.attempt <= MaxAttempts
  /\ pc \in {"idle", "recall"} => cur = NoDecision
  /\ pc = "recall" => models # << >>
  /\ pc = "reason" => cur.attempt = 0 \/ MayRetry
  /\ pc \in {"reason", "validate", "record"} => cur.model \in DOMAIN models
  /\ brokenFor \subseteq DOMAIN alerts
  /\ tried \subseteq [alert : DOMAIN alerts, model : Models, valid : BOOLEAN]

Init ==
  /\ clock = 0
  /\ models \in ModelLists
  /\ incidents = << >>
  /\ alerts = << >>
  /\ answers = << >>
  /\ pc = "idle"
  /\ cur = NoDecision
  /\ brokenFor = {}
  /\ tried = {}

-----------------------------------------------------------------------------
Tick ==
  /\ clock < MaxTime
  /\ clock' = clock + 1
  /\ UNCHANGED <<models, incidents, alerts, answers, pc, cur, brokenFor, tried>>

Decide(alert) ==
  /\ pc = "idle"
  /\ Current < MaxAlerts
  /\ alerts' = Append(alerts, alert)
  /\ pc' = IF models = << >> THEN "template_recall" ELSE "recall"
  /\ UNCHANGED <<clock, models, incidents, answers, cur, brokenFor, tried>>

(* Mutant of Repeated: the incidents of every source count.                *)
RepeatedAnywhere == \E i \in DOMAIN incidents : clock - incidents[i].at <= Window

(* history.recent(source, kind="incident", within=repeat_window).          *)
Repeated ==
  \E i \in DOMAIN incidents : /\ incidents[i].source = Alert.source
                              /\ clock - incidents[i].at <= Window

(* history.append(): the incident is in memory before it is written.       *)
NewIncident == [source |-> Alert.source, at |-> clock, alert |-> Current,
                id |-> Len(incidents) + 1]

Record == incidents' = Append(incidents, NewIncident)

(* For the history variables.                                              *)
Breaks == brokenFor' = brokenFor \union {Current}

Tries(valid) ==
  tried' = tried \union
    {[alert |-> Current, model |-> models[cur.model], valid |-> valid]}

Leave(answer) ==
  /\ answers' = Append(answers, answer)
  /\ pc' = "idle"
  /\ cur' = NoDecision

Return(plan, engine) ==
  Leave([raised |-> FALSE, plan |-> plan, engine |-> engine,
         repeat |-> cur.repeat, recalled |-> cur.recalled,
         incident |-> NewIncident.id])

Raise ==
  /\ Leave([raised |-> TRUE, plan |-> {}, engine |-> "template",
            repeat |-> FALSE, recalled |-> 0, incident |-> 0])
  /\ Breaks

-----------------------------------------------------------------------------
(* LLMDecisionEngine.decide(), up to the graph.  An exception of the       *)
(* retrieval leaves decide(): it is raised before the try.                 *)

Start(model) == cur' = [cur EXCEPT !.model = model, !.attempt = 0,
                                   !.proposed = NoProposal]

Recall ==
  /\ pc = "recall"
  /\ pc' = "reason"
  /\ cur' = [NoDecision EXCEPT !.repeat = Repeated, !.recalled = clock, !.model = 1]
  /\ UNCHANGED <<clock, models, incidents, alerts, answers, brokenFor, tried>>

RetrievalRaises ==
  /\ pc = "recall"
  /\ "retrieval" \in Faults
  /\ Raise
  /\ UNCHANGED <<clock, models, incidents, alerts, tried>>

(* The graph.  A failing call counts as an attempt without a proposal.     *)
Reason(proposal) ==
  /\ pc = "reason"
  /\ cur' = [cur EXCEPT !.attempt = @ + 1, !.proposed = proposal]
  /\ Tries(FALSE)
  /\ pc' = "validate"
  /\ UNCHANGED <<clock, models, incidents, alerts, answers, brokenFor>>

(* Mutant of Valid: only one of the playbooks has to be allowed.           *)
ValidOverlap(proposal) ==
  /\ proposal # NoProposal
  /\ proposal.plan \intersect Alert.allowed # {}
  /\ proposal.rationale = "sound"

Valid(proposal) ==
  /\ proposal # NoProposal
  /\ proposal.plan \subseteq Alert.allowed
  /\ proposal.plan # {}
  /\ proposal.rationale = "sound"

(* Mutant of FailOver: the second model is never asked.                    *)
FailOverToTemplate ==
  /\ pc' = "template_recall"
  /\ UNCHANGED cur

(* The graph gave no plan, or an exception left it: the next model starts  *)
(* from the same first prompt, and after the last one the template.        *)
FailOver ==
  IF cur.model < Len(models)
  THEN pc' = "reason" /\ Start(cur.model + 1)
  ELSE pc' = "template_recall" /\ UNCHANGED cur

Accept ==
  /\ pc = "validate"
  /\ Valid(cur.proposed)
  /\ Tries(TRUE)
  /\ pc' = "record"
  /\ UNCHANGED <<clock, models, incidents, alerts, answers, cur, brokenFor>>

Reject ==
  /\ pc = "validate"
  /\ ~Valid(cur.proposed)
  /\ IF MayRetry THEN pc' = "reason" /\ UNCHANGED cur ELSE FailOver
  /\ UNCHANGED <<clock, models, incidents, alerts, answers, brokenFor, tried>>

(* The graph library gives up: it allows a run a number of steps only.     *)
GraphRaises ==
  /\ "graph" \in Faults
  /\ pc \in {"reason", "validate"}
  /\ cur.attempt > 0
  /\ FailOver
  /\ UNCHANGED <<clock, models, incidents, alerts, answers, brokenFor, tried>>

RecordPlan ==
  /\ pc = "record"
  /\ Record
  /\ Return(cur.proposed.plan, models[cur.model])
  /\ UNCHANGED <<clock, models, alerts, brokenFor, tried>>

(* history.append() raises inside the try: the plan is given up.           *)
RecordPlanRaises ==
  /\ pc = "record"
  /\ "history_write" \in Faults
  /\ Record
  /\ FailOver
  /\ Breaks
  /\ UNCHANGED <<clock, models, alerts, answers, tried>>

-----------------------------------------------------------------------------
(* AgenticDecisionEngine.decide(), as the engine or as the last fallback.  *)

TemplateRecall ==
  /\ pc = "template_recall"
  /\ cur' = [cur EXCEPT !.repeat = Repeated, !.recalled = clock]
  /\ pc' = "template_record"
  /\ UNCHANGED <<clock, models, incidents, alerts, answers, brokenFor, tried>>

(* Mutant of TemplateRecord: the incident is recorded after the return,    *)
(* by a caller that may never get to it.                                   *)
TemplateRecordLater ==
  /\ pc = "template_record"
  /\ Return(Alert.allowed, "template")
  /\ UNCHANGED <<clock, models, incidents, alerts, brokenFor, tried>>

TemplateRecord ==
  /\ pc = "template_record"
  /\ Record
  /\ Return(Alert.allowed, "template")
  /\ UNCHANGED <<clock, models, alerts, brokenFor, tried>>

TemplateRecordRaises ==
  /\ pc = "template_record"
  /\ "history_write" \in Faults
  /\ Record
  /\ Raise
  /\ UNCHANGED <<clock, models, alerts, tried>>

-----------------------------------------------------------------------------
EngineStep ==
  \/ Recall
  \/ RetrievalRaises
  \/ \E proposal \in Proposals \union {NoProposal} : Reason(proposal)
  \/ Accept
  \/ Reject
  \/ GraphRaises
  \/ RecordPlan
  \/ RecordPlanRaises
  \/ TemplateRecall
  \/ TemplateRecord
  \/ TemplateRecordRaises

Next ==
  \/ Tick
  \/ \E alert \in Alerts : Decide(alert)
  \/ EngineStep

Spec == Init /\ [][Next]_vars

(* decide() runs on: each call of a model, the retrieval or the history    *)
(* comes back, with a result or an exception.                              *)
FairSpec == Spec /\ WF_vars(EngineStep)

-----------------------------------------------------------------------------
(* Properties.                                                             *)

(* What the caller sees of an answer.                                      *)
Shown(answer) == [raised |-> answer.raised, plan |-> answer.plan]

Visible == [n \in DOMAIN answers |-> Shown(answers[n])]

Service == INSTANCE PlanService WITH
  answers <- Visible,
  broken  <- Current \in brokenFor

(* The engine is the service its callers rely on: whatever the models      *)
(* answer and however the graph ends, each alert is answered with a plan   *)
(* of allowed playbooks, an exception needs a broken history or retrieval, *)
(* and no alert waits for ever.                                            *)
ImplementsService == Service!Spec

(* A plan is returned only with its incident in the history, under the     *)
(* source of its alert; and as long as nothing broke, an alert that was    *)
(* answered left one incident, whichever engines it went through.          *)
EveryPlanRecorded ==
  \A n \in DOMAIN answers :
    LET own == {i \in DOMAIN incidents : incidents[i].alert = n}
    IN  /\ ~answers[n].raised =>
             \E i \in own : /\ incidents[i].id = answers[n].incident
                            /\ incidents[i].source = alerts[n].source
        /\ n \notin brokenFor => Cardinality(own) = 1

(* A plan speaks of repeat activity if and only if an earlier alert of the *)
(* same source left an incident within the window: the incident of the     *)
(* alert itself never counts, in whichever engine it ends up, as long as   *)
(* no write failed.                                                        *)
RepeatTruthful ==
  \A n \in DOMAIN answers \ brokenFor :
    answers[n].repeat <=>
      \E i \in DOMAIN incidents :
        /\ incidents[i].alert < n
        /\ incidents[i].source = alerts[n].source
        /\ incidents[i].at >= answers[n].recalled - Window

(* The engine field tells where the plan came from: that model's proposal  *)
(* was found valid, the models before it were asked and found wanting, and *)
(* a valid plan was given up only because it could not be recorded.        *)
Rank(engine) ==
  IF engine = "template" THEN Len(models) + 1
  ELSE CHOOSE k \in DOMAIN models : models[k] = engine

Tried(n, k, valid) == [alert |-> n, model |-> models[k], valid |-> valid] \in tried

ProvenanceTrue ==
  \A n \in DOMAIN answers :
    LET rank == Rank(answers[n].engine)
    IN  ~answers[n].raised =>
          /\ \A k \in 1..rank - 1 : /\ Tried(n, k, FALSE)
                                    /\ Tried(n, k, TRUE) => n \in brokenFor
          /\ rank \in DOMAIN models => Tried(n, rank, TRUE)
          /\ \A k \in rank + 1..Len(models) : ~Tried(n, k, FALSE)

-----------------------------------------------------------------------------
(* The inductive invariant behind the safety part of ImplementsService:    *)
(* an alert waits exactly while a step of decide() is to come, and only an *)
(* allowed plan gets to be recorded.                                       *)

WaitingInv ==
  /\ pc = "idle" => Len(answers) = Len(alerts)
  /\ pc # "idle" => Len(answers) + 1 = Len(alerts)

AllowedInv == pc = "record" => cur.proposed.plan \subseteq Alert.allowed

IInv == TypeOK /\ WaitingInv /\ AllowedInv

=============================================================================
