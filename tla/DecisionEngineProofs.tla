------------------------ MODULE DecisionEngineProofs ------------------------
(***************************************************************************)
(* Proofs about DecisionEngine, for any playbooks, proposals, number of    *)
(* attempts and alerts.                                                    *)
(***************************************************************************)
EXTENDS DecisionEngine, FiniteSetTheorems, TLAPS

(* cur stays a record of local variables; stated apart from the steps.     *)
Locals == [model : 0..2, attempt : 0..MaxAttempts + 1,
           proposed : Proposals \union {NoProposal},
           repeat : BOOLEAN, recalled : Nat]

LEMMA ModelsShort ==
  ASSUME TypeOK
  PROVE  /\ models \in Seq(Models)
         /\ Len(models) \in 0..2
         /\ DOMAIN models \subseteq 0..2
         /\ \A k \in DOMAIN models : models[k] \in Models
<1>1. \/ models = << >>
      \/ models = <<"primary">>
      \/ models = <<"primary", "fallback_model">>
  BY ModelListsAssumption DEF TypeOK
<1>2. /\ << >> \in Seq(Models) /\ Len(<< >>) = 0
      /\ <<"primary">> \in Seq(Models) /\ Len(<<"primary">>) = 1
      /\ <<"primary", "fallback_model">> \in Seq(Models)
      /\ Len(<<"primary", "fallback_model">>) = 2
  BY DEF Models
<1>3. models \in Seq(Models) /\ Len(models) \in 0..2
  <2>1. CASE models = << >>
    BY <1>2, <2>1
  <2>2. CASE models = <<"primary">>
    BY <1>2, <2>2
  <2>3. CASE models = <<"primary", "fallback_model">>
    BY <1>2, <2>3
  <2> QED
    BY <1>1, <2>1, <2>2, <2>3
<1> QED
  BY <1>3

LEMMA NothingInHand == NoDecision \in Locals
  BY NumbersAssumption DEF NoDecision, Locals

LEMMA PlansTyped ==
  /\ Alerts = [source : Sources, allowed : Allowed]
  /\ \A a \in Alerts : a.allowed \subseteq Playbooks
  /\ \A p \in Proposals \union {NoProposal} : p.plan \subseteq Playbooks
  BY ProposalsAssumption DEF Alerts, NoProposal

LEMMA IncidentTyped ==
  ASSUME TypeOK, pc # "idle"
  PROVE  NewIncident \in Incident
<1>1. Current \in Nat /\ Current > 0 /\ Alert \in Alerts
  BY DEF TypeOK, Alert, Current
<1>2. Len(incidents) + 1 \in Nat /\ clock \in Nat
  BY DEF TypeOK
<1> QED
  BY <1>1, <1>2 DEF NewIncident, Incident, Alerts

-----------------------------------------------------------------------------
(* Type correctness, first what decide() keeps and then its local state.   *)

LEMMA AnswerTyped ==
  ASSUME TypeOK, pc # "idle",
         NEW plan \in SUBSET Playbooks, NEW engine \in Engines,
         Return(plan, engine) \/ Raise
  PROVE  answers' \in Seq(Answer) /\ cur' = NoDecision /\ pc' = "idle"
<1>1. NewIncident.id \in Nat
  BY IncidentTyped DEF Incident
<1>2. cur.repeat \in BOOLEAN /\ cur.recalled \in Nat
  BY DEF TypeOK
<1>3. CASE Return(plan, engine)
  <2> DEFINE answer == [raised |-> FALSE, plan |-> plan, engine |-> engine,
                        repeat |-> cur.repeat, recalled |-> cur.recalled,
                        incident |-> NewIncident.id]
  <2>1. answer \in Answer
    BY <1>1, <1>2 DEF Answer
  <2>2. answers' = Append(answers, answer) /\ cur' = NoDecision /\ pc' = "idle"
    BY <1>3 DEF Return, Leave
  <2> HIDE DEF answer
  <2> QED
    BY <2>1, <2>2 DEF TypeOK
<1>4. CASE Raise
  <2> DEFINE answer == [raised |-> TRUE, plan |-> {}, engine |-> "template",
                        repeat |-> FALSE, recalled |-> 0, incident |-> 0]
  <2>1. answer \in Answer
    BY DEF Answer, Engines
  <2>2. answers' = Append(answers, answer) /\ cur' = NoDecision /\ pc' = "idle"
    BY <1>4 DEF Raise, Leave
  <2> HIDE DEF answer
  <2> QED
    BY <2>1, <2>2 DEF TypeOK
<1> QED
  BY <1>3, <1>4

LEMMA RecordTyped ==
  ASSUME TypeOK, pc # "idle", Record
  PROVE  incidents' \in Seq(Incident)
BY IncidentTyped DEF Record, TypeOK

LEMMA FailOverTyped ==
  ASSUME TypeOK, pc \in {"reason", "validate", "record"}, FailOver
  PROVE  /\ cur' \in Locals
         /\ cur'.attempt <= 1 \/ cur'.attempt <= MaxAttempts
         /\ pc' \in {"reason", "template_recall"}
         /\ pc' = "reason" => cur'.model \in DOMAIN models /\ cur'.attempt = 0
<1>1. cur \in Locals /\ cur.model \in DOMAIN models
  BY DEF TypeOK, Locals
<1>2. CASE cur.model < Len(models)
  <2>1. pc' = "reason" /\ cur' = [cur EXCEPT !.model = cur.model + 1, !.attempt = 0,
                                           !.proposed = NoProposal]
    BY <1>2 DEF FailOver, Start
  <2>2. cur.model + 1 \in DOMAIN models /\ cur.model + 1 \in 0..2
    BY <1>1, <1>2, ModelsShort
  <2>3. /\ cur' = [model |-> cur.model + 1, attempt |-> 0, proposed |-> NoProposal,
                   repeat |-> cur.repeat, recalled |-> cur.recalled]
    BY <1>1, <2>1 DEF Locals
  <2> QED
    BY <1>1, <2>1, <2>2, <2>3, NumbersAssumption DEF Locals
<1>3. CASE ~(cur.model < Len(models))
  BY <1>1, <1>3 DEF FailOver, TypeOK
<1> QED
  BY <1>2, <1>3

(* decide() is left: what remains to show of the next state.               *)
LEMMA LeavingTyped ==
  ASSUME TypeOK, pc # "idle",
         incidents' \in Seq(Incident), answers' \in Seq(Answer),
         cur' = NoDecision, pc' = "idle",
         brokenFor' \in {brokenFor, brokenFor \union {Current}},
         UNCHANGED <<clock, models, alerts, tried>>
  PROVE  TypeOK'
<1>1. Current \in DOMAIN alerts
  BY DEF TypeOK, Current
<1>2. cur' \in Locals /\ cur'.attempt = 0
  BY NothingInHand DEF NoDecision
<1> QED
  BY <1>1, <1>2, NumbersAssumption DEF TypeOK, Steps, Locals, Current, NoDecision

LEMMA TriesTyped ==
  ASSUME TypeOK, pc \in {"reason", "validate", "record"},
         NEW valid \in BOOLEAN, Tries(valid), UNCHANGED alerts
  PROVE  tried' \subseteq [alert : DOMAIN alerts', model : Models, valid : BOOLEAN]
<1>1. Current \in DOMAIN alerts /\ models[cur.model] \in Models
  BY ModelsShort DEF TypeOK, Current
<1> QED
  BY <1>1 DEF Tries, TypeOK

LEMMA NextType == TypeOK /\ [Next]_vars => TypeOK'
<1> SUFFICES ASSUME TypeOK, [Next]_vars
             PROVE  TypeOK'
  OBVIOUS
<1> USE NumbersAssumption
<1>0. cur \in Locals
  BY DEF TypeOK, Locals
<1>1. CASE Tick
  BY <1>1 DEF Tick, TypeOK, Current, MayRetry
<1>2. ASSUME NEW alert \in Alerts, Decide(alert)
      PROVE  TypeOK'
  <2>1. /\ alerts' = Append(alerts, alert) /\ alerts \in Seq(Alerts)
        /\ pc' \in {"template_recall", "recall"}
        /\ UNCHANGED <<clock, models, incidents, answers, cur, brokenFor, tried>>
    BY <1>2 DEF Decide, TypeOK
  <2>2. /\ alerts' \in Seq(Alerts) /\ Len(alerts') = Len(alerts) + 1
        /\ DOMAIN alerts \subseteq DOMAIN alerts'
    BY <2>1
  <2>3. /\ pc' = "recall" => models' # << >>
        /\ cur' = NoDecision
    BY <1>2 DEF Decide, TypeOK
  <2>4. tried' \subseteq [alert : DOMAIN alerts', model : Models, valid : BOOLEAN]
    BY <2>1, <2>2 DEF TypeOK
  <2>5. cur \in Locals /\ (cur.attempt <= 1 \/ cur.attempt <= MaxAttempts)
    BY DEF TypeOK, Locals
  <2> QED
    BY <2>1, <2>2, <2>3, <2>4, <2>5 DEF TypeOK, Current, Steps, MayRetry, Locals
<1>3. CASE Recall
  <2>1. /\ cur' = [model |-> 1, attempt |-> 0, proposed |-> NoProposal,
                   repeat |-> Repeated, recalled |-> clock]
        /\ pc' = "reason"
        /\ UNCHANGED <<clock, models, incidents, alerts, answers, brokenFor, tried>>
    BY <1>3 DEF Recall, NoDecision
  <2>2. Repeated \in BOOLEAN
    BY DEF Repeated
  <2>3. 1 \in DOMAIN models
    BY <1>3, ModelsShort DEF Recall, TypeOK
  <2>4. cur'.proposed \in Proposals \union {NoProposal} /\ clock \in Nat /\ pc = "recall"
    BY <1>3, <2>1 DEF TypeOK, Recall
  <2>5. cur' \in Locals /\ cur'.attempt = 0 /\ cur'.model = 1
    BY <2>1, <2>2, <2>4 DEF Locals
  <2> HIDE <2>1
  <2>6. /\ pc' = "reason" /\ pc = "recall"
        /\ UNCHANGED <<clock, models, incidents, alerts, answers, brokenFor, tried>>
    BY <1>3 DEF Recall
  <2> QED
    BY <2>3, <2>5, <2>6 DEF TypeOK, Current, Steps, Locals
<1>4. CASE RetrievalRaises
  <2>1. /\ answers' \in Seq(Answer) /\ cur' = NoDecision /\ pc' = "idle"
        /\ brokenFor' = brokenFor \union {Current}
        /\ UNCHANGED <<clock, models, incidents, alerts, tried>>
    BY <1>4, AnswerTyped DEF RetrievalRaises, Raise, Breaks, Engines
  <2> QED
    BY <1>4, <2>1, LeavingTyped DEF RetrievalRaises, TypeOK
<1>5. ASSUME NEW proposal \in Proposals \union {NoProposal}, Reason(proposal)
      PROVE  TypeOK'
  <2>1. /\ cur' = [model |-> cur.model, attempt |-> cur.attempt + 1,
                   proposed |-> proposal, repeat |-> cur.repeat,
                   recalled |-> cur.recalled]
        /\ pc = "reason" /\ pc' = "validate"
        /\ UNCHANGED <<clock, models, incidents, alerts, answers, brokenFor>>
    BY <1>0, <1>5 DEF Reason, Locals
  <2>2. cur.attempt + 1 <= 1 \/ cur.attempt + 1 <= MaxAttempts
    BY <1>0, <2>1 DEF TypeOK, MayRetry, Locals
  <2>3. /\ cur' \in Locals /\ cur'.attempt = cur.attempt + 1
        /\ cur'.model = cur.model
    BY <1>0, <2>1, <2>2 DEF Locals
  <2>4. tried' \subseteq [alert : DOMAIN alerts', model : Models, valid : BOOLEAN]
    BY <1>5, <2>1, TriesTyped DEF Reason
  <2>5. /\ pc = "reason" /\ pc' = "validate"
        /\ UNCHANGED <<clock, models, incidents, alerts, answers, brokenFor>>
    BY <2>1
  <2> QED
    BY <2>2, <2>3, <2>4, <2>5 DEF TypeOK, Current, Steps, Locals
<1>6. CASE Accept
  BY <1>6, TriesTyped DEF Accept, TypeOK, Current, Steps, MayRetry
<1>7. CASE Reject
  <2>1. /\ pc = "validate"
        /\ UNCHANGED <<clock, models, incidents, alerts, answers, brokenFor, tried>>
        /\ \/ MayRetry /\ pc' = "reason" /\ UNCHANGED cur
           \/ FailOver
    BY <1>7 DEF Reject
  <2> QED
    BY <2>1, FailOverTyped DEF TypeOK, Current, Steps, MayRetry, Locals
<1>8. CASE GraphRaises
  BY <1>8, FailOverTyped DEF GraphRaises, TypeOK, MayRetry, Current, Steps, Locals
<1>9. CASE RecordPlan
  <2>1. cur.proposed.plan \in SUBSET Playbooks /\ models[cur.model] \in Engines
    BY <1>0, <1>9, PlansTyped, ModelsShort DEF RecordPlan, TypeOK, Locals, Engines
  <2>2. /\ answers' \in Seq(Answer) /\ cur' = NoDecision /\ pc' = "idle"
        /\ UNCHANGED <<clock, models, alerts, brokenFor, tried>>
    BY <1>9, <2>1, AnswerTyped DEF RecordPlan
  <2> QED
    BY <1>9, <2>2, RecordTyped, LeavingTyped DEF RecordPlan, TypeOK
<1>10. CASE RecordPlanRaises
  <2>1. /\ pc = "record" /\ incidents' \in Seq(Incident)
        /\ brokenFor' = brokenFor \union {Current} /\ Current \in DOMAIN alerts
        /\ UNCHANGED <<clock, models, alerts, answers, tried>>
    BY <1>10, RecordTyped DEF RecordPlanRaises, Breaks, TypeOK, Current
  <2>2. FailOver
    BY <1>10 DEF RecordPlanRaises
  <2> QED
    BY <2>1, <2>2, FailOverTyped DEF TypeOK, Current, Steps, MayRetry, Locals
<1>11. CASE TemplateRecall
  <2>1. /\ cur' = [model |-> cur.model, attempt |-> cur.attempt,
                   proposed |-> cur.proposed, repeat |-> Repeated, recalled |-> clock]
        /\ Repeated \in BOOLEAN /\ clock \in Nat
    BY <1>0, <1>11 DEF TemplateRecall, Locals, Repeated, TypeOK
  <2>2. /\ cur' \in Locals /\ cur'.attempt = cur.attempt
    BY <1>0, <2>1 DEF Locals
  <2>3. /\ pc = "template_recall" /\ pc' = "template_record"
        /\ UNCHANGED <<clock, models, incidents, alerts, answers, brokenFor, tried>>
    BY <1>11 DEF TemplateRecall
  <2> QED
    BY <2>2, <2>3 DEF TypeOK, Current, Steps, Locals
<1>12. CASE TemplateRecord
  <2>1. Alert.allowed \in SUBSET Playbooks /\ "template" \in Engines
    <3>1. Alert \in Alerts
      BY <1>12 DEF TemplateRecord, TypeOK, Alert, Current
    <3> QED
      BY <3>1, PlansTyped DEF Engines
  <2>2. /\ answers' \in Seq(Answer) /\ cur' = NoDecision /\ pc' = "idle"
        /\ UNCHANGED <<clock, models, alerts, brokenFor, tried>>
    BY <1>12, <2>1, AnswerTyped DEF TemplateRecord
  <2> QED
    BY <1>12, <2>2, RecordTyped, LeavingTyped DEF TemplateRecord, TypeOK
<1>13. CASE TemplateRecordRaises
  <2>1. /\ answers' \in Seq(Answer) /\ cur' = NoDecision /\ pc' = "idle"
        /\ brokenFor' = brokenFor \union {Current}
        /\ UNCHANGED <<clock, models, alerts, tried>>
    BY <1>13, AnswerTyped DEF TemplateRecordRaises, Raise, Breaks, Engines
  <2> QED
    BY <1>13, <2>1, RecordTyped, LeavingTyped DEF TemplateRecordRaises
<1>14. CASE UNCHANGED vars
  BY <1>14 DEF vars, TypeOK, Current, MayRetry
<1> QED
  BY <1>1, <1>2, <1>3, <1>4, <1>5, <1>6, <1>7, <1>8, <1>9, <1>10, <1>11, <1>12,
     <1>13, <1>14 DEF Next, EngineStep

LEMMA InitType == Init => TypeOK
<1> SUFFICES ASSUME Init PROVE TypeOK
  OBVIOUS
<1>1. << >> \in Seq(Incident) /\ << >> \in Seq(Alerts) /\ << >> \in Seq(Answer)
  OBVIOUS
<1> QED
  BY <1>1, NothingInHand, NumbersAssumption DEF Init, TypeOK, Locals, NoDecision, Steps

(* Every reachable state has the declared types: the number of attempts at *)
(* a model stays within max_attempts, and at one if that is zero, and      *)
(* decide() always knows which of its models it is at.                     *)
THEOREM TypeCorrect == Spec => []TypeOK
<1> QED
  BY InitType, NextType, PTL DEF Spec

-----------------------------------------------------------------------------
(* decide() implements the service.                                        *)

LEMMA VisibleFacts ==
  ASSUME TypeOK
  PROVE  Visible \in Seq([raised : BOOLEAN, plan : SUBSET Playbooks])
         /\ Len(Visible) = Len(answers)
<1>1. /\ DOMAIN answers = 1..Len(answers) /\ Len(answers) \in Nat
      /\ \A n \in DOMAIN answers : answers[n] \in Answer
  BY DEF TypeOK
<1>2. \A n \in 1..Len(answers) :
        Shown(answers[n]) \in [raised : BOOLEAN, plan : SUBSET Playbooks]
  BY <1>1 DEF Shown, Answer
<1> QED
  BY <1>1, <1>2 DEF Visible

(* One more answer is one more visible answer.                             *)
LEMMA VisibleAppend ==
  ASSUME TypeOK, NEW answer \in Answer, answers' = Append(answers, answer)
  PROVE  Visible' = Append(Visible, Shown(answer))
<1>1. answers \in Seq(Answer) /\ Len(answers) \in Nat
  BY DEF TypeOK
<1>2. /\ DOMAIN answers' = 1..Len(answers) + 1
      /\ \A n \in 1..Len(answers) : answers'[n] = answers[n]
      /\ answers'[Len(answers) + 1] = answer
  BY <1>1
<1>3. Visible' = [n \in 1..Len(answers) + 1 |-> Shown(answers'[n])]
  BY <1>2 DEF Visible, Shown
<1>4. /\ Visible = [n \in 1..Len(answers) |-> Shown(answers[n])]
      /\ Visible \in Seq([raised : BOOLEAN, plan : SUBSET Playbooks])
      /\ Len(Visible) = Len(answers)
  BY <1>1, VisibleFacts DEF Visible
<1>5. Append(Visible, Shown(answer)) =
        [n \in 1..Len(answers) + 1 |-> IF n = Len(answers) + 1 THEN Shown(answer)
                                                          ELSE Visible[n]]
  BY <1>1, <1>4
<1> QED
  BY <1>1, <1>2, <1>3, <1>4, <1>5

LEMMA VisibleReturn ==
  ASSUME TypeOK, pc # "idle",
         NEW plan \in SUBSET Playbooks, NEW engine \in Engines, Return(plan, engine)
  PROVE  Visible' = Append(Visible, [raised |-> FALSE, plan |-> plan])
<1> DEFINE answer == [raised |-> FALSE, plan |-> plan, engine |-> engine,
                      repeat |-> cur.repeat, recalled |-> cur.recalled,
                      incident |-> NewIncident.id]
<1>1. answer \in Answer
  BY IncidentTyped DEF Incident, TypeOK, Answer
<1>2. answers' = Append(answers, answer)
  BY DEF Return, Leave
<1>3. Shown(answer) = [raised |-> FALSE, plan |-> plan]
  BY DEF Shown
<1> HIDE DEF answer
<1> QED
  BY <1>1, <1>2, <1>3, VisibleAppend

LEMMA VisibleRaise ==
  ASSUME TypeOK, Raise
  PROVE  Visible' = Append(Visible, [raised |-> TRUE, plan |-> {}])
<1> DEFINE answer == [raised |-> TRUE, plan |-> {}, engine |-> "template",
                      repeat |-> FALSE, recalled |-> 0, incident |-> 0]
<1>1. answer \in Answer
  BY DEF Answer, Engines
<1>2. answers' = Append(answers, answer)
  BY DEF Raise, Leave
<1>3. Shown(answer) = [raised |-> TRUE, plan |-> {}]
  BY DEF Shown
<1> HIDE DEF answer
<1> QED
  BY <1>1, <1>2, <1>3, VisibleAppend

(* The steps of decide() that answer, and those that do not.               *)
Answers(plan) ==
  /\ pc # "idle" /\ pc' = "idle"
  /\ plan \subseteq Alert.allowed
  /\ Visible' = Append(Visible, [raised |-> FALSE, plan |-> plan])
  /\ UNCHANGED <<alerts, brokenFor>>

Fails ==
  /\ pc # "idle" /\ pc' = "idle"
  /\ Visible' = Append(Visible, [raised |-> TRUE, plan |-> {}])
  /\ Breaks
  /\ UNCHANGED alerts

GoesOn ==
  /\ pc = "idle" <=> pc' = "idle"
  /\ brokenFor' = brokenFor \/ (Breaks /\ pc # "idle")
  /\ UNCHANGED <<alerts, answers>>

LEMMA StepKinds ==
  ASSUME IInv, [Next]_vars
  PROVE  \/ \E alert \in Alerts : Decide(alert)
         \/ \E plan \in SUBSET Playbooks : Answers(plan)
         \/ Fails
         \/ GoesOn
<1> USE DEF IInv
<1>1. CASE RetrievalRaises \/ TemplateRecordRaises
  BY <1>1, VisibleRaise DEF RetrievalRaises, TemplateRecordRaises, Raise, Leave, Fails
<1>2. CASE RecordPlan
  <2>1. cur.proposed.plan \in SUBSET Playbooks /\ models[cur.model] \in Engines
    BY <1>2, PlansTyped, ModelsShort DEF RecordPlan, TypeOK, Engines
  <2> QED
    BY <1>2, <2>1, VisibleReturn DEF RecordPlan, Return, Leave, Answers, AllowedInv
<1>3. CASE TemplateRecord
  <2>1. Alert \in Alerts
    BY <1>3 DEF TemplateRecord, TypeOK, Alert, Current
  <2>2. Alert.allowed \in SUBSET Playbooks /\ "template" \in Engines
    BY <2>1, PlansTyped DEF Engines
  <2> QED
    BY <1>3, <2>2, VisibleReturn DEF TemplateRecord, Return, Leave, Answers
<1>4. CASE RecordPlanRaises
  BY <1>4 DEF RecordPlanRaises, FailOver, GoesOn
<1>5. CASE Tick \/ UNCHANGED vars
  BY <1>5 DEF Tick, vars, GoesOn
<1>6. CASE Recall \/ TemplateRecall \/ Accept
  BY <1>6 DEF Recall, TemplateRecall, Accept, GoesOn
<1>7. CASE Reject \/ GraphRaises
  BY <1>7 DEF Reject, GraphRaises, FailOver, GoesOn
<1>8. CASE \E proposal \in Proposals \union {NoProposal} : Reason(proposal)
  BY <1>8 DEF Reason, GoesOn
<1> QED
  BY <1>1, <1>2, <1>3, <1>4, <1>5, <1>6, <1>7, <1>8 DEF Next, EngineStep

LEMMA NextInv == IInv /\ [Next]_vars => IInv'
<1> SUFFICES ASSUME IInv, [Next]_vars
             PROVE  IInv'
  OBVIOUS
<1> USE DEF IInv
<1>1. TypeOK'
  BY NextType
<1>2. WaitingInv'
  <2>1. CASE \E alert \in Alerts : Decide(alert)
    BY <2>1 DEF Decide, WaitingInv, TypeOK
  <2>2. CASE (\E plan \in SUBSET Playbooks : Answers(plan)) \/ Fails
    <3>1. pc # "idle" /\ pc' = "idle" /\ UNCHANGED alerts
      BY <2>2 DEF Answers, Fails
    <3>2. Visible \in Seq([raised : BOOLEAN, plan : SUBSET Playbooks])
      BY VisibleFacts
    <3>3. \E answer : Visible' = Append(Visible, answer)
      BY <2>2 DEF Answers, Fails
    <3>4. Len(Visible') = Len(Visible) + 1
      BY <3>2, <3>3
    <3>5. Len(Visible) = Len(answers) /\ Len(Visible') = Len(answers')
      <4>1. Len(Visible) = Len(answers)
        BY VisibleFacts
      <4>2. answers' \in Seq(Answer) /\ DOMAIN Visible' = DOMAIN answers'
        BY <1>1 DEF TypeOK, Visible
      <4>3. DOMAIN answers' = 1..Len(answers') /\ Len(answers') \in Nat
        BY <4>2
      <4>4. DOMAIN Visible' = 1..Len(Visible') /\ Len(Visible') \in Nat
        BY <3>2, <3>3, <3>4
      <4> QED
        BY <4>1, <4>2, <4>3, <4>4
    <3>6. Len(answers') = Len(answers) + 1
      BY <3>4, <3>5
    <3> QED
      BY <3>1, <3>6 DEF WaitingInv
  <2>3. CASE GoesOn
    BY <2>3 DEF GoesOn, WaitingInv
  <2> QED
    BY <2>1, <2>2, <2>3, StepKinds
<1>3. AllowedInv'
  <2>1. CASE Accept
    BY <2>1 DEF Accept, Valid, AllowedInv, Alert, Current
  <2>2. CASE Tick \/ UNCHANGED vars
    BY <2>2 DEF Tick, vars, AllowedInv, Alert, Current
  <2>3. CASE ~Accept /\ ~Tick /\ ~UNCHANGED vars
    <3>1. pc' # "record"
      BY <2>3 DEF Next, EngineStep, Decide, Recall, RetrievalRaises, Reason, Reject,
         GraphRaises, RecordPlan, RecordPlanRaises, TemplateRecall, TemplateRecord,
         TemplateRecordRaises, FailOver, Return, Raise, Leave
    <3> QED
      BY <3>1 DEF AllowedInv
  <2> QED
    BY <2>1, <2>2, <2>3
<1> QED
  BY <1>1, <1>2, <1>3

THEOREM InvariantHolds == Spec => []IInv
<1>1. Init => WaitingInv /\ AllowedInv
  BY DEF Init, WaitingInv, AllowedInv
<1> QED
  BY <1>1, InitType, NextInv, PTL DEF Spec, IInv

(* Whatever the models propose, for any number of attempts: decide()       *)
(* behaves as the service, alert by alert, and answers within the allowed  *)
(* playbooks or with an exception that a broken history or retrieval made. *)
THEOREM EngineIsService == Spec => Service!Safety
<1>1. Init => Service!Init
  BY DEF Init, Service!Init, Visible, Current
<1>2. IInv /\ [Next]_vars => [Service!Next]_(Service!vars)
  <2> SUFFICES ASSUME IInv, [Next]_vars
               PROVE  [Service!Next]_(Service!vars)
    OBVIOUS
  <2> USE DEF IInv
  <2>1. /\ Len(Visible) = Len(answers) /\ Len(alerts) \in Nat
        /\ brokenFor \subseteq DOMAIN alerts
    BY VisibleFacts DEF TypeOK
  <2>2. pc # "idle" <=> Service!Waiting
    BY <2>1 DEF WaitingInv, Service!Waiting, TypeOK
  <2>3. ASSUME NEW alert \in Alerts, Decide(alert)
        PROVE  Service!Ask(alert)
    BY <2>1, <2>2, <2>3 DEF Decide, Service!Ask, Visible, Current, TypeOK
  <2>4. ASSUME NEW plan \in SUBSET Playbooks, Answers(plan)
        PROVE  Service!Answer
    BY <2>2, <2>4 DEF Answers, Service!Answer, Service!AnswerWith, Service!PlansFor,
                      Alert, Current
  <2>5. CASE Fails
    <3>1. (Current \in brokenFor)' = TRUE
      BY <2>5 DEF Fails, Breaks, Current
    <3>2. Service!Answer
      BY <2>2, <2>5, <3>1 DEF Fails, Service!Answer, Service!AnswerWith, Service!Raised
    <3> QED
      BY <3>2 DEF Service!Next
  <2>6. CASE GoesOn
    <3>1. UNCHANGED <<alerts, Visible>> /\ Current' = Current
      BY <2>6 DEF GoesOn, Visible, Current
    <3>2. CASE brokenFor' = brokenFor
      BY <3>1, <3>2 DEF Service!vars
    <3>3. CASE Breaks /\ pc # "idle"
      <4>1. (Current \in brokenFor)' = TRUE
        BY <3>1, <3>3 DEF Breaks
      <4>2. Service!Break
        BY <2>2, <3>1, <3>3, <4>1 DEF Service!Break
      <4> QED
        BY <4>2 DEF Service!Next
    <3> QED
      BY <2>6, <3>2, <3>3 DEF GoesOn
  <2>7. CASE \E alert \in Alerts : Decide(alert)
    BY <2>3, <2>7 DEF Service!Next
  <2>8. CASE \E plan \in SUBSET Playbooks : Answers(plan)
    BY <2>4, <2>8 DEF Service!Next
  <2> QED
    BY <2>5, <2>6, <2>7, <2>8, StepKinds DEF Service!Next
<1> QED
  BY <1>1, <1>2, InvariantHolds, PTL DEF Spec, Service!Safety

-----------------------------------------------------------------------------
(* What the history holds of an alert.                                     *)

OfAlert(n) == {i \in DOMAIN incidents : incidents[i].alert = n}

(* An alert before the n-th of the same source, late enough.               *)
Repeats(n, source, recalled) ==
  \E i \in DOMAIN incidents : /\ incidents[i].alert < n
                              /\ incidents[i].source = source
                              /\ incidents[i].at >= recalled - Window

AnswerTrue(n) ==
  /\ ~answers[n].raised =>
       \E i \in OfAlert(n) : /\ incidents[i].id = answers[n].incident
                             /\ incidents[i].source = alerts[n].source
  /\ n \notin brokenFor =>
       /\ Cardinality(OfAlert(n)) = 1
       /\ answers[n].repeat <=> Repeats(n, alerts[n].source, answers[n].recalled)

RepeatInHand == cur.repeat <=> Repeats(Current, Alert.source, cur.recalled)

(* As long as nothing broke, the alert in hand has left no incident, and   *)
(* what was recalled for it still holds.                                   *)
HistoryInv ==
  /\ \A i \in DOMAIN incidents : incidents[i].alert \in 1..Current
  /\ \A n \in DOMAIN answers : AnswerTrue(n)
  /\ pc # "idle" /\ Current \notin brokenFor => OfAlert(Current) = {}
  /\ pc \in {"reason", "validate", "record", "template_record"} /\ Current \notin brokenFor =>
       RepeatInHand

(* The steps, by what they do to the history and the answers.              *)
Recorded == Record /\ pc # "idle" /\ UNCHANGED alerts

LEMMA HistorySteps ==
  ASSUME [Next]_vars
  PROVE  \/ \E alert \in Alerts : Decide(alert)
         \/ /\ Recorded /\ UNCHANGED brokenFor
            /\ pc \in {"record", "template_record"}
            /\ \E plan, engine : Return(plan, engine)
         \/ (Recorded \/ (UNCHANGED <<incidents, alerts>> /\ pc # "idle")) /\ Raise
         \/ Recorded /\ Breaks /\ UNCHANGED answers
         \/ UNCHANGED <<incidents, alerts, answers, brokenFor>>
BY DEF Next, EngineStep, Tick, Recall, RetrievalRaises, Reason, Accept, Reject, GraphRaises,
       RecordPlan, RecordPlanRaises, TemplateRecall, TemplateRecord, TemplateRecordRaises,
       Recorded, vars

LEMMA RecordFacts ==
  ASSUME TypeOK, Recorded
  PROVE  /\ DOMAIN incidents = 1..Len(incidents) /\ Len(incidents) \in Nat
         /\ DOMAIN incidents' = 1..Len(incidents) + 1
         /\ \A i \in DOMAIN incidents : incidents'[i] = incidents[i]
         /\ incidents'[Len(incidents) + 1] = NewIncident
         /\ NewIncident.alert = Current /\ NewIncident.source = Alert.source
         /\ Current' = Current /\ Current \in Nat /\ Current > 0
<1>1. NewIncident \in Incident
  BY IncidentTyped DEF Recorded
<1> QED
  BY <1>1 DEF TypeOK, Recorded, Record, NewIncident, Current

(* An alert that is answered keeps what the history holds of it.           *)
LEMMA AnsweredKept ==
  ASSUME TypeOK, IInv, HistoryInv, [Next]_vars, NEW n \in DOMAIN answers
  PROVE  n \in DOMAIN answers' /\ AnswerTrue(n)'
<1>1. /\ answers \in Seq(Answer) /\ alerts \in Seq(Alerts) /\ n \in Nat /\ Current \in Nat
      /\ n \in DOMAIN alerts /\ n <= Current /\ (pc # "idle" => n < Current)
  BY DEF TypeOK, IInv, WaitingInv, Current
<1>2. AnswerTrue(n)
  BY DEF HistoryInv
<1>3. /\ n \in DOMAIN answers' /\ answers'[n] = answers[n]
      /\ alerts'[n] = alerts[n] /\ (n \in brokenFor' <=> n \in brokenFor)
  <2>1. alerts'[n] = alerts[n]
    <3>1. CASE UNCHANGED alerts
      BY <3>1
    <3>2. CASE \E alert \in Alerts : Decide(alert)
      BY <1>1, <3>2 DEF Decide
    <3> QED
      BY <3>1, <3>2, HistorySteps DEF Recorded
  <2>2. n \in DOMAIN answers' /\ answers'[n] = answers[n]
    <3>1. CASE UNCHANGED answers
      BY <3>1
    <3>2. CASE \E answer : Leave(answer)
      BY <1>1, <3>2 DEF Leave
    <3> QED
      BY <3>1, <3>2, HistorySteps DEF Decide, Return, Raise
  <2>3. brokenFor' = brokenFor \/ (brokenFor' = brokenFor \union {Current} /\ pc # "idle")
    BY HistorySteps DEF Decide, Raise, Breaks, Recorded
  <2> QED
    BY <1>1, <2>1, <2>2, <2>3
<1>4. /\ OfAlert(n)' = OfAlert(n)
      /\ \A i \in OfAlert(n) : incidents'[i] = incidents[i]
      /\ Repeats(n, alerts[n].source, answers[n].recalled)'
           <=> Repeats(n, alerts[n].source, answers[n].recalled)
  <2>1. CASE UNCHANGED incidents
    BY <1>3, <2>1 DEF OfAlert, Repeats
  <2>2. CASE Recorded
    <3>1. /\ n < Current /\ NewIncident.alert = Current
      BY <1>1, <2>2, RecordFacts DEF Recorded
    <3>2. ASSUME NEW i \in DOMAIN incidents'
          PROVE  \/ i \in DOMAIN incidents /\ incidents'[i] = incidents[i]
                 \/ i \notin DOMAIN incidents /\ incidents'[i].alert = Current
      BY <2>2, RecordFacts
    <3>3. DOMAIN incidents \subseteq DOMAIN incidents'
      BY <2>2, RecordFacts
    <3>4. OfAlert(n)' = OfAlert(n)
      BY <3>1, <3>2, <3>3, <1>1 DEF OfAlert
    <3>5. Repeats(n, alerts[n].source, answers[n].recalled)'
            <=> Repeats(n, alerts[n].source, answers[n].recalled)
      BY <1>1, <1>3, <3>1, <3>2, <3>3 DEF Repeats
    <3> QED
      BY <2>2, <3>4, <3>5, RecordFacts DEF OfAlert
  <2> QED
    BY <2>1, <2>2, HistorySteps DEF Decide
<1> QED
  BY <1>2, <1>3, <1>4 DEF AnswerTrue

(* The alert that is answered now.                                         *)
LEMMA AnsweredNow ==
  ASSUME TypeOK, IInv, HistoryInv, [Next]_vars, NEW n \in DOMAIN answers' \ DOMAIN answers
  PROVE  AnswerTrue(n)'
<1>1. /\ pc # "idle" /\ UNCHANGED alerts /\ \E answer : Leave(answer)
  BY HistorySteps DEF Decide, Return, Raise, Recorded
<1>2. /\ answers \in Seq(Answer) /\ Current \in Nat /\ Len(answers) + 1 = Current
      /\ Current' = Current /\ Alert = alerts[Current] /\ alerts' = alerts
  BY <1>1 DEF TypeOK, IInv, WaitingInv, Current, Alert
<1>3. PICK answer : answers' = Append(answers, answer) /\ pc' = "idle"
  BY <1>1 DEF Leave
<1>4. n = Current /\ answers'[n] = answer
  BY <1>2, <1>3
<1>5. CASE Raise
  BY <1>2, <1>4, <1>5 DEF Raise, Leave, Breaks, AnswerTrue
<1>6. CASE /\ Recorded /\ UNCHANGED brokenFor
           /\ pc \in {"record", "template_record"}
           /\ \E plan, engine : Return(plan, engine)
  <2>1. /\ answer.raised = FALSE /\ answer.incident = NewIncident.id
        /\ answer.repeat = cur.repeat /\ answer.recalled = cur.recalled
    <3>1. PICK plan, engine : Return(plan, engine)
      BY <1>6
    <3>2. answers'[n] = [raised |-> FALSE, plan |-> plan, engine |-> engine,
                         repeat |-> cur.repeat, recalled |-> cur.recalled,
                         incident |-> NewIncident.id]
      BY <1>2, <1>4, <3>1 DEF Return, Leave
    <3> QED
      BY <1>4, <3>2
  <2> DEFINE new == Len(incidents) + 1
  <2>2. /\ new \in DOMAIN incidents' /\ new \notin DOMAIN incidents
        /\ incidents'[new] = NewIncident
        /\ NewIncident.alert = n /\ NewIncident.source = alerts'[n].source
        /\ DOMAIN incidents' = DOMAIN incidents \union {new}
        /\ \A i \in DOMAIN incidents : incidents'[i] = incidents[i]
    BY <1>2, <1>4, <1>6, RecordFacts
  <2> HIDE DEF new
  <2>3. \E i \in OfAlert(n)' : /\ incidents'[i].id = answers'[n].incident
                               /\ incidents'[i].source = alerts'[n].source
    BY <1>4, <2>1, <2>2 DEF OfAlert
  <2>4. ASSUME n \notin brokenFor PROVE Cardinality(OfAlert(n)') = 1
    <3>1. OfAlert(n) = {}
      BY <1>1, <1>4, <2>4 DEF HistoryInv
    <3>2. OfAlert(n)' = {new}
      BY <2>2, <3>1 DEF OfAlert
    <3> QED
      BY <3>2, FS_Singleton
  <2>5. ASSUME n \notin brokenFor
        PROVE  answers'[n].repeat <=> Repeats(n, alerts[n].source, answers[n].recalled)'
    <3>1. cur.repeat <=> Repeats(n, alerts[n].source, cur.recalled)
      BY <1>2, <1>4, <1>6, <2>5 DEF HistoryInv, RepeatInHand
    <3>2. ~(NewIncident.alert < n)
      BY <1>2, <1>4, <2>2
    <3> QED
      BY <1>2, <1>4, <2>1, <2>2, <3>1, <3>2 DEF Repeats
  <2> QED
    BY <1>6, <2>3, <2>4, <2>5 DEF AnswerTrue
<1> QED
  BY <1>3, <1>5, <1>6, HistorySteps DEF Decide

LEMMA RecallTrue ==
  ASSUME TypeOK, HistoryInv, pc # "idle", Current \notin brokenFor
  PROVE  Repeated <=> Repeats(Current, Alert.source, clock)
<1>1. ASSUME NEW i \in DOMAIN incidents
      PROVE  /\ incidents[i].alert < Current /\ incidents[i].at \in Nat
  <2>1. /\ incidents[i] \in Incident /\ incidents[i].alert # Current
        /\ incidents[i].alert \in 1..Current /\ Current \in Nat
    BY <1>1 DEF TypeOK, HistoryInv, OfAlert, Current
  <2> QED
    BY <2>1 DEF Incident
<1>2. clock \in Nat /\ Window \in Nat
  BY NumbersAssumption DEF TypeOK
<1>3. ASSUME NEW i \in DOMAIN incidents
      PROVE  clock - incidents[i].at <= Window <=> incidents[i].at >= clock - Window
  BY <1>1, <1>2
<1> QED
  BY <1>1, <1>3 DEF Repeated, Repeats

LEMMA NextHistory ==
  ASSUME IInv, HistoryInv, [Next]_vars
  PROVE  HistoryInv'
<1>0. TypeOK
  BY DEF IInv
<1>1. \A n \in DOMAIN answers' : AnswerTrue(n)'
  BY <1>0, AnsweredKept, AnsweredNow
<1>2. \A i \in DOMAIN incidents' : incidents'[i].alert \in 1..Current'
  <2>1. CASE \E alert \in Alerts : Decide(alert)
    BY <1>0, <2>1 DEF Decide, HistoryInv, TypeOK, Current
  <2>2. CASE Recorded
    BY <1>0, <2>2, RecordFacts DEF HistoryInv
  <2>3. CASE UNCHANGED <<incidents, alerts>>
    BY <2>3 DEF HistoryInv, Current
  <2> QED
    BY <2>1, <2>2, <2>3, HistorySteps
<1>3. ASSUME pc' # "idle", Current' \notin brokenFor' PROVE OfAlert(Current)' = {}
  <2>1. CASE \E alert \in Alerts : Decide(alert)
    <3>1. UNCHANGED incidents /\ Current' = Current + 1 /\ Current \in Nat
      BY <1>0, <2>1 DEF Decide, TypeOK, Current
    <3> QED
      BY <3>1 DEF HistoryInv, OfAlert
  <2>2. CASE UNCHANGED <<incidents, alerts, answers, brokenFor>>
    <3>1. \A alert \in Alerts : ~Decide(alert)
      BY <1>0, <2>2 DEF Decide, TypeOK
    <3>2. pc # "idle"
      BY <1>3, <3>1 DEF Next, EngineStep, Tick, Recall, RetrievalRaises, Reason,
         Accept, Reject, GraphRaises, RecordPlan, RecordPlanRaises, TemplateRecall,
         TemplateRecord, TemplateRecordRaises, Return, Raise, Leave, vars
    <3> QED
      BY <1>3, <2>2, <3>2 DEF HistoryInv, OfAlert, Current
  <2> QED
    BY <1>3, <2>1, <2>2, HistorySteps DEF Return, Raise, Leave, Breaks, Recorded, Current
<1>4. ASSUME pc' \in {"reason", "validate", "record", "template_record"},
             Current' \notin brokenFor'
      PROVE  RepeatInHand'
  <2>1. /\ UNCHANGED <<incidents, alerts, answers, brokenFor>>
        /\ Current' = Current /\ Alert' = Alert /\ Current \notin brokenFor
    BY <1>4, HistorySteps DEF Decide, Return, Raise, Leave, Breaks, Recorded, Current, Alert
  <2>2. CASE Recall \/ TemplateRecall
    <3>1. cur'.repeat = Repeated /\ cur'.recalled = clock /\ pc # "idle"
      BY <1>0, <2>2 DEF Recall, TemplateRecall, NoDecision, TypeOK
    <3>2. Repeated <=> Repeats(Current, Alert.source, clock)
      BY <1>0, <2>1, <3>1, RecallTrue
    <3> QED
      BY <2>1, <3>1, <3>2 DEF Repeats, RepeatInHand
  <2>3. CASE ~Recall /\ ~TemplateRecall
    <3>1. /\ pc \in {"reason", "validate", "record", "template_record"}
          /\ cur'.repeat = cur.repeat /\ cur'.recalled = cur.recalled
      <4>1. cur \in Locals
        BY <1>0 DEF TypeOK, Locals
      <4> QED
        BY <1>4, <2>1, <2>3, <4>1
           DEF Next, EngineStep, Tick, Decide, RetrievalRaises, Reason, Accept, Reject,
               GraphRaises, FailOver, Start, RecordPlan, RecordPlanRaises, TemplateRecord,
               TemplateRecordRaises, Return, Raise, Leave, Locals, vars
    <3>2. cur.repeat <=> Repeats(Current, Alert.source, cur.recalled)
      BY <2>1, <3>1 DEF HistoryInv, RepeatInHand
    <3> QED
      BY <2>1, <3>1, <3>2 DEF Repeats, RepeatInHand
  <2> QED
    BY <2>2, <2>3
<1> QED
  BY <1>1, <1>2, <1>3, <1>4 DEF HistoryInv

THEOREM HistoryHolds == Spec => []HistoryInv
<1>1. Init => HistoryInv
  BY DEF Init, HistoryInv
<1>2. IInv /\ HistoryInv /\ [Next]_vars => HistoryInv'
  BY NextHistory
<1> QED
  BY <1>1, <1>2, InvariantHolds, PTL DEF Spec

(* A plan that was returned has its incident, and an alert for which       *)
(* nothing broke has exactly one, however many models were tried.          *)
THEOREM PlansRecorded == Spec => []EveryPlanRecorded
<1>1. HistoryInv => EveryPlanRecorded
  BY DEF HistoryInv, AnswerTrue, OfAlert, EveryPlanRecorded
<1> QED
  BY <1>1, HistoryHolds, PTL

(* A plan speaks of repeat activity exactly if an earlier alert of the     *)
(* same source left an incident in time, unless a write failed.            *)
THEOREM RepeatsTold == Spec => []RepeatTruthful
<1>1. HistoryInv => RepeatTruthful
  BY DEF HistoryInv, AnswerTrue, Repeats, RepeatTruthful
<1> QED
  BY <1>1, HistoryHolds, PTL

-----------------------------------------------------------------------------
(* Where a plan comes from.                                                *)

ModelNumbers == 1..Len(models)

(* Model k was given up for alert n, or not asked yet.                     *)
GivenUp(n, k)  == Tried(n, k, FALSE) /\ (Tried(n, k, TRUE) => n \in brokenFor)
NotAsked(n, k) == ~Tried(n, k, FALSE) /\ ~Tried(n, k, TRUE)

ComesFrom(n, engine) ==
  \E rank \in 1..Len(models) + 1 :
    /\ engine = IF rank \in ModelNumbers THEN models[rank] ELSE "template"
    /\ \A k \in ModelNumbers : k < rank => GivenUp(n, k)
    /\ rank \in ModelNumbers => Tried(n, rank, TRUE)
    /\ \A k \in ModelNumbers : k > rank => ~Tried(n, k, FALSE)

(* The models are asked in their order, and one that proposed a valid plan *)
(* is left only when that plan was recorded, or could not be.              *)
ModelInHand ==
  /\ \A k \in ModelNumbers : k < cur.model => GivenUp(Current, k)
  /\ \A k \in ModelNumbers : k > cur.model => NotAsked(Current, k)
  /\ pc = "record" <=> Tried(Current, cur.model, TRUE)
  /\ cur.attempt > 0 \/ pc \in {"validate", "record"} => Tried(Current, cur.model, FALSE)

ProvenanceInv ==
  /\ \A n \in DOMAIN answers : ~answers[n].raised => ComesFrom(n, answers[n].engine)
  /\ pc \in {"reason", "validate", "record"} => ModelInHand
  /\ pc = "recall" => \A k \in ModelNumbers : NotAsked(Current, k)
  /\ pc \in {"template_recall", "template_record"} =>
       \A k \in ModelNumbers : GivenUp(Current, k)

LEMMA ModelsDiffer ==
  ASSUME TypeOK
  PROVE  /\ DOMAIN models = ModelNumbers /\ Len(models) \in 0..2
         /\ \A j, k \in ModelNumbers : models[j] = models[k] => j = k
         /\ \A k \in ModelNumbers : Rank(models[k]) = k
         /\ Rank("template") = Len(models) + 1
<1>1. /\ DOMAIN models = ModelNumbers /\ Len(models) \in 0..2
      /\ \A k \in ModelNumbers : models[k] # "template"
  BY ModelsShort DEF ModelNumbers, Models
<1>2. \A j, k \in ModelNumbers : models[j] = models[k] => j = k
  <2>1. \/ models = << >>
        \/ models = <<"primary">>
        \/ models = <<"primary", "fallback_model">>
    BY ModelListsAssumption DEF TypeOK
  <2>2. \/ Len(models) \in {0, 1}
        \/ Len(models) = 2 /\ models[1] # models[2]
    BY <2>1
  <2>3. CASE Len(models) \in {0, 1}
    BY <2>3 DEF ModelNumbers
  <2>4. CASE Len(models) = 2 /\ models[1] # models[2]
    BY <2>4 DEF ModelNumbers
  <2> QED
    BY <2>2, <2>3, <2>4
<1>3. \A k \in ModelNumbers : Rank(models[k]) = k
  BY <1>1, <1>2 DEF Rank
<1> QED
  BY <1>1, <1>2, <1>3 DEF Rank

(* What asking the model in hand adds.                                     *)
LEMMA TriesFacts ==
  ASSUME TypeOK, cur.model \in DOMAIN models, NEW valid \in BOOLEAN, Tries(valid),
         UNCHANGED models, NEW n, NEW k \in ModelNumbers, NEW v
  PROVE  Tried(n, k, v)' <=> Tried(n, k, v) \/ (n = Current /\ k = cur.model /\ v = valid)
BY ModelsDiffer DEF Tries, Tried

(* The steps, by whom they ask and what breaks.                            *)
LEMMA ModelSteps ==
  ASSUME [Next]_vars
  PROVE  /\ models' = models
         /\ \/ UNCHANGED tried
            \/ /\ pc \in {"reason", "validate"}
               /\ \E valid \in BOOLEAN : Tries(valid)
         /\ \/ UNCHANGED brokenFor
            \/ Breaks /\ pc # "idle"
BY DEF Next, EngineStep, Tick, Decide, Recall, RetrievalRaises, Reason, Accept, Reject,
       GraphRaises, RecordPlan, RecordPlanRaises, TemplateRecall, TemplateRecord,
       TemplateRecordRaises, Return, Raise, Leave, vars

LEMMA OtherAlertsKept ==
  ASSUME TypeOK, [Next]_vars, NEW n, pc # "idle" => n # Current
  PROVE  /\ n \in brokenFor' <=> n \in brokenFor
         /\ \A k \in ModelNumbers, v \in BOOLEAN : Tried(n, k, v)' <=> Tried(n, k, v)
<1>1. n \in brokenFor' <=> n \in brokenFor
  BY ModelSteps DEF Breaks
<1>2. ASSUME NEW k \in ModelNumbers, NEW v \in BOOLEAN
      PROVE  Tried(n, k, v)' <=> Tried(n, k, v)
  <2>1. CASE UNCHANGED tried
    BY <2>1, ModelSteps DEF Tried
  <2>2. CASE pc \in {"reason", "validate"} /\ \E valid \in BOOLEAN : Tries(valid)
    <3>1. cur.model \in DOMAIN models
      BY <2>2 DEF TypeOK
    <3> QED
      BY <2>2, <3>1, ModelSteps, TriesFacts
  <2> QED
    BY <2>1, <2>2, ModelSteps
<1> QED
  BY <1>1, <1>2

LEMMA AnsweredFrom ==
  ASSUME IInv, [Next]_vars, NEW n \in DOMAIN answers, NEW e, ComesFrom(n, e)
  PROVE  ComesFrom(n, e)'
<1>1. TypeOK /\ (pc # "idle" => n # Current)
  BY DEF TypeOK, IInv, WaitingInv, Current
<1>2. models' = models /\ ModelNumbers' = ModelNumbers
  BY ModelSteps DEF ModelNumbers
<1>3. /\ n \in brokenFor' <=> n \in brokenFor
      /\ \A k \in ModelNumbers, v \in BOOLEAN : Tried(n, k, v)' <=> Tried(n, k, v)
  BY <1>1, OtherAlertsKept
<1>4. PICK rank \in 1..Len(models) + 1 :
        /\ e = IF rank \in ModelNumbers THEN models[rank] ELSE "template"
        /\ \A k \in ModelNumbers : k < rank => GivenUp(n, k)
        /\ rank \in ModelNumbers => Tried(n, rank, TRUE)
        /\ \A k \in ModelNumbers : k > rank => ~Tried(n, k, FALSE)
  BY DEF ComesFrom
<1>5. /\ e = IF rank \in ModelNumbers' THEN models'[rank] ELSE "template"
      /\ rank \in ModelNumbers' => Tried(n, rank, TRUE)'
  BY <1>2, <1>3, <1>4
<1>6. /\ \A k \in ModelNumbers' : k < rank => GivenUp(n, k)'
      /\ \A k \in ModelNumbers' : k > rank => ~Tried(n, k, FALSE)'
  BY <1>2, <1>3, <1>4 DEF GivenUp
<1> QED
  BY <1>2, <1>4, <1>5, <1>6 DEF ComesFrom

(* A plan of the model in hand, and one of the template after the last.    *)
LEMMA ModelAnswers ==
  ASSUME TypeOK, ModelInHand, pc = "record", cur.model \in DOMAIN models
  PROVE  ComesFrom(Current, models[cur.model])
<1>1. cur.model \in ModelNumbers /\ cur.model \in 1..Len(models) + 1
  BY ModelsDiffer DEF ModelNumbers
<1> QED
  BY <1>1 DEF ComesFrom, ModelInHand, NotAsked

LEMMA TemplateAnswers ==
  ASSUME TypeOK, \A k \in ModelNumbers : GivenUp(Current, k)
  PROVE  ComesFrom(Current, "template")
<1>1. /\ Len(models) + 1 \in 1..Len(models) + 1 /\ Len(models) + 1 \notin ModelNumbers
      /\ \A k \in ModelNumbers : ~(k > Len(models) + 1)
  BY ModelsDiffer DEF ModelNumbers
<1> QED
  BY <1>1 DEF ComesFrom

(* The next model, or the template, once the one in hand is given up.      *)
LEMMA FailOverGoesOn ==
  ASSUME TypeOK, [Next]_vars, FailOver, ModelInHand, cur.model \in DOMAIN models,
         pc \in {"reason", "validate", "record"}, UNCHANGED <<tried, alerts>>,
         Tried(Current, cur.model, FALSE), pc = "record" => Breaks
  PROVE  /\ pc' = "reason" => ModelInHand'
         /\ pc' # "reason" => /\ pc' = "template_recall"
                              /\ \A k \in ModelNumbers : GivenUp(Current, k)'
<1>1. /\ models' = models /\ ModelNumbers' = ModelNumbers /\ Current' = Current
      /\ cur.model \in ModelNumbers /\ Len(models) \in 0..2 /\ cur \in Locals
  BY ModelSteps, ModelsDiffer DEF ModelNumbers, Current, TypeOK, Locals
<1>2. \A k \in ModelNumbers, v \in BOOLEAN : Tried(Current, k, v)' <=> Tried(Current, k, v)
  BY <1>1 DEF Tried
<1>3. brokenFor \subseteq brokenFor' /\ (pc = "record" => Current \in brokenFor')
  BY ModelSteps DEF Breaks
<1>4. \A k \in ModelNumbers : k <= cur.model => GivenUp(Current, k)'
  <2>1. \A k \in ModelNumbers : k < cur.model => GivenUp(Current, k)'
    BY <1>1, <1>2, <1>3 DEF ModelInHand, GivenUp
  <2>3. /\ Tried(Current, cur.model, FALSE)
        /\ Tried(Current, cur.model, TRUE) => Current \in brokenFor'
    BY <1>3 DEF ModelInHand
  <2>4. ASSUME NEW k \in ModelNumbers, k = cur.model PROVE GivenUp(Current, k)'
    BY <1>1, <1>2, <2>3, <2>4 DEF GivenUp
  <2> QED
    BY <1>1, <2>1, <2>4 DEF ModelNumbers
<1>5. CASE cur.model < Len(models)
  <2>1. pc' = "reason" /\ cur'.model = cur.model + 1 /\ cur'.attempt = 0
    BY <1>1, <1>5 DEF FailOver, Start, Locals
  <2>2. cur.model + 1 \in ModelNumbers
    BY <1>1, <1>5 DEF ModelNumbers
  <2>3. /\ \A k \in ModelNumbers : k < cur.model + 1 => k <= cur.model
        /\ \A k \in ModelNumbers : k >= cur.model + 1 => k > cur.model
    BY <1>1 DEF ModelNumbers
  <2>4. \A k \in ModelNumbers : k < cur.model + 1 => GivenUp(Current, k)'
    BY <1>4, <2>3
  <2>5. \A k \in ModelNumbers : k >= cur.model + 1 => NotAsked(Current, k)'
    BY <1>1, <1>2, <2>3 DEF ModelInHand, NotAsked
  <2>6. ~Tried(Current, cur.model, TRUE)'
    <3>1. cur.model + 1 >= cur.model + 1
      BY <1>1 DEF ModelNumbers
    <3>2. ASSUME NEW k \in ModelNumbers, k = cur.model + 1 PROVE ~Tried(Current, k, TRUE)'
      BY <2>5, <3>1, <3>2 DEF NotAsked
    <3> QED
      BY <2>1, <2>2, <3>2 DEF Tried
  <2>7. \A k \in ModelNumbers : k > cur.model + 1 => k >= cur.model + 1
    BY <1>1 DEF ModelNumbers
  <2>8. /\ \A k \in ModelNumbers' : k < cur'.model => GivenUp(Current, k)'
        /\ \A k \in ModelNumbers' : k > cur'.model => NotAsked(Current, k)'
    BY <1>1, <2>1, <2>4, <2>5, <2>7
  <2>9. (pc = "record" <=> Tried(Current, cur.model, TRUE))'
    BY <2>1, <2>6
  <2>10. (cur.attempt > 0 \/ pc \in {"validate", "record"} => Tried(Current, cur.model, FALSE))'
    BY <2>1
  <2>11. ModelInHand'
    BY <2>8, <2>9, <2>10 DEF ModelInHand
  <2> QED
    BY <2>1, <2>11
<1>6. CASE ~(cur.model < Len(models))
  <2>1. pc' = "template_recall" /\ \A k \in ModelNumbers : k <= cur.model
    BY <1>1, <1>6 DEF FailOver, ModelNumbers
  <2> QED
    BY <1>4, <2>1
<1> QED
  BY <1>5, <1>6

LEMMA NextProvenance ==
  ASSUME IInv, ProvenanceInv, [Next]_vars
  PROVE  ProvenanceInv'
<1>0. /\ TypeOK /\ answers \in Seq(Answer) /\ cur \in Locals /\ Current \in Nat
      /\ models' = models /\ ModelNumbers' = ModelNumbers /\ DOMAIN models = ModelNumbers
      /\ pc \in {"reason", "validate", "record"} => cur.model \in ModelNumbers
  BY ModelSteps, ModelsDiffer DEF IInv, TypeOK, Locals, ModelNumbers, Current
<1>1. ASSUME NEW n \in DOMAIN answers', ~answers'[n].raised, NEW e, e = answers'[n].engine
      PROVE  ComesFrom(n, e)'
  <2>1. CASE n \in DOMAIN answers
    <3>1. answers'[n] = answers[n]
      <4>1. CASE UNCHANGED answers
        BY <4>1
      <4>2. CASE \E answer : Leave(answer)
        BY <1>0, <2>1, <4>2 DEF Leave
      <4> QED
        BY <4>1, <4>2, HistorySteps DEF Decide, Return, Raise
    <3>2. ComesFrom(n, e)
      BY <1>1, <2>1, <3>1 DEF ProvenanceInv
    <3> QED
      BY <2>1, <3>2, AnsweredFrom
  <2>2. CASE n \notin DOMAIN answers
    <3>1. RecordPlan \/ TemplateRecord
      <4>1. ASSUME Raise PROVE FALSE
        <5>1. PICK answer : Leave(answer) /\ answer.raised
          BY <4>1 DEF Raise
        <5>2. n = Len(answers) + 1 /\ answers'[n] = answer
          BY <1>0, <1>1, <2>2, <5>1 DEF Leave
        <5> QED
          BY <1>1, <5>1, <5>2
      <4>2. answers' # answers
        BY <1>1, <2>2
      <4> QED
        BY <4>1, <4>2
           DEF Next, EngineStep, Tick, Decide, Recall, RetrievalRaises, Reason, Accept,
               Reject, GraphRaises, RecordPlanRaises, TemplateRecall,
               TemplateRecordRaises, vars
    <3>2. PICK f : /\ ComesFrom(Current, f) /\ pc # "idle"
                   /\ UNCHANGED <<alerts, tried, brokenFor>>
                   /\ \E plan : Return(plan, f)
      <4>1. CASE RecordPlan
        BY <1>0, <4>1, ModelAnswers DEF RecordPlan, ProvenanceInv
      <4>2. CASE TemplateRecord
        BY <1>0, <4>2, TemplateAnswers DEF TemplateRecord, ProvenanceInv
      <4> QED
        BY <3>1, <4>1, <4>2
    <3>3. n = Current /\ e = f
      <4>1. Len(answers) + 1 = Current
        BY <3>2 DEF IInv, WaitingInv, Current
      <4>2. PICK plan : Return(plan, f)
        BY <3>2
      <4> QED
        BY <1>0, <1>1, <2>2, <4>1, <4>2 DEF Return, Leave
    <3>4. ComesFrom(n, e)
      BY <3>2, <3>3
    <3>5. \A k \in ModelNumbers, v \in BOOLEAN : Tried(n, k, v)' <=> Tried(n, k, v)
      BY <1>0, <3>2 DEF Tried
    <3>6. \A k \in ModelNumbers : GivenUp(n, k)' <=> GivenUp(n, k)
      BY <3>2, <3>5 DEF GivenUp
    <3> QED
      BY <1>0, <3>4, <3>5, <3>6 DEF ComesFrom
  <2> QED
    BY <2>1, <2>2
<1>2. ASSUME pc' \in {"reason", "validate", "record"} PROVE ModelInHand'
  <2>1. CASE Recall
    <3>1. /\ pc' = "reason" /\ cur'.model = 1 /\ cur'.attempt = 0
          /\ UNCHANGED <<alerts, tried, brokenFor>>
      BY <2>1 DEF Recall, NoDecision
    <3>2. \A k \in ModelNumbers : NotAsked(Current, k)
      BY <2>1 DEF Recall, ProvenanceInv
    <3>3. 1 \in ModelNumbers /\ \A k \in ModelNumbers : ~(k < 1)
      BY <1>0, <2>1, ModelsDiffer DEF Recall, TypeOK, ModelNumbers
    <3>4. \A k \in ModelNumbers : NotAsked(Current, k)'
      BY <1>0, <3>1, <3>2 DEF NotAsked, Tried, Current
    <3>5. /\ \A k \in ModelNumbers' : k < cur'.model => GivenUp(Current, k)'
          /\ \A k \in ModelNumbers' : k > cur'.model => NotAsked(Current, k)'
      BY <1>0, <3>1, <3>3, <3>4
    <3>6. ~Tried(Current, cur.model, TRUE)'
      <4>1. \A k \in ModelNumbers : k = 1 => ~Tried(Current, k, TRUE)'
        BY <3>4 DEF NotAsked
      <4> QED
        BY <3>1, <3>3, <4>1 DEF Tried
    <3>7. (pc = "record" <=> Tried(Current, cur.model, TRUE))'
      BY <3>1, <3>6
    <3>8. (cur.attempt > 0 \/ pc \in {"validate", "record"} => Tried(Current, cur.model, FALSE))'
      BY <3>1
    <3> QED
      BY <3>5, <3>7, <3>8 DEF ModelInHand
  <2>2. CASE \E proposal \in Proposals \union {NoProposal} : Reason(proposal)
    <3>1. /\ pc = "reason" /\ pc' = "validate" /\ cur'.model = cur.model
          /\ Tries(FALSE) /\ UNCHANGED <<alerts, brokenFor>> /\ Current' = Current
      BY <1>0, <2>2 DEF Reason, Locals, Current
    <3>2. \A k \in ModelNumbers, v \in BOOLEAN :
            Tried(Current, k, v)' <=> (Tried(Current, k, v) \/ (k = cur.model /\ v = FALSE))
      BY <1>0, <3>1, TriesFacts DEF Tried
    <3>3. ModelInHand /\ cur.model \in ModelNumbers
      BY <1>0, <3>1 DEF ProvenanceInv
    <3>4. /\ \A k \in ModelNumbers' : k < cur'.model => GivenUp(Current, k)'
          /\ \A k \in ModelNumbers' : k > cur'.model => NotAsked(Current, k)'
      BY <1>0, <3>1, <3>2, <3>3 DEF ModelInHand, GivenUp, NotAsked, ModelNumbers
    <3>5. ~Tried(Current, cur.model, TRUE)' /\ Tried(Current, cur.model, FALSE)'
      BY <1>0, <3>1, <3>2, <3>3 DEF ModelInHand, Tried
    <3> QED
      BY <3>1, <3>4, <3>5 DEF ModelInHand
  <2>3. CASE Accept
    <3>1. /\ pc = "validate" /\ pc' = "record" /\ cur' = cur
          /\ Tries(TRUE) /\ UNCHANGED <<alerts, brokenFor>> /\ Current' = Current
      BY <2>3 DEF Accept, Current
    <3>2. \A k \in ModelNumbers, v \in BOOLEAN :
            Tried(Current, k, v)' <=> (Tried(Current, k, v) \/ (k = cur.model /\ v = TRUE))
      BY <1>0, <3>1, TriesFacts DEF Tried
    <3>3. ModelInHand /\ cur.model \in ModelNumbers
      BY <1>0, <3>1 DEF ProvenanceInv
    <3>4. /\ \A k \in ModelNumbers' : k < cur'.model => GivenUp(Current, k)'
          /\ \A k \in ModelNumbers' : k > cur'.model => NotAsked(Current, k)'
      BY <1>0, <3>1, <3>2, <3>3 DEF ModelInHand, GivenUp, NotAsked, ModelNumbers
    <3>5. Tried(Current, cur.model, TRUE)' /\ Tried(Current, cur.model, FALSE)'
      BY <1>0, <3>1, <3>2, <3>3 DEF ModelInHand, Tried
    <3> QED
      BY <3>1, <3>4, <3>5 DEF ModelInHand
  <2>4. CASE \/ Reject /\ UNCHANGED cur
             \/ Tick \/ UNCHANGED vars
    <3>1. /\ pc \in {"reason", "validate", "record"} /\ (pc = "record" <=> pc' = "record")
          /\ pc' = "validate" => pc = "validate"
          /\ UNCHANGED <<alerts, brokenFor, tried, cur>>
      BY <1>2, <2>4 DEF Reject, FailOver, Tick, vars
    <3>2. ModelInHand
      BY <3>1 DEF ProvenanceInv
    <3> QED
      BY <1>0, <3>1, <3>2 DEF ModelInHand, GivenUp, NotAsked, Tried, Current
  <2>5. CASE \/ Reject /\ FailOver
             \/ GraphRaises \/ RecordPlanRaises
    <3>1. /\ pc \in {"reason", "validate", "record"} /\ FailOver
          /\ UNCHANGED <<tried, alerts>> /\ (pc = "record" => Breaks)
          /\ pc \in {"validate", "record"} \/ cur.attempt > 0
      BY <2>5 DEF Reject, GraphRaises, RecordPlanRaises
    <3>2. ModelInHand /\ cur.model \in DOMAIN models
      BY <1>0, <3>1 DEF ProvenanceInv
    <3>3. Tried(Current, cur.model, FALSE)
      BY <3>1, <3>2 DEF ModelInHand
    <3>4. pc' = "reason"
      BY <1>2, <3>1 DEF FailOver
    <3> QED
      BY <1>0, <3>1, <3>2, <3>3, <3>4, FailOverGoesOn
  <2> QED
    BY <1>2, <2>1, <2>2, <2>3, <2>4, <2>5
       DEF Next, EngineStep, Decide, RetrievalRaises, Reject, RecordPlan, TemplateRecall,
           TemplateRecord, TemplateRecordRaises, Return, Raise, Leave
<1>3. ASSUME pc' = "recall" PROVE (\A k \in ModelNumbers : NotAsked(Current, k))'
  <2>1. CASE \E alert \in Alerts : Decide(alert)
    <3>1. Current' = Current + 1 /\ UNCHANGED tried
      BY <1>0, <2>1 DEF Decide, TypeOK, Current
    <3>2. \A x \in tried : x.alert # Current + 1
      BY <1>0 DEF TypeOK, Current
    <3> QED
      BY <3>1, <3>2 DEF NotAsked, Tried
  <2>2. CASE Tick \/ UNCHANGED vars
    BY <1>0, <1>3, <2>2 DEF Tick, vars, ProvenanceInv, NotAsked, Tried, Current
  <2> QED
    BY <1>3, <2>1, <2>2
       DEF Next, EngineStep, Recall, RetrievalRaises, Reason, Accept, Reject, GraphRaises,
           FailOver, RecordPlan, RecordPlanRaises, TemplateRecall, TemplateRecord,
           TemplateRecordRaises, Return, Raise, Leave
<1>4. ASSUME pc' \in {"template_recall", "template_record"}
      PROVE  (\A k \in ModelNumbers : GivenUp(Current, k))'
  <2>1. CASE \E alert \in Alerts : Decide(alert)
    <3>1. models = << >>
      BY <1>4, <2>1 DEF Decide
    <3>2. ModelNumbers = {}
      BY <3>1 DEF ModelNumbers
    <3> QED
      BY <1>0, <3>2
  <2>2. CASE TemplateRecall \/ Tick \/ UNCHANGED vars
    <3>1. /\ pc \in {"template_recall", "template_record"}
          /\ UNCHANGED <<alerts, tried, brokenFor>>
      BY <1>4, <2>2 DEF TemplateRecall, Tick, vars
    <3> QED
      BY <1>0, <3>1 DEF ProvenanceInv, GivenUp, Tried, Current
  <2>3. CASE Reject \/ GraphRaises \/ RecordPlanRaises
    <3>1. /\ pc \in {"reason", "validate", "record"} /\ FailOver
          /\ UNCHANGED <<tried, alerts>> /\ (pc = "record" => Breaks)
          /\ pc \in {"validate", "record"} \/ cur.attempt > 0
      BY <1>4, <2>3 DEF Reject, GraphRaises, RecordPlanRaises
    <3>2. ModelInHand /\ cur.model \in DOMAIN models
      BY <1>0, <3>1 DEF ProvenanceInv
    <3>3. Tried(Current, cur.model, FALSE)
      BY <3>1, <3>2 DEF ModelInHand
    <3>4. \A k \in ModelNumbers : GivenUp(Current, k)'
      BY <1>0, <1>4, <3>1, <3>2, <3>3, FailOverGoesOn
    <3> QED
      BY <1>0, <3>4
  <2> QED
    BY <1>4, <2>1, <2>2, <2>3
       DEF Next, EngineStep, Recall, RetrievalRaises, Reason, Accept, RecordPlan,
           TemplateRecord, TemplateRecordRaises, Return, Raise, Leave
<1> QED
  BY <1>1, <1>2, <1>3, <1>4 DEF ProvenanceInv

(* The engine field of an answer tells where its plan came from, for any   *)
(* proposals, number of attempts, and failures of graph and history.       *)
THEOREM ProvenanceTold == Spec => []ProvenanceTrue
<1>1. Init => ProvenanceInv
  BY DEF Init, ProvenanceInv
<1>2. IInv /\ ProvenanceInv /\ [Next]_vars => ProvenanceInv'
  BY NextProvenance
<1>3. IInv /\ ProvenanceInv => ProvenanceTrue
  <2> SUFFICES ASSUME IInv, ProvenanceInv, NEW n \in DOMAIN answers, ~answers[n].raised
               PROVE  LET rank == Rank(answers[n].engine)
                      IN  /\ \A k \in 1..rank - 1 : /\ Tried(n, k, FALSE)
                                                    /\ Tried(n, k, TRUE) => n \in brokenFor
                          /\ rank \in DOMAIN models => Tried(n, rank, TRUE)
                          /\ \A k \in rank + 1..Len(models) : ~Tried(n, k, FALSE)
    BY DEF ProvenanceTrue
  <2>1. PICK rank \in 1..Len(models) + 1 :
          /\ answers[n].engine = IF rank \in ModelNumbers THEN models[rank] ELSE "template"
          /\ \A k \in ModelNumbers : k < rank => GivenUp(n, k)
          /\ rank \in ModelNumbers => Tried(n, rank, TRUE)
          /\ \A k \in ModelNumbers : k > rank => ~Tried(n, k, FALSE)
    BY DEF ProvenanceInv, ComesFrom
  <2>2. /\ DOMAIN models = ModelNumbers /\ Len(models) \in 0..2
        /\ Rank(answers[n].engine) = rank
    <3>1. rank \in ModelNumbers \/ rank = Len(models) + 1
      BY ModelsDiffer DEF IInv, ModelNumbers
    <3> QED
      BY <2>1, <3>1, ModelsDiffer DEF IInv, ModelNumbers
  <2>3. /\ \A k \in 1..rank - 1 : k \in ModelNumbers /\ k < rank
        /\ \A k \in rank + 1..Len(models) : k \in ModelNumbers /\ k > rank
    BY <2>1, <2>2 DEF ModelNumbers
  <2> QED
    BY <2>1, <2>2, <2>3 DEF GivenUp
<1> QED
  BY <1>1, <1>2, <1>3, InvariantHolds, PTL DEF Spec

=============================================================================
