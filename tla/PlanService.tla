---------------------------- MODULE PlanService ----------------------------
(***************************************************************************)
(* What a decision engine promises its caller (agentic/base.py, and the    *)
(* docstring of LLMDecisionEngine): every alert is answered, with a plan   *)
(* of playbooks allowed for that alert whatever a model proposed.  An      *)
(* exception is an answer only if the history or the retrieval broke.      *)
(***************************************************************************)
EXTENDS Naturals, Sequences

CONSTANTS
  Alerts          (* records with the field allowed, a set of playbooks     *)

VARIABLES
  alerts,         (* the alerts handed over so far                          *)
  answers,        (* the answers to them                                    *)
  broken          (* something broke since the last alert                   *)

vars == <<alerts, answers, broken>>

Waiting == Len(answers) < Len(alerts)

(* A plan stands for the set of playbooks it invokes.                      *)
PlansFor(alert) == [raised : {FALSE}, plan : SUBSET alert.allowed]
Raised          == [raised |-> TRUE, plan |-> {}]

Init ==
  /\ alerts = << >>
  /\ answers = << >>
  /\ broken = FALSE

Ask(alert) ==
  /\ ~Waiting
  /\ alerts' = Append(alerts, alert)
  /\ broken' = FALSE
  /\ UNCHANGED answers

Break ==
  /\ Waiting
  /\ broken' = TRUE
  /\ UNCHANGED <<alerts, answers>>

AnswerWith(answer) ==
  /\ answers' = Append(answers, answer)
  /\ UNCHANGED alerts

Answer ==
  /\ Waiting
  /\ \/ /\ \E plan \in PlansFor(alerts[Len(alerts)]) : AnswerWith(plan)
        /\ UNCHANGED broken
     \/ AnswerWith(Raised) /\ broken' = TRUE

Next ==
  \/ \E alert \in Alerts : Ask(alert)
  \/ Break
  \/ Answer

Safety == Init /\ [][Next]_vars

(* Nobody waits for ever.                                                  *)
Spec == Safety /\ []<>~Waiting

=============================================================================
