--------------------------- MODULE TrustBoundary ---------------------------
(***************************************************************************)
(* AdaptiveSemanticTrustBoundary.evaluate() (trust_boundary/boundary.py)   *)
(* with the stages it calls and the EntityHistory they read and write.     *)
(*                                                                         *)
(* One process evaluates one submission at a time.  evaluate() is split    *)
(* where it reads the clock, writes to the history file or the audit log,  *)
(* or calls the executor: time passes between those steps, each may raise, *)
(* and the process may end between them.                                   *)
(*                                                                         *)
(* Data is abstracted to what the control depends on.  The checks of       *)
(* targets, parameters, rationale and identifiers are one verdict per      *)
(* stage, and the trust scores are the level they are bucketed into; both  *)
(* take any value.  The audit log is the sequence of its entries: how it   *)
(* is written and verified is module AuditLog.                             *)
(***************************************************************************)
EXTENDS Integers, Sequences, FiniteSetsExt

CONSTANTS
  Agents,         (* agent_id's                                             *)
  Nonces,         (* nonces of sessions                                     *)
  Capabilities,   (* capabilities an action may name                        *)
  LowRisk,        (* policy["capability_whitelist"]["low_risk"]             *)
  HighRisk,       (* policy["capability_whitelist"]["high_risk"]            *)
  Plans,          (* plans submitted: sequences of capabilities             *)
  Playbooks,      (* allowed_playbooks of the threat contexts               *)
  MaxAge,         (* session_max_age_seconds, in ticks                      *)
  QuotaWindow,    (* the hour of the quota, in ticks                        *)
  Quota,          (* entity_action_quota_per_hour                           *)
  MaxActions,     (* max_actions_per_plan                                   *)
  MaxSkew,        (* how far ahead of the clock issued_at may be            *)
  Reports,        (* what executor.execute() does: "true", "false", "raises"*)
  Faults,         (* the failures that may happen, see FaultKinds           *)
  MaxTime,        (* bound: the clock, and issued_at                        *)
  MaxEvaluations  (* bound: submissions                                     *)

FaultKinds == {"crash", "history_write", "audit_write", "tampered_log"}

ASSUME PolicyAssumption ==
  /\ LowRisk \subseteq Capabilities
  /\ HighRisk \subseteq Capabilities
  /\ Plans \subseteq Seq(Capabilities)
  /\ Playbooks \subseteq SUBSET Capabilities
ASSUME LimitsAssumption ==
  /\ {MaxAge, QuotaWindow, Quota, MaxActions, MaxSkew} \subseteq Nat
  /\ {MaxTime, MaxEvaluations} \subseteq Nat
ASSUME FailureAssumption ==
  /\ Reports \subseteq {"true", "false", "raises"}
  /\ Faults \subseteq FaultKinds

VARIABLES
  clock,          (* datetime.now()                                         *)
  pc,             (* the step of evaluate() that comes next                 *)
  cur,            (* what evaluate() knows of the submission                *)
  persist,        (* the history has a persist_path                         *)
  mem,            (* EntityHistory._events                                  *)
  disk,           (* what was written to persist_path, write by write       *)
  audit,          (* the entries of the audit log                           *)
  refusing,       (* the logger found its log tampered with at start-up     *)
  offered,        (* history: every submission, in order                    *)
  effects,        (* history: every action an executor carried out          *)
  early,          (* history: the evaluations that noted the nonce of a     *)
                  (* session issued later than that                         *)
  crashed         (* history: the process ended once                        *)

vars == <<clock, pc, cur, persist, mem, disk, audit, refusing, offered,
          effects, early, crashed>>

-----------------------------------------------------------------------------
Session    == [agent: Agents, nonce: Nonces, issued: Nat]
Submission == [session: Session, plan: Plans, allowed: Playbooks]

(* The number of the evaluation in hand.                                   *)
Current == Len(offered)

Event == [kind: {"nonce_used"}, agent: Agents, at: Nat, nonce: Nonces]
         \union
         [kind: {"trust_decision"}, agent: Agents, at: Nat,
          caps: Plans, eval: Nat]

(* A write to the history file leaves a whole line or, if it is cut short, *)
(* the text without the line break, or less than the text.                 *)
CutShort == {"text", "part"}
Write    == [event: Event, left: CutShort \union {"line"}]

TrustLevels == {"low", "medium", "high", "verified"}
AutonomyMode ==
  [level \in TrustLevels |->
     CASE level = "low"      -> "read_only"
       [] level = "medium"   -> "recommendation"
       [] level = "high"     -> "restricted_action"
       [] level = "verified" -> "autonomous_execution"]
Modes == {"none", "read_only", "recommendation",
          "restricted_action", "autonomous_execution"}

Statuses == {"not_attempted", "failed", "partially_executed", "executed"}

Entry == [eval: Nat, accepted: BOOLEAN, mode: Modes, status: Statuses]

Effect == [eval: Nat, agent: Agents, at: Nat, cap: Capabilities, index: Nat]

(* What evaluate() holds: the submission, whether stage 1 has no reason to *)
(* reject it so far, the autonomy mode, which actions of the plan are      *)
(* eligible, which of the plan's actions comes next, and how many actions  *)
(* the executor reported as done.                                          *)
Evaluation == [sub: Submission, ok: BOOLEAN, accepted: BOOLEAN, mode: Modes,
               eligible: SUBSET Nat, next: Nat, executed: Nat]

(* Mutant of Fresh: the limit on a plan stands in for its length.          *)
FreshOfFullLength(s) == [sub |-> s, ok |-> TRUE, accepted |-> FALSE,
                         mode |-> "none", eligible |-> 1..MaxActions,
                         next |-> 1, executed |-> 0]

Fresh(s) == [sub |-> s, ok |-> TRUE, accepted |-> FALSE, mode |-> "none",
             eligible |-> {}, next |-> 1, executed |-> 0]

session == cur.sub.session
plan    == cur.sub.plan

Steps == {"down", "idle", "nonce", "age", "quota", "controls", "trust",
          "enforce", "record", "audit"}

InEvaluation == pc \notin {"down", "idle"}

TypeOK ==
  /\ clock \in Nat
  /\ pc \in Steps
  /\ InEvaluation => cur \in Evaluation /\ cur.eligible \subseteq DOMAIN plan
  /\ persist \in BOOLEAN
  /\ mem \in Seq(Event)
  /\ disk \in Seq(Write)
  /\ audit \in Seq(Entry)
  /\ refusing \in BOOLEAN
  /\ offered \in Seq(Submission)
  /\ effects \in SUBSET Effect
  /\ early \subseteq Nat
  /\ crashed \in BOOLEAN

NoEvaluation == << >>

Init ==
  /\ clock = 0
  /\ pc = "down"
  /\ cur = NoEvaluation
  /\ persist \in BOOLEAN
  /\ mem = << >>
  /\ disk = << >>
  /\ audit = << >>
  /\ refusing = FALSE
  /\ offered = << >>
  /\ effects = {}
  /\ early = {}
  /\ crashed = FALSE

-----------------------------------------------------------------------------
(* EntityHistory.                                                          *)

(* Mutant of Recent: an event exactly as old as the window has left it.    *)
RecentExclusive(agent, kind, within) ==
  {i \in DOMAIN mem : /\ mem[i].agent = agent
                      /\ mem[i].kind = kind
                      /\ mem[i].at > clock - within}

(* recent(): the events of a kind not older than a window.                 *)
Recent(agent, kind, within) ==
  {i \in DOMAIN mem : /\ mem[i].agent = agent
                      /\ mem[i].kind = kind
                      /\ mem[i].at >= clock - within}

(* A write runs into what the one before it left without a line break.  A  *)
(* line can be read if it is the text of one event.                        *)
Legible(i) ==
  /\ i > 1 => disk[i - 1].left = "line"
  /\ disk[i].left = "line" \/ (disk[i].left = "text" /\ i = Len(disk))

Replayable == \A i \in DOMAIN disk : Legible(i)

(* The events written to the file, as they are replayed when it can be.    *)
Filed == [i \in DOMAIN disk |-> disk[i].event]

(* append() puts the event in memory first and writes its line next.       *)
Remember(event) ==
  /\ mem' = Append(mem, event)
  /\ disk' = IF persist THEN Append(disk, [event |-> event, left |-> "line"])
                        ELSE disk

RememberRaises(event) ==
  /\ "history_write" \in Faults
  /\ persist
  /\ mem' = Append(mem, event)
  /\ \/ UNCHANGED disk
     \/ \E left \in CutShort : disk' = Append(disk, [event |-> event, left |-> left])

(* The process starts: the history is replayed from its file, which must   *)
(* be readable, and the logger verifies the audit log.                     *)
Start ==
  /\ pc = "down"
  /\ persist => Replayable
  /\ pc' = "idle"
  /\ mem' = IF persist THEN Filed ELSE << >>
  /\ refusing' \in IF "tampered_log" \in Faults THEN BOOLEAN ELSE {FALSE}
  /\ UNCHANGED <<clock, cur, persist, disk, audit, offered, effects, early,
                 crashed>>

(* The process ends, in the middle of an evaluation or between two.        *)
Crash ==
  /\ "crash" \in Faults
  /\ pc # "down"
  /\ pc' = "down"
  /\ cur' = NoEvaluation
  /\ mem' = << >>
  /\ refusing' = FALSE
  /\ crashed' = TRUE
  /\ UNCHANGED <<clock, persist, disk, audit, offered, effects, early>>

Tick ==
  /\ clock < MaxTime
  /\ clock' = clock + 1
  /\ UNCHANGED <<pc, cur, persist, mem, disk, audit, refusing,
                 offered, effects, early, crashed>>

-----------------------------------------------------------------------------
(* evaluate() is over, by a decision or an exception; the process goes on. *)
Leave ==
  /\ pc' = "idle"
  /\ cur' = NoEvaluation

Submit(s) ==
  /\ pc = "idle"
  /\ Current < MaxEvaluations
  /\ s.session.issued <= clock + MaxSkew
  /\ offered' = Append(offered, s)
  /\ cur' = Fresh(s)
  /\ pc' = "nonce"
  /\ UNCHANGED <<clock, persist, mem, disk, audit, refusing,
                 effects, early, crashed>>

-----------------------------------------------------------------------------
(* Stage 1, preprocessing.run(): every check is made, whatever the ones    *)
(* before it found.                                                        *)

NonceUsed == [kind |-> "nonce_used", agent |-> session.agent,
              at |-> clock, nonce |-> session.nonce]

NonceKnown ==
  \E i \in Recent(session.agent, "nonce_used", MaxAge) :
    mem[i].nonce = session.nonce

CheckNonce ==
  /\ pc = "nonce"
  /\ \/ /\ NonceKnown
        /\ cur' = [cur EXCEPT !.ok = FALSE]
        /\ UNCHANGED <<mem, disk, early>>
     \/ /\ ~NonceKnown
        /\ Remember(NonceUsed)
        /\ early' = IF session.issued > clock THEN early \union {Current} ELSE early
        /\ UNCHANGED cur
  /\ pc' = "age"
  /\ UNCHANGED <<clock, persist, audit, refusing, offered, effects, crashed>>

CheckNonceRaises ==
  /\ pc = "nonce"
  /\ ~NonceKnown
  /\ RememberRaises(NonceUsed)
  /\ Leave
  /\ UNCHANGED <<clock, persist, audit, refusing, offered, effects, early, crashed>>

FreshSession == clock - session.issued \in 0..MaxAge

CheckAge(contentSound) ==
  /\ pc = "age"
  /\ cur' = [cur EXCEPT !.ok = @ /\ FreshSession
                                 /\ Len(plan) \in 1..MaxActions
                                 /\ contentSound]
  /\ pc' = "quota"
  /\ UNCHANGED <<clock, persist, mem, disk, audit, refusing,
                 offered, effects, early, crashed>>

(* Mutant of RecentActionCount: plans are counted, not their actions.      *)
RecentPlanCount ==
  Cardinality(Recent(session.agent, "trust_decision", QuotaWindow))

(* The actions of the recent decisions, each by event and place.           *)
RecentActions ==
  UNION {{i} \X DOMAIN mem[i].caps :
           i \in Recent(session.agent, "trust_decision", QuotaWindow)}

RecentActionCount == Cardinality(RecentActions)

(* Mutant of CheckQuota: a rejection skips the history.                    *)
CheckQuotaRejectsAtOnce(rationaleSound) ==
  LET ok == /\ cur.ok
            /\ RecentActionCount + Len(plan) <= Quota
            /\ rationaleSound
  IN  /\ pc = "quota"
      /\ cur' = [cur EXCEPT !.ok = ok]
      /\ pc' = IF ok THEN "controls" ELSE "audit"
      /\ UNCHANGED <<clock, persist, mem, disk, audit, refusing,
                     offered, effects, early, crashed>>

CheckQuota(rationaleSound) ==
  LET ok == /\ cur.ok
            /\ RecentActionCount + Len(plan) <= Quota
            /\ rationaleSound
  IN  /\ pc = "quota"
      /\ cur' = [cur EXCEPT !.ok = ok]
      /\ pc' = IF ok THEN "controls" ELSE "record"
      /\ UNCHANGED <<clock, persist, mem, disk, audit, refusing,
                     offered, effects, early, crashed>>

-----------------------------------------------------------------------------
(* Stage 2, deterministic_controls.run().                                  *)

Known == LowRisk \union HighRisk

(* Mutant of CheckControls: one authorised action clears the plan.         *)
CheckControlsOfAny(wellFormed) ==
  /\ pc = "controls"
  /\ pc' = IF /\ wellFormed
              /\ \E i \in DOMAIN plan : plan[i] \in Known \intersect cur.sub.allowed
           THEN "trust" ELSE "record"
  /\ UNCHANGED <<clock, cur, persist, mem, disk, audit, refusing,
                 offered, effects, early, crashed>>

CheckControls(wellFormed) ==
  /\ pc = "controls"
  /\ pc' = IF /\ wellFormed
              /\ \A i \in DOMAIN plan : plan[i] \in Known \intersect cur.sub.allowed
           THEN "trust" ELSE "record"
  /\ UNCHANGED <<clock, cur, persist, mem, disk, audit, refusing,
                 offered, effects, early, crashed>>

-----------------------------------------------------------------------------
(* Stage 3 and capability enforcement.                                     *)

Eligible(cap, mode) ==
  /\ mode \in {"restricted_action", "autonomous_execution"}
  /\ cap \in Known \intersect cur.sub.allowed
  /\ mode = "restricted_action" => cap \in LowRisk

Regulate(level) ==
  LET mode     == AutonomyMode[level]
      eligible == {i \in DOMAIN plan : Eligible(plan[i], mode)}
  IN  /\ pc = "trust"
      /\ cur' = [cur EXCEPT !.mode = mode, !.accepted = mode # "read_only",
                            !.eligible = eligible]
      /\ pc' = IF eligible = {} THEN "record" ELSE "enforce"
      /\ UNCHANGED <<clock, persist, mem, disk, audit, refusing,
                     offered, effects, early, crashed>>

(* executor.execute() on the next eligible action, the i-th of the plan.   *)
(* An executor may report failure, or raise, for an action that was        *)
(* carried out: the answer came too late.                                  *)
Remaining(n) == {i \in cur.eligible : i >= n}

IsNext(i) == i \in Remaining(cur.next) /\ \A j \in Remaining(cur.next) : i <= j

ActionEffect(i) == [eval |-> Current, agent |-> session.agent, at |-> clock,
                    cap |-> plan[i], index |-> i]

CarriesOut(i, done) ==
  effects' = IF done THEN effects \union {ActionEffect(i)} ELSE effects

Execute(done, report) ==
  /\ pc = "enforce"
  /\ report # "raises"
  /\ report = "true" => done
  /\ \E i \in cur.eligible :
       /\ IsNext(i)
       /\ CarriesOut(i, done)
       /\ cur' = [cur EXCEPT !.next = i + 1,
                             !.executed = IF report = "true" THEN @ + 1 ELSE @]
       /\ pc' = IF Remaining(i + 1) = {} THEN "record" ELSE "enforce"
  /\ UNCHANGED <<clock, persist, mem, disk, audit, refusing,
                 offered, early, crashed>>

ExecuteRaises(done) ==
  /\ pc = "enforce"
  /\ "raises" \in Reports
  /\ \E i \in cur.eligible : IsNext(i) /\ CarriesOut(i, done)
  /\ Leave
  /\ UNCHANGED <<clock, persist, mem, disk, audit, refusing,
                 offered, early, crashed>>

-----------------------------------------------------------------------------
(* _finalize(): the decision goes into the history and then into the audit *)
(* log.                                                                    *)

TrustDecision == [kind |-> "trust_decision", agent |-> session.agent,
                  at |-> clock, caps |-> plan, eval |-> Current]

RecordDecision ==
  /\ pc = "record"
  /\ Remember(TrustDecision)
  /\ pc' = "audit"
  /\ UNCHANGED <<clock, cur, persist, audit, refusing, offered, effects, early, crashed>>

RecordDecisionRaises ==
  /\ pc = "record"
  /\ RememberRaises(TrustDecision)
  /\ Leave
  /\ UNCHANGED <<clock, persist, audit, refusing, offered, effects, early, crashed>>

(* Mutant of ExecutionStatus: a partial success passes for a success.      *)
ExecutionStatusOfAny ==
  CASE cur.eligible = {}                     -> "not_attempted"
    [] cur.eligible # {} /\ cur.executed = 0 -> "failed"
    [] OTHER                                 -> "executed"

(* _execution_status(); "executed" stands for "simulated" as well, which   *)
(* is the same report of the other executor.                               *)
ExecutionStatus ==
  CASE cur.eligible = {}                           -> "not_attempted"
    [] cur.eligible # {} /\ cur.executed = 0       -> "failed"
    [] cur.executed \in 1..Cardinality(cur.eligible) - 1
                                                   -> "partially_executed"
    [] OTHER                                       -> "executed"

AuditEntry == [eval |-> Current, accepted |-> cur.accepted, mode |-> cur.mode,
               status |-> ExecutionStatus]

AuditDecision ==
  /\ pc = "audit"
  /\ ~refusing
  /\ audit' = Append(audit, AuditEntry)
  /\ Leave
  /\ UNCHANGED <<clock, persist, mem, disk, refusing,
                 offered, effects, early, crashed>>

AuditDecisionRaises ==
  /\ pc = "audit"
  /\ refusing \/ "audit_write" \in Faults
  /\ Leave
  /\ UNCHANGED <<clock, persist, mem, disk, audit, refusing,
                 offered, effects, early, crashed>>

-----------------------------------------------------------------------------
SubmitSome ==
  \E agent \in Agents, nonce \in Nonces, issued \in 0..MaxTime,
     p \in Plans, allowed \in Playbooks :
    Submit([plan |-> p, allowed |-> allowed,
            session |-> [agent |-> agent, nonce |-> nonce, issued |-> issued]])

Preprocessing ==
  \/ CheckNonce
  \/ CheckNonceRaises
  \/ \E sound \in BOOLEAN : CheckAge(sound) \/ CheckQuota(sound)

Enforcement ==
  \/ \E level \in TrustLevels : Regulate(level)
  \/ \E done \in BOOLEAN, report \in Reports : Execute(done, report)
  \/ \E done \in BOOLEAN : ExecuteRaises(done)

Finalize ==
  \/ RecordDecision
  \/ RecordDecisionRaises
  \/ AuditDecision
  \/ AuditDecisionRaises

Next ==
  \/ Start
  \/ Crash
  \/ Tick
  \/ SubmitSome
  \/ Preprocessing
  \/ \E wellFormed \in BOOLEAN : CheckControls(wellFormed)
  \/ Enforcement
  \/ Finalize

Spec == Init /\ [][Next]_vars

-----------------------------------------------------------------------------
(* Properties.                                                             *)

(* What a restart would find in the history, or what is in it.             *)
History == IF pc # "down" THEN mem ELSE IF persist THEN Filed ELSE << >>

IsDecision(event, eval) == event.kind = "trust_decision" /\ event.eval = eval

DecisionIn(history, eval) == \E i \in DOMAIN history : IsDecision(history[i], eval)

EffectsOf(eval) == {x \in effects : x.eval = eval}

(* A session that is presented again, at any time, in any order with other *)
(* submissions and across exceptions and restarts, acts a second time only *)
(* if the nonce of the evaluation that acted first was noted before the    *)
(* session was issued: that nonce may leave the window while the age is    *)
(* still accepted.  For every other session the nonce is known for as long *)
(* as its age is accepted.  Without a history file this is promised up to  *)
(* the first restart only.                                                 *)
SessionActsOnce ==
  persist \/ ~crashed =>
    \A x, y \in effects :
      offered[x.eval].session = offered[y.eval].session /\ x.eval < y.eval =>
        x.eval \in early

(* The actions carried out for an agent within the last hour, by           *)
(* evaluations that reached the history or by the one in hand.             *)
Counted(a) ==
  {x \in effects : /\ x.agent = a
                   /\ clock - x.at <= QuotaWindow
                   /\ \/ InEvaluation /\ x.eval = Current
                      \/ DecisionIn(History, x.eval)}

(* The actions carried out for an agent within any hour stay within the    *)
(* quota, over all evaluations that reached the history and the one in     *)
(* hand, although an evaluation is counted only after it has acted.        *)
QuotaKept == \A a \in Agents : Cardinality(Counted(a)) <= Quota

(* Whatever acts belongs to a plan that was cleared as a whole: one action *)
(* that is unknown or not authorised for the incident, or one action too   *)
(* many, keeps every action of its plan from being carried out, and so     *)
(* does a session from the future.                                         *)
OnlyClearedPlansAct ==
  \A x \in effects :
    LET s == offered[x.eval]
    IN  /\ \A i \in DOMAIN s.plan : s.plan[i] \in Known \intersect s.allowed
        /\ Len(s.plan) <= MaxActions
        /\ s.session.issued <= x.at

(* An audit entry tells what became of the plan: "executed" means that     *)
(* each action the autonomy mode lets run was carried out, and a plan      *)
(* reported as rejected or not attempted touched nothing.                  *)
StatusTruthful ==
  \A n \in DOMAIN audit :
    LET r    == audit[n]
        p    == offered[r.eval].plan
        runs == {i \in DOMAIN p : r.mode = "restricted_action" => p[i] \in LowRisk}
    IN  /\ r.status = "executed" => {x.index : x \in EffectsOf(r.eval)} = runs
        /\ r.status = "not_attempted" \/ ~r.accepted => EffectsOf(r.eval) = {}

(* A decision reaches the audit log only after it reached the history,     *)
(* accepted or rejected: it is in memory, so that the quota and the        *)
(* behaviour score of its agent count it, and written to the history file. *)
(* There it is a line that can be read, unless a line was cut short and    *)
(* its own, or another, ran into that: then no start gets past the file,   *)
(* and none goes on without the decision.                                  *)
AuditedIsRecorded ==
  persist => \A n \in DOMAIN audit :
    /\ pc # "down" => DecisionIn(mem, audit[n].eval)
    /\ \E i \in DOMAIN disk : /\ IsDecision(disk[i].event, audit[n].eval)
                              /\ disk[i].left = "line"
                              /\ Replayable => Legible(i)

(* The comment on the nonce check (preprocessing.py:81-86) holds a nonce   *)
(* "spent" the moment it is offered, whether or not its plan is accepted:  *)
(* no session acts that an earlier submission had offered.                 *)
SpentNonceRefused ==
  \A x \in effects : \A n \in 1..x.eval - 1 :
    offered[n].session # offered[x.eval].session

(* "Every trust DECISION still flows through the existing, unmodified      *)
(* hash-chained audit log" (production_executor.py:16): a decision in the  *)
(* history whose evaluation is over is in the audit log.                   *)
EveryDecisionAudited ==
  \A i \in DOMAIN mem :
    /\ mem[i].kind = "trust_decision"
    /\ ~(InEvaluation /\ mem[i].eval = Current)
    => \E n \in DOMAIN audit : audit[n].eval = mem[i].eval

-----------------------------------------------------------------------------
(* The inductive invariants: BaseInv behind OnlyClearedPlansAct, and IInv  *)
(* behind SessionActsOnce.                                                 *)

SessionOf(eval) == offered[eval].session

EvaluationInv ==
  /\ InEvaluation => Current > 0 /\ cur.sub = offered[Current]
  /\ \A x \in effects : x.eval \in DOMAIN offered
  /\ pc \in {"nonce", "age", "quota", "controls", "trust"} =>
       \A x \in effects : x.eval # Current
  /\ pc \in {"controls", "trust", "enforce"} => cur.ok
  /\ pc = "down" /\ ~crashed => effects = {}

ClearedSubmission(s) ==
  /\ \A i \in DOMAIN s.plan : s.plan[i] \in Known \intersect s.allowed
  /\ Len(s.plan) <= MaxActions

ClearedInv ==
  /\ pc \in {"quota", "controls", "trust", "enforce"} /\ cur.ok =>
       Len(plan) <= MaxActions /\ session.issued <= clock
  /\ pc \in {"trust", "enforce"} => ClearedSubmission(cur.sub)
  /\ \A x \in effects : /\ ClearedSubmission(offered[x.eval])
                        /\ SessionOf(x.eval).issued <= x.at

BaseInv == TypeOK /\ EvaluationInv /\ ClearedInv

HistoryKept == persist \/ ~crashed

(* The history h holds the nonce of session s, noted when s was already    *)
(* issued: for as long as s is fresh, recent() finds it.                   *)
NonceNoted(h, s) ==
  \E i \in DOMAIN h : /\ h[i].kind = "nonce_used"
                      /\ h[i].agent = s.agent
                      /\ h[i].nonce = s.nonce
                      /\ h[i].at >= s.issued

(* Both in memory, while there is one, and in the file, if there is one.   *)
Noted(s) ==
  /\ pc # "down" => NonceNoted(mem, s)
  /\ persist => NonceNoted(Filed, s)

NonceInv ==
  HistoryKept =>
    /\ \A x \in effects : x.eval \notin early => Noted(SessionOf(x.eval))
    /\ pc \in {"age", "quota", "controls", "trust", "enforce"} /\ cur.ok =>
         Current \in early \/ Noted(session)

TooOld == clock - session.issued > MaxAge

(* A session that acted before is recognised by its nonce, or too old by   *)
(* the time its nonce is no longer looked for, or it was noted too early.  *)
ReplayInv ==
  HistoryKept =>
    /\ pc = "age" /\ cur.ok =>
         \A x \in effects : SessionOf(x.eval) = session =>
           TooOld \/ x.eval \in early
    /\ pc \in {"quota", "controls", "trust", "enforce"} /\ cur.ok =>
         \A x \in effects : SessionOf(x.eval) = session =>
           x.eval = Current \/ x.eval \in early

IInv ==
  /\ BaseInv
  /\ NonceInv
  /\ ReplayInv
  /\ SessionActsOnce

-----------------------------------------------------------------------------
(* The inductive invariant behind QuotaKept.                               *)

(* An effect is of one action of the plan of its evaluation, already past. *)
EffectTrue(x) ==
  /\ x.agent = SessionOf(x.eval).agent
  /\ x.index \in DOMAIN offered[x.eval].plan
  /\ x.at <= clock
  /\ pc = "enforce" /\ x.eval = Current => x.index < cur.next

(* A decision in the history h counts all its actions, no earlier than     *)
(* they were carried out, and comes after them.                            *)
DecisionsTrue(h) ==
  \A i \in DOMAIN h : h[i].kind = "trust_decision" =>
    /\ h[i].eval \in DOMAIN offered
    /\ h[i].agent = SessionOf(h[i].eval).agent
    /\ h[i].caps = offered[h[i].eval].plan
    /\ \A x \in effects : x.eval = h[i].eval => x.at <= h[i].at
    /\ InEvaluation /\ pc # "audit" => h[i].eval # Current

EffectsInv ==
  /\ IsFiniteSet(effects)
  /\ \A x \in effects : EffectTrue(x)
  /\ \A x, y \in effects : x.eval = y.eval /\ x.index = y.index => x = y

DecisionsInv ==
  /\ DecisionsTrue(mem)
  /\ DecisionsTrue(Filed)
  /\ persist /\ pc # "down" =>
       \A n \in DOMAIN offered : DecisionIn(Filed, n) => DecisionIn(mem, n)

(* What the quota left room for is still there while the plan acts.        *)
RoomInv ==
  pc \in {"controls", "trust", "enforce", "record"} /\ cur.ok =>
    RecentActionCount + Len(plan) <= Quota

QuotaInv == EffectsInv /\ DecisionsInv /\ RoomInv /\ QuotaKept

=============================================================================
