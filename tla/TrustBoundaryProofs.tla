------------------------ MODULE TrustBoundaryProofs ------------------------
(***************************************************************************)
(* Proofs about TrustBoundary, for any agents, policy, plans, limits and   *)
(* faults, and any number of evaluations, exceptions and restarts.         *)
(***************************************************************************)
EXTENDS TrustBoundary, SequenceTheorems, FiniteSetTheorems, TLAPS

-----------------------------------------------------------------------------
(* Type correctness.                                                       *)

(* What an evaluation in hand knows of its submission.                     *)
LEMMA InHandFacts ==
  ASSUME TypeOK, InEvaluation
  PROVE  /\ cur \in Evaluation
         /\ cur.sub \in Submission
         /\ session \in Session
         /\ plan \in Plans
         /\ plan \in Seq(Capabilities)
         /\ cur.eligible \subseteq DOMAIN plan
         /\ DOMAIN plan \subseteq Nat
<1>1. cur \in Evaluation /\ cur.eligible \subseteq DOMAIN plan
  BY DEF TypeOK
<1>2. cur.sub \in Submission
  BY <1>1 DEF Evaluation
<1>3. session \in Session /\ plan \in Plans
  BY <1>2 DEF Submission, session, plan
<1>4. plan \in Seq(Capabilities)
  BY <1>3, PolicyAssumption
<1>5. DOMAIN plan \subseteq Nat
  BY <1>4
<1> QED
  BY <1>1, <1>2, <1>3, <1>4, <1>5

LEMMA EventTypes ==
  ASSUME TypeOK, InEvaluation
  PROVE  NonceUsed \in Event /\ TrustDecision \in Event
<1>1. session \in Session /\ plan \in Plans
  BY InHandFacts
<1>2. Current \in Nat /\ clock \in Nat
  BY DEF TypeOK, Current
<1>3. NonceUsed \in Event
  BY <1>1, <1>2 DEF NonceUsed, Event, Session
<1>4. TrustDecision \in Event
  BY <1>1, <1>2 DEF TrustDecision, Event, Session
<1> QED
  BY <1>3, <1>4

(* Whatever append() does to the history, an event goes in.                *)
LEMMA RememberTypes ==
  ASSUME TypeOK, NEW e \in Event, Remember(e) \/ RememberRaises(e)
  PROVE  /\ mem' \in Seq(Event)
         /\ disk' \in Seq(Write)
         /\ disk' = disk \/ \E w \in Write : w.event = e /\ disk' = Append(disk, w)
<1>1. mem \in Seq(Event) /\ disk \in Seq(Write)
  BY DEF TypeOK
<1>2. Append(mem, e) \in Seq(Event)
  BY <1>1
<1>3. ASSUME NEW left \in CutShort \union {"line"}
      PROVE  [event |-> e, left |-> left] \in Write
  BY DEF Write
<1>4. disk' = disk \/ \E w \in Write : w.event = e /\ disk' = Append(disk, w)
  BY <1>3 DEF Remember, RememberRaises, CutShort
<1>5. disk' \in Seq(Write)
  BY <1>1, <1>4
<1>6. mem' \in Seq(Event)
  BY <1>2 DEF Remember, RememberRaises
<1> QED
  BY <1>4, <1>5, <1>6

(* The events of the file, and how they grow with its writes.              *)
LEMMA EventsOfWrites ==
  ASSUME NEW d \in Seq(Write), NEW f, f = [i \in DOMAIN d |-> d[i].event]
  PROVE  f \in Seq(Event) /\ Len(f) = Len(d) /\ DOMAIN f = DOMAIN d
<1>1. Len(d) \in Nat /\ DOMAIN d = 1..Len(d)
  OBVIOUS
<1>2. \A i \in 1..Len(d) : d[i].event \in Event
  <2>1. \A i \in 1..Len(d) : d[i] \in Write
    OBVIOUS
  <2> QED
    BY <2>1 DEF Write
<1>3. f \in [1..Len(d) -> Event]
  BY <1>1, <1>2
<1>4. f \in Seq(Event)
  BY <1>1, <1>3, SeqDef
<1>5. DOMAIN f = 1..Len(d) /\ DOMAIN f = 1..Len(f) /\ Len(f) \in Nat
  BY <1>3, <1>4, LenProperties
<1>6. Len(f) = Len(d)
  BY <1>1, <1>5
<1> QED
  BY <1>1, <1>4, <1>5, <1>6

LEMMA FiledTypes ==
  ASSUME TypeOK
  PROVE  /\ Filed \in Seq(Event)
         /\ DOMAIN Filed = DOMAIN disk
         /\ \A i \in DOMAIN disk : Filed[i] = disk[i].event
BY EventsOfWrites DEF TypeOK, Filed

LEMMA FiledGrows ==
  ASSUME TypeOK, NEW w \in Write, disk' = Append(disk, w)
  PROVE  Filed' = Append(Filed, w.event)
<1>1. disk \in Seq(Write)
  BY DEF TypeOK
<1>2. PICK d : d = disk'
  OBVIOUS
<1>3. PICK f : f = Filed'
  OBVIOUS
<1>4. /\ d \in Seq(Write)
      /\ Len(d) = Len(disk) + 1
      /\ DOMAIN disk = 1..Len(disk)
      /\ DOMAIN d = 1..Len(disk) + 1
      /\ \A i \in 1..Len(disk) : d[i] = disk[i]
      /\ d[Len(disk) + 1] = w
      /\ Len(disk) \in Nat
  BY <1>1, <1>2
<1>5. f = [i \in DOMAIN d |-> d[i].event]
  BY <1>2, <1>3 DEF Filed
<1>6. f \in Seq(Event) /\ Len(f) = Len(d) /\ DOMAIN f = DOMAIN d
  BY <1>4, <1>5, EventsOfWrites
<1>7. Filed \in Seq(Event) /\ Len(Filed) = Len(disk) /\ DOMAIN Filed = DOMAIN disk
  BY <1>1, EventsOfWrites DEF Filed
<1>8. \A i \in DOMAIN disk : Filed[i] = disk[i].event
  BY DEF Filed
<1>9. w.event \in Event
  BY DEF Write
<1>10. Append(Filed, w.event) \in Seq(Event) /\ Len(Append(Filed, w.event)) = Len(disk) + 1
  BY <1>7, <1>9
<1>11. \A i \in 1..Len(disk) + 1 : f[i] = Append(Filed, w.event)[i]
  <2>1. \A i \in 1..Len(disk) : f[i] = Filed[i]
    BY <1>4, <1>5, <1>8
  <2>2. f[Len(disk) + 1] = w.event
    BY <1>4, <1>5
  <2> QED
    BY <1>4, <1>7, <1>9, <2>1, <2>2
<1>12. f = Append(Filed, w.event)
  BY <1>4, <1>6, <1>10, <1>11, SeqEqual
<1> QED
  BY <1>3, <1>12

LEMMA InitType == Init => TypeOK
<1> SUFFICES ASSUME Init PROVE TypeOK
  OBVIOUS
<1>1. << >> \in Seq(Event) /\ << >> \in Seq(Entry) /\ << >> \in Seq(Submission)
      /\ << >> \in Seq(Write)
  BY EmptySeq
<1> QED
  BY <1>1 DEF Init, TypeOK, Steps, InEvaluation

LEMMA NextType == TypeOK /\ [Next]_vars => TypeOK'
<1> SUFFICES ASSUME TypeOK, [Next]_vars
             PROVE  TypeOK'
  OBVIOUS
<1>1. CASE Start
  <2>1. mem' \in Seq(Event)
    BY <1>1, EmptySeq, FiledTypes DEF Start
  <2> QED
    BY <1>1, <2>1 DEF Start, TypeOK, Steps, InEvaluation
<1>2. CASE Crash
  <2>1. mem' \in Seq(Event)
    BY <1>2, EmptySeq DEF Crash
  <2> QED
    BY <1>2, <2>1 DEF Crash, TypeOK, Steps, InEvaluation
<1>3. CASE Tick
  <2>1. clock' \in Nat
    BY <1>3 DEF Tick, TypeOK
  <2>2. UNCHANGED <<pc, cur, persist, mem, disk, audit, refusing,
                    offered, effects, early, crashed>>
    BY <1>3 DEF Tick
  <2>3. (InEvaluation => cur \in Evaluation /\ cur.eligible \subseteq DOMAIN plan)'
    BY <2>2 DEF TypeOK, InEvaluation, plan
  <2> QED
    BY <2>1, <2>2, <2>3 DEF TypeOK
<1>4. CASE SubmitSome
  <2>1. PICK s \in Submission : Submit(s)
    <3>1. PICK agent \in Agents, nonce \in Nonces, issued \in 0..MaxTime,
               p \in Plans, allowed \in Playbooks :
            Submit([plan |-> p, allowed |-> allowed,
                    session |-> [agent |-> agent, nonce |-> nonce, issued |-> issued]])
      BY <1>4 DEF SubmitSome
    <3>2. issued \in Nat
      OBVIOUS
    <3>3. [plan |-> p, allowed |-> allowed,
           session |-> [agent |-> agent, nonce |-> nonce, issued |-> issued]]
            \in Submission
      BY <3>2 DEF Submission, Session
    <3> QED
      BY <3>1, <3>3
  <2>2. Fresh(s) \in Evaluation /\ Fresh(s).eligible = {}
    BY DEF Fresh, Evaluation, Modes
  <2>3. offered' \in Seq(Submission)
    BY <2>1 DEF Submit, TypeOK
  <2> QED
    BY <2>1, <2>2, <2>3 DEF Submit, TypeOK, Steps, InEvaluation
<1>5. CASE Preprocessing \/ (\E wellFormed \in BOOLEAN : CheckControls(wellFormed))
  <2>1. InEvaluation
    BY <1>5 DEF Preprocessing, CheckNonce, CheckNonceRaises, CheckAge, CheckQuota,
                CheckControls, InEvaluation
  <2>2. cur \in Evaluation /\ cur.eligible \subseteq DOMAIN plan /\ NonceUsed \in Event
    BY <2>1, InHandFacts, EventTypes
  <2>3. ASSUME NEW b \in BOOLEAN
        PROVE  LET c == [cur EXCEPT !.ok = b]
               IN  /\ c \in Evaluation
                   /\ c.eligible = cur.eligible
                   /\ c.sub = cur.sub
    BY <2>2 DEF Evaluation
  <2>4. CASE CheckNonce
    <3>1. mem' \in Seq(Event) /\ disk' \in Seq(Write)
      BY <2>2, <2>4, RememberTypes DEF CheckNonce, TypeOK
    <3>3. early' \subseteq Nat
      BY <2>4 DEF CheckNonce, TypeOK, Current
    <3>2. cur' \in Evaluation /\ cur'.eligible = cur.eligible /\ cur'.sub = cur.sub
      BY <2>2, <2>3, <2>4 DEF CheckNonce
    <3> QED
      BY <2>2, <2>4, <3>1, <3>2, <3>3
         DEF CheckNonce, TypeOK, Steps, InEvaluation, plan
  <2>5. CASE CheckNonceRaises
    <3>1. mem' \in Seq(Event) /\ disk' \in Seq(Write)
      BY <2>2, <2>5, RememberTypes DEF CheckNonceRaises
    <3> QED
      BY <2>5, <3>1 DEF CheckNonceRaises, Leave, TypeOK, Steps, InEvaluation
  <2>6. ASSUME NEW sound \in BOOLEAN, CheckAge(sound)
        PROVE  TypeOK'
    <3>1. cur' \in Evaluation /\ cur'.eligible = cur.eligible /\ cur'.sub = cur.sub
      BY <2>3, <2>6 DEF CheckAge
    <3> QED
      BY <2>2, <2>6, <3>1 DEF CheckAge, TypeOK, Steps, InEvaluation, plan
  <2>7. ASSUME NEW sound \in BOOLEAN, CheckQuota(sound)
        PROVE  TypeOK'
    <3>1. cur' \in Evaluation /\ cur'.eligible = cur.eligible /\ cur'.sub = cur.sub
      BY <2>3, <2>7 DEF CheckQuota
    <3>2. pc' \in Steps
      BY <2>7 DEF CheckQuota, Steps
    <3> QED
      BY <2>2, <2>7, <3>1, <3>2 DEF CheckQuota, TypeOK, InEvaluation, plan
  <2>8. ASSUME NEW wellFormed \in BOOLEAN, CheckControls(wellFormed)
        PROVE  TypeOK'
    <3>1. pc' \in Steps
      BY <2>8 DEF CheckControls, Steps
    <3> QED
      BY <2>2, <2>8, <3>1 DEF CheckControls, TypeOK, InEvaluation, plan
  <2> QED
    BY <1>5, <2>4, <2>5, <2>6, <2>7, <2>8 DEF Preprocessing
<1>6. ASSUME NEW level \in TrustLevels, Regulate(level)
      PROVE  TypeOK'
  <2>1. InEvaluation
    BY <1>6 DEF Regulate, InEvaluation
  <2>2. AutonomyMode[level] \in Modes
    BY DEF AutonomyMode, TrustLevels, Modes
  <2>3. cur' \in Evaluation /\ cur'.eligible \subseteq DOMAIN plan /\ cur'.sub = cur.sub
    BY <1>6, <2>1, <2>2, InHandFacts DEF Regulate, Evaluation
  <2>4. pc' \in Steps
    BY <1>6 DEF Regulate, Steps
  <2> QED
    BY <1>6, <2>3, <2>4 DEF Regulate, TypeOK, InEvaluation, plan
<1>7. ASSUME NEW i \in cur.eligible, NEW done \in BOOLEAN, pc = "enforce",
             CarriesOut(i, done)
      PROVE  effects' \in SUBSET Effect /\ i \in Nat
  <2>1. InEvaluation
    BY <1>7 DEF InEvaluation
  <2>2. i \in DOMAIN plan /\ i \in Nat /\ plan[i] \in Capabilities /\ session \in Session
    BY <2>1, InHandFacts, ElementOfSeq
  <2>3. ActionEffect(i) \in Effect
    BY <2>2 DEF ActionEffect, Effect, Session, Current, TypeOK
  <2> QED
    BY <1>7, <2>2, <2>3 DEF CarriesOut, TypeOK
<1>8. ASSUME NEW done \in BOOLEAN, NEW report \in Reports, Execute(done, report)
      PROVE  TypeOK'
  <2>1. InEvaluation
    BY <1>8 DEF Execute, InEvaluation
  <2>2. PICK i \in cur.eligible :
          /\ CarriesOut(i, done)
          /\ cur' = [cur EXCEPT !.next = i + 1,
                                !.executed = IF report = "true" THEN @ + 1 ELSE @]
          /\ pc' = IF Remaining(i + 1) = {} THEN "record" ELSE "enforce"
    BY <1>8 DEF Execute
  <2>3. effects' \in SUBSET Effect /\ i \in Nat
    BY <1>7, <1>8, <2>2 DEF Execute
  <2>4. cur' \in Evaluation /\ cur'.eligible = cur.eligible /\ cur'.sub = cur.sub
    <3>1. cur \in Evaluation /\ cur.executed \in Nat
      BY <2>1, InHandFacts DEF Evaluation
    <3>2. PICK n \in Nat : n = IF report = "true" THEN cur.executed + 1 ELSE cur.executed
      BY <3>1
    <3>3. cur' = [cur EXCEPT !.next = i + 1, !.executed = n]
      BY <2>2, <3>1, <3>2 DEF Evaluation
    <3>4. i + 1 \in Nat
      BY <2>3
    <3> QED
      BY <3>1, <3>3, <3>4 DEF Evaluation
  <2>5. pc' \in Steps
    BY <2>2 DEF Steps
  <2> QED
    BY <1>8, <2>1, <2>3, <2>4, <2>5, InHandFacts
       DEF Execute, TypeOK, InEvaluation, plan
<1>9. ASSUME NEW done \in BOOLEAN, ExecuteRaises(done)
      PROVE  TypeOK'
  <2>1. effects' \in SUBSET Effect
    BY <1>7, <1>9 DEF ExecuteRaises
  <2> QED
    BY <1>9, <2>1 DEF ExecuteRaises, Leave, TypeOK, Steps, InEvaluation
<1>10. CASE RecordDecision \/ RecordDecisionRaises
  <2>1. InEvaluation
    BY <1>10 DEF RecordDecision, RecordDecisionRaises, InEvaluation
  <2>2. TrustDecision \in Event
    BY <2>1, EventTypes
  <2>3. mem' \in Seq(Event) /\ disk' \in Seq(Write)
    BY <1>10, <2>2, RememberTypes DEF RecordDecision, RecordDecisionRaises
  <2> QED
    BY <1>10, <2>1, <2>3, InHandFacts
       DEF RecordDecision, RecordDecisionRaises, Leave, TypeOK, Steps,
           InEvaluation, plan
<1>11. CASE AuditDecision \/ AuditDecisionRaises
  <2>1. InEvaluation
    BY <1>11 DEF AuditDecision, AuditDecisionRaises, InEvaluation
  <2>2. ExecutionStatus \in Statuses
    BY DEF ExecutionStatus, Statuses
  <2>3. AuditEntry \in Entry
    BY <2>1, <2>2, InHandFacts DEF AuditEntry, Entry, Evaluation, Current, TypeOK
  <2>4. audit' \in Seq(Entry)
    <3>1. audit \in Seq(Entry)
      BY DEF TypeOK
    <3>2. Append(audit, AuditEntry) \in Seq(Entry)
      BY <2>3, <3>1
    <3>3. audit' = Append(audit, AuditEntry) \/ audit' = audit
      BY <1>11 DEF AuditDecision, AuditDecisionRaises
    <3> QED
      BY <3>1, <3>2, <3>3
  <2> QED
    BY <1>11, <2>4 DEF AuditDecision, AuditDecisionRaises, Leave, TypeOK, Steps,
                       InEvaluation
<1>12. CASE UNCHANGED vars
  BY <1>12 DEF vars, TypeOK, InEvaluation, plan
<1> QED
  BY <1>1, <1>2, <1>3, <1>4, <1>5, <1>6, <1>8, <1>9, <1>10, <1>11, <1>12
     DEF Next, Enforcement, Finalize

(* Every reachable state is well typed: in particular each action handed   *)
(* to the executor is an action of the plan in hand.                       *)
THEOREM TypeCorrect == Spec => []TypeOK
BY InitType, NextType, PTL DEF Spec

-----------------------------------------------------------------------------
(* Submissions and effects.                                                *)

(* The steps, by what they leave alone.                                    *)
QuietStep ==
  \/ Tick
  \/ \E b \in BOOLEAN : CheckAge(b) \/ CheckQuota(b) \/ CheckControls(b)
  \/ \E level \in TrustLevels : Regulate(level)
  \/ AuditDecision
  \/ AuditDecisionRaises
  \/ UNCHANGED vars

RememberStep ==
  \/ CheckNonce
  \/ CheckNonceRaises
  \/ RecordDecision
  \/ RecordDecisionRaises

ExecuteStep ==
  \/ \E done \in BOOLEAN, report \in Reports : Execute(done, report)
  \/ \E done \in BOOLEAN : ExecuteRaises(done)

LEMMA StepKinds ==
  [Next]_vars =>
    Start \/ Crash \/ SubmitSome \/ QuietStep \/ RememberStep \/ ExecuteStep
BY DEF Next, Preprocessing, Enforcement, Finalize, QuietStep, RememberStep,
       ExecuteStep

LEMMA QuietFrame ==
  QuietStep =>
    /\ UNCHANGED <<persist, mem, disk, Filed, offered, effects, early, crashed>>
    /\ pc' = "down" <=> pc = "down"
    /\ pc' \in {"nonce", "age"} => pc' = pc /\ UNCHANGED cur
BY DEF QuietStep, Tick, CheckAge, CheckQuota, CheckControls, Regulate,
       AuditDecision, AuditDecisionRaises, Leave, Filed, vars

LEMMA RememberFrame ==
  ASSUME TypeOK, RememberStep
  PROVE  /\ UNCHANGED <<clock, persist, offered, effects, crashed>>
         /\ pc \in {"nonce", "record"}
         /\ pc' \in {"idle", "age", "audit"}
         /\ early \subseteq early'
         /\ \E e \in Event : /\ mem' = mem \/ mem' = Append(mem, e)
                             /\ Filed' = Filed \/ Filed' = Append(Filed, e)
<1>1. InEvaluation
  BY DEF RememberStep, CheckNonce, CheckNonceRaises, RecordDecision,
         RecordDecisionRaises, InEvaluation
<1>2. NonceUsed \in Event /\ TrustDecision \in Event
  BY <1>1, EventTypes
<1>3. ASSUME NEW e \in Event, Remember(e) \/ RememberRaises(e)
      PROVE  /\ mem' = mem \/ mem' = Append(mem, e)
             /\ Filed' = Filed \/ Filed' = Append(Filed, e)
  <2>1. disk' = disk \/ \E w \in Write : w.event = e /\ disk' = Append(disk, w)
    BY <1>3, RememberTypes
  <2>2. disk' = disk => Filed' = Filed
    BY DEF Filed
  <2>3. Filed' = Filed \/ Filed' = Append(Filed, e)
    BY <2>1, <2>2, FiledGrows
  <2> QED
    BY <1>3, <2>3 DEF Remember, RememberRaises
<1>4. ASSUME mem' = mem, disk' = disk
      PROVE  \E e \in Event : /\ mem' = mem \/ mem' = Append(mem, e)
                              /\ Filed' = Filed \/ Filed' = Append(Filed, e)
  BY <1>2, <1>4 DEF Filed
<1>5. \E e \in Event : /\ mem' = mem \/ mem' = Append(mem, e)
                       /\ Filed' = Filed \/ Filed' = Append(Filed, e)
  <2>1. \/ mem' = mem /\ disk' = disk
        \/ \E e \in Event : Remember(e) \/ RememberRaises(e)
    BY <1>2 DEF RememberStep, CheckNonce, CheckNonceRaises, RecordDecision,
                RecordDecisionRaises
  <2> QED
    BY <1>3, <1>4, <2>1
<1>6. /\ UNCHANGED <<clock, persist, offered, effects, crashed>>
      /\ pc \in {"nonce", "record"}
      /\ pc' \in {"idle", "age", "audit"}
      /\ early \subseteq early'
  BY DEF RememberStep, CheckNonce, CheckNonceRaises, RecordDecision,
         RecordDecisionRaises, Leave
<1> QED
  BY <1>5, <1>6

LEMMA ExecuteFrame ==
  ASSUME TypeOK, ExecuteStep
  PROVE  /\ UNCHANGED <<clock, persist, mem, disk, Filed, offered, early, crashed>>
         /\ pc = "enforce"
         /\ pc' \in {"idle", "record", "enforce"}
         /\ pc' = "enforce" => cur'.ok = cur.ok /\ cur'.sub = cur.sub
         /\ \E i \in cur.eligible : effects' \subseteq effects \union {ActionEffect(i)}
<1>1. pc = "enforce" /\ InEvaluation
  BY DEF ExecuteStep, Execute, ExecuteRaises, InEvaluation
<1>2. cur \in Evaluation
  BY <1>1, InHandFacts
<1>3. ASSUME NEW done \in BOOLEAN, NEW report \in Reports, Execute(done, report)
      PROVE  /\ cur'.ok = cur.ok /\ cur'.sub = cur.sub
             /\ \E i \in cur.eligible : effects' \subseteq effects \union {ActionEffect(i)}
  BY <1>2, <1>3 DEF Execute, CarriesOut, Evaluation
<1>4. ASSUME NEW done \in BOOLEAN, ExecuteRaises(done)
      PROVE  /\ \E i \in cur.eligible : effects' \subseteq effects \union {ActionEffect(i)}
             /\ pc' = "idle"
  BY <1>4 DEF ExecuteRaises, CarriesOut, Leave
<1>5. UNCHANGED <<clock, persist, mem, disk, Filed, offered, early, crashed>>
  BY DEF ExecuteStep, Execute, ExecuteRaises, Filed
<1>6. pc' \in {"idle", "record", "enforce"}
  BY DEF ExecuteStep, Execute, ExecuteRaises, Leave
<1> QED
  BY <1>1, <1>3, <1>4, <1>5, <1>6 DEF ExecuteStep

LEMMA SubmitFrame ==
  ASSUME TypeOK, SubmitSome
  PROVE  \E s \in Submission :
           /\ s.session.issued <= clock + MaxSkew
           /\ offered' = Append(offered, s)
           /\ cur' = Fresh(s)
           /\ pc = "idle"
           /\ pc' = "nonce"
           /\ UNCHANGED <<clock, persist, mem, disk, Filed, effects, early, crashed>>
<1>1. PICK agent \in Agents, nonce \in Nonces, issued \in 0..MaxTime,
           p \in Plans, allowed \in Playbooks :
        Submit([plan |-> p, allowed |-> allowed,
                session |-> [agent |-> agent, nonce |-> nonce, issued |-> issued]])
  BY DEF SubmitSome
<1>2. issued \in Nat
  OBVIOUS
<1>3. [plan |-> p, allowed |-> allowed,
       session |-> [agent |-> agent, nonce |-> nonce, issued |-> issued]]
        \in Submission
  BY <1>2 DEF Submission, Session
<1> QED
  BY <1>1, <1>3 DEF Submit, Filed

LEMMA NextEvaluation ==
  ASSUME TypeOK, TypeOK', EvaluationInv, [Next]_vars
  PROVE  EvaluationInv'
<1> USE DEF EvaluationInv, SessionOf, Current
<1>1. CASE Start
  BY <1>1 DEF Start, InEvaluation
<1>2. CASE Crash
  BY <1>2 DEF Crash, InEvaluation
<1>3. CASE SubmitSome
  <2>1. PICK s \in Submission :
           /\ offered' = Append(offered, s)
           /\ cur' = Fresh(s)
           /\ pc' = "nonce"
           /\ UNCHANGED <<clock, effects, crashed>>
    BY <1>3, SubmitFrame
  <2>2. /\ offered \in Seq(Submission)
        /\ Len(offered') = Len(offered) + 1
        /\ DOMAIN offered' = 1..Len(offered) + 1
        /\ DOMAIN offered = 1..Len(offered)
        /\ Len(offered) \in Nat
        /\ \A n \in DOMAIN offered : offered'[n] = offered[n]
        /\ offered'[Len(offered) + 1] = s
    BY <2>1 DEF TypeOK
  <2>3. cur'.sub = offered'[Len(offered')]
    BY <2>1, <2>2 DEF Fresh
  <2>4. \A x \in effects' : x.eval \in DOMAIN offered' /\ x.eval # Len(offered')
    BY <2>1, <2>2
  <2> QED
    BY <2>1, <2>2, <2>3, <2>4
<1>4. CASE QuietStep
  <2>1. UNCHANGED <<offered, effects, crashed>> /\ (pc' = "down" <=> pc = "down")
    BY <1>4, QuietFrame
  <2>2. InEvaluation' => InEvaluation /\ cur'.sub = cur.sub
    <3>1. ASSUME InEvaluation' PROVE InEvaluation
      BY <1>4, <3>1 DEF QuietStep, Tick, CheckAge, CheckQuota, CheckControls, Regulate,
                  AuditDecision, AuditDecisionRaises, Leave, InEvaluation, vars
    <3>2. ASSUME InEvaluation' PROVE cur \in Evaluation
      BY <3>1, <3>2, InHandFacts
    <3>3. ASSUME InEvaluation' PROVE cur'.sub = cur.sub
      BY <1>4, <3>2, <3>3 DEF QuietStep, Tick, CheckAge, CheckQuota, CheckControls,
                  Regulate, AuditDecision, AuditDecisionRaises, Leave,
                  InEvaluation, vars, Evaluation
    <3> QED
      BY <3>1, <3>3
  <2>3. pc' \in {"nonce", "age", "quota", "controls", "trust"} =>
          pc \in {"nonce", "age", "quota", "controls", "trust"}
    BY <1>4 DEF QuietStep, Tick, CheckAge, CheckQuota, CheckControls, Regulate,
                AuditDecision, AuditDecisionRaises, Leave, vars
  <2>4. pc' \in {"controls", "trust", "enforce"} => cur'.ok
    <3>1. CASE \E b \in BOOLEAN : CheckQuota(b)
      <4>1. cur \in Evaluation
        BY <3>1, InHandFacts DEF CheckQuota, InEvaluation
      <4> QED
        BY <3>1, <4>1 DEF CheckQuota, Evaluation
    <3>2. CASE \E level \in TrustLevels : Regulate(level)
      <4>1. cur \in Evaluation
        BY <3>2, InHandFacts DEF Regulate, InEvaluation
      <4> QED
        BY <3>2, <4>1 DEF Regulate, Evaluation
    <3> QED
      BY <1>4, <3>1, <3>2 DEF QuietStep, Tick, CheckAge, CheckControls,
         AuditDecision, AuditDecisionRaises, Leave, vars
  <2> QED
    BY <2>1, <2>2, <2>3, <2>4
<1>5. CASE RememberStep
  <2>1. /\ UNCHANGED <<clock, persist, offered, effects, crashed>>
        /\ pc \in {"nonce", "record"}
        /\ pc' \in {"idle", "age", "audit"}
    BY <1>5, RememberFrame
  <2>2. InEvaluation' => InEvaluation /\ cur'.sub = cur.sub
    <3>1. cur \in Evaluation
      BY <2>1, InHandFacts DEF InEvaluation
    <3> QED
      BY <1>5, <3>1 DEF RememberStep, CheckNonce, CheckNonceRaises, RecordDecision,
                  RecordDecisionRaises, Leave, InEvaluation, Evaluation
  <2>3. pc' = "age" => pc = "nonce"
    BY <1>5 DEF RememberStep, CheckNonce, CheckNonceRaises, RecordDecision,
                RecordDecisionRaises, Leave
  <2> QED
    BY <2>1, <2>2, <2>3
<1>6. CASE ExecuteStep
  <2>1. /\ UNCHANGED <<clock, persist, offered, crashed>>
        /\ pc = "enforce"
        /\ pc' \in {"idle", "record", "enforce"}
        /\ pc' = "enforce" => cur'.ok = cur.ok
    BY <1>6, ExecuteFrame
  <2>2. PICK i \in cur.eligible : effects' \subseteq effects \union {ActionEffect(i)}
    BY <1>6, ExecuteFrame
  <2>3. Len(offered) \in DOMAIN offered
    BY <2>1 DEF InEvaluation, TypeOK
  <2>4. \A x \in effects' : x.eval \in DOMAIN offered
    BY <2>2, <2>3 DEF ActionEffect
  <2>5. InEvaluation' => cur'.sub = cur.sub
    <3>1. cur \in Evaluation
      BY <2>1, InHandFacts DEF InEvaluation
    <3> QED
      BY <1>6, <3>1 DEF ExecuteStep, Execute, ExecuteRaises, Leave, InEvaluation,
                        Evaluation
  <2> QED
    BY <2>1, <2>4, <2>5 DEF InEvaluation
<1> QED
  BY <1>1, <1>2, <1>3, <1>4, <1>5, <1>6, StepKinds

LEMMA SessionInHand ==
  ASSUME TypeOK, EvaluationInv, InEvaluation
  PROVE  /\ Current \in DOMAIN offered
         /\ session = SessionOf(Current)
         /\ session.issued \in Nat
<1>1. Current \in DOMAIN offered
  BY DEF TypeOK, EvaluationInv, Current
<1>2. session = SessionOf(Current)
  BY DEF EvaluationInv, SessionOf, session
<1>3. session.issued \in Nat
  BY InHandFacts DEF Session
<1> QED
  BY <1>1, <1>2, <1>3

(* Effects of evaluations so far keep their session when a submission is   *)
(* added.                                                                  *)
LEMMA SubmitKeepsSessions ==
  ASSUME TypeOK, EvaluationInv, SubmitSome
  PROVE  \A x \in effects : offered'[x.eval] = offered[x.eval]
<1>1. PICK s \in Submission : offered' = Append(offered, s)
  BY SubmitFrame
<1>2. \A n \in DOMAIN offered : offered'[n] = offered[n]
  BY <1>1 DEF TypeOK
<1> QED
  BY <1>2 DEF EvaluationInv

Deciding == {"age", "quota", "controls", "trust", "enforce"}

LEMMA QuietSession ==
  ASSUME TypeOK, QuietStep, pc' \in Deciding, cur'.ok
  PROVE  pc \in Deciding /\ cur.ok /\ cur'.sub = cur.sub
<1>1. pc \in Deciding
  BY DEF QuietStep, Tick, CheckAge, CheckQuota, CheckControls, Regulate,
         AuditDecision, AuditDecisionRaises, Leave, Deciding, vars
<1>2. cur \in Evaluation
  BY <1>1, InHandFacts DEF Deciding, InEvaluation
<1>3. CASE \E b \in BOOLEAN : CheckAge(b)
  BY <1>1, <1>2, <1>3 DEF CheckAge, Evaluation
<1>4. CASE \E b \in BOOLEAN : CheckQuota(b)
  BY <1>1, <1>2, <1>4 DEF CheckQuota, Evaluation
<1>5. CASE \E level \in TrustLevels : Regulate(level)
  BY <1>1, <1>2, <1>5 DEF Regulate, Evaluation
<1>6. CASE AuditDecision \/ AuditDecisionRaises
  BY <1>6 DEF AuditDecision, AuditDecisionRaises, Leave, Deciding
<1> QED
  BY <1>1, <1>3, <1>4, <1>5, <1>6
     DEF QuietStep, Tick, CheckControls, vars

-----------------------------------------------------------------------------
(* Cleared plans.                                                          *)

LEMMA NextCleared ==
  ASSUME TypeOK, EvaluationInv, ClearedInv, [Next]_vars
  PROVE  ClearedInv'
<1> DEFINE Acts(x, o) == /\ ClearedSubmission(o[x.eval])
                         /\ o[x.eval].session.issued <= x.at
<1>1. \A x \in effects : Acts(x, offered)
  BY DEF ClearedInv, SessionOf
<1> SUFFICES /\ pc' \in {"quota", "controls", "trust", "enforce"} /\ cur'.ok =>
                  Len(plan') <= MaxActions /\ session'.issued <= clock'
             /\ pc' \in {"trust", "enforce"} => ClearedSubmission(cur'.sub)
             /\ \A x \in effects' : Acts(x, offered')
  BY DEF ClearedInv, SessionOf, ClearedSubmission
<1>2. CASE Start \/ Crash
  BY <1>1, <1>2 DEF Start, Crash
<1>3. CASE SubmitSome
  <2>1. UNCHANGED effects /\ pc' = "nonce"
    BY <1>3, SubmitFrame
  <2> QED
    BY <1>1, <1>3, <2>1, SubmitKeepsSessions
<1>4. CASE QuietStep
  <2>1. \A x \in effects' : Acts(x, offered')
    BY <1>1, <1>4, QuietFrame
  <2>2. ASSUME pc' \in {"quota", "controls", "trust", "enforce"}, cur'.ok
        PROVE  Len(plan') <= MaxActions /\ session'.issued <= clock'
    <3>1. /\ pc \in Deciding /\ cur.ok /\ cur'.sub = cur.sub
          /\ plan' = plan /\ session' = session
      BY <1>4, <2>2, QuietSession DEF Deciding, plan, session
    <3>2. CASE \E b \in BOOLEAN : CheckAge(b)
      <4>1. cur \in Evaluation /\ plan \in Seq(Capabilities)
        BY <3>1, InHandFacts DEF Deciding, InEvaluation
      <4>2. Len(plan) \in 1..MaxActions /\ FreshSession /\ clock' = clock
        BY <2>2, <3>2, <4>1 DEF CheckAge, Evaluation
      <4>3. session.issued \in Nat /\ clock \in Nat
        BY <3>1, InHandFacts DEF Deciding, InEvaluation, Session, TypeOK
      <4> QED
        BY <3>1, <4>2, <4>3 DEF FreshSession
    <3>3. CASE pc # "age"
      <4>1. Len(plan) <= MaxActions /\ session.issued <= clock
        BY <3>1, <3>3 DEF ClearedInv, Deciding
      <4>2. clock' = clock \/ clock' = clock + 1
        BY <1>4 DEF QuietStep, Tick, CheckAge, CheckQuota, CheckControls, Regulate,
                    AuditDecision, AuditDecisionRaises, vars
      <4>3. session.issued \in Nat /\ clock \in Nat
        BY <3>1, InHandFacts DEF Deciding, InEvaluation, Session, TypeOK
      <4> QED
        BY <3>1, <4>1, <4>2, <4>3
    <3>4. CASE pc = "age" /\ ~ \E b \in BOOLEAN : CheckAge(b)
      BY <1>4, <2>2, <3>4 DEF QuietStep, Tick, CheckQuota, CheckControls, Regulate,
         AuditDecision, AuditDecisionRaises, vars
    <3> QED
      BY <3>2, <3>3, <3>4
  <2>3. ASSUME pc' \in {"trust", "enforce"}
        PROVE  ClearedSubmission(cur'.sub)
    <3>1. CASE \E b \in BOOLEAN : CheckControls(b)
      <4>1. /\ pc = "controls" /\ cur' = cur
            /\ \A i \in DOMAIN plan : plan[i] \in Known \intersect cur.sub.allowed
        BY <2>3, <3>1 DEF CheckControls
      <4>2. Len(plan) <= MaxActions
        BY <4>1 DEF ClearedInv, EvaluationInv
      <4> QED
        BY <4>1, <4>2 DEF ClearedSubmission, plan
    <3>2. CASE \E level \in TrustLevels : Regulate(level)
      <4>1. cur \in Evaluation /\ pc = "trust"
        BY <3>2, InHandFacts DEF Regulate, InEvaluation
      <4>2. cur'.sub = cur.sub
        BY <3>2, <4>1 DEF Regulate, Evaluation
      <4> QED
        BY <4>1, <4>2 DEF ClearedInv
    <3>3. CASE pc' = pc /\ cur' = cur
      BY <2>3, <3>3 DEF ClearedInv
    <3> QED
      BY <1>4, <2>3, <3>1, <3>2, <3>3 DEF QuietStep, Tick, CheckAge, CheckQuota,
         AuditDecision, AuditDecisionRaises, Leave, vars
  <2> QED
    BY <2>1, <2>2, <2>3
<1>5. CASE RememberStep
  BY <1>1, <1>5, RememberFrame
<1>6. CASE ExecuteStep
  <2>1. /\ UNCHANGED <<clock, offered>>
        /\ pc = "enforce"
        /\ pc' \in {"idle", "record", "enforce"}
        /\ pc' = "enforce" => cur'.ok = cur.ok /\ cur'.sub = cur.sub
    BY <1>6, ExecuteFrame
  <2>2. PICK i \in cur.eligible : effects' \subseteq effects \union {ActionEffect(i)}
    BY <1>6, ExecuteFrame
  <2>3. cur.sub = offered[Current] /\ cur.ok
    BY <2>1 DEF InEvaluation, EvaluationInv
  <2>4. /\ ClearedSubmission(cur.sub)
        /\ Len(plan) <= MaxActions
        /\ session.issued <= clock
    BY <2>1, <2>3 DEF ClearedInv
  <2>5. Acts(ActionEffect(i), offered)
    BY <2>3, <2>4 DEF ActionEffect, session
  <2>6. \A x \in effects' : Acts(x, offered')
    BY <1>1, <2>1, <2>2, <2>5
  <2> QED
    BY <2>1, <2>4, <2>6 DEF plan, session
<1> QED
  BY <1>2, <1>3, <1>4, <1>5, <1>6, StepKinds

LEMMA InitBase == Init => BaseInv
<1> SUFFICES ASSUME Init PROVE BaseInv
  OBVIOUS
<1>1. TypeOK
  BY InitType
<1> QED
  BY <1>1 DEF Init, BaseInv, EvaluationInv, ClearedInv, InEvaluation

LEMMA NextBase == BaseInv /\ [Next]_vars => BaseInv'
BY NextType, NextEvaluation, NextCleared DEF BaseInv

(* Only the actions of a plan cleared as a whole are carried out.          *)
THEOREM ClearedPlansOnly == Spec => []OnlyClearedPlansAct
<1>1. BaseInv => OnlyClearedPlansAct
  BY DEF BaseInv, ClearedInv, ClearedSubmission, SessionOf, OnlyClearedPlansAct
<1> QED
  BY <1>1, InitBase, NextBase, PTL DEF Spec

-----------------------------------------------------------------------------
(* Nonces.                                                                 *)

LEMMA NotedGrows ==
  ASSUME NEW h \in Seq(Event), NEW g, NEW e \in Event, NEW s,
         g = h \/ g = Append(h, e), NonceNoted(h, s)
  PROVE  NonceNoted(g, s)
<1>1. PICK i \in DOMAIN h : /\ h[i].kind = "nonce_used"
                            /\ h[i].agent = s.agent
                            /\ h[i].nonce = s.nonce
                            /\ h[i].at >= s.issued
  BY DEF NonceNoted
<1>2. i \in DOMAIN g /\ g[i] = h[i]
  <2>1. DOMAIN Append(h, e) = 1..Len(h) + 1 /\ Append(h, e)[i] = h[i]
    BY <1>1
  <2> QED
    BY <1>1, <2>1
<1> QED
  BY <1>1, <1>2 DEF NonceNoted

LEMMA NonceUsedNotes ==
  ASSUME NEW h \in Seq(Event), NonceUsed \in Event, clock >= session.issued
  PROVE  NonceNoted(Append(h, NonceUsed), session)
<1> DEFINE n == Len(h) + 1
<1>1. n \in DOMAIN Append(h, NonceUsed) /\ Append(h, NonceUsed)[n] = NonceUsed
  OBVIOUS
<1>2. /\ NonceUsed.kind = "nonce_used"
      /\ NonceUsed.agent = session.agent
      /\ NonceUsed.nonce = session.nonce
      /\ NonceUsed.at = clock
  BY DEF NonceUsed
<1> HIDE DEF n
<1> QED
  BY <1>1, <1>2 DEF NonceNoted

LEMMA NextNonce ==
  ASSUME TypeOK, TypeOK', EvaluationInv, NonceInv, [Next]_vars
  PROVE  NonceInv'
<1> SUFFICES ASSUME HistoryKept'
             PROVE  /\ \A x \in effects' : x.eval \notin early' => Noted(SessionOf(x.eval))'
                    /\ pc' \in Deciding /\ cur'.ok => Current' \in early' \/ Noted(session)'
  BY DEF NonceInv, Deciding
<1>0. /\ mem \in Seq(Event) /\ Filed \in Seq(Event)
      /\ clock \in Nat
  BY FiledTypes DEF TypeOK
<1>1. CASE Start
  <2>1. /\ pc = "down"
        /\ pc' = "idle"
        /\ mem' = IF persist THEN Filed ELSE << >>
        /\ UNCHANGED <<persist, Filed, offered, effects, early, crashed>>
    BY <1>1 DEF Start, Filed
  <2>2. HistoryKept /\ (effects # {} => persist)
    BY <2>1 DEF HistoryKept, EvaluationInv
  <2>3. \A x \in effects : x.eval \notin early => NonceNoted(Filed, SessionOf(x.eval))
    BY <2>2 DEF NonceInv, Noted
  <2> QED
    BY <2>1, <2>2, <2>3 DEF Noted, SessionOf, Deciding
<1>2. CASE Crash
  <2>1. /\ pc' = "down"
        /\ crashed' = TRUE
        /\ UNCHANGED <<persist, Filed, offered, effects, early>>
    BY <1>2 DEF Crash, Filed
  <2>2. persist /\ HistoryKept
    BY <2>1 DEF HistoryKept
  <2> QED
    BY <2>1, <2>2 DEF NonceInv, Noted, SessionOf, Deciding
<1>3. CASE SubmitSome
  <2>1. /\ pc = "idle"
        /\ pc' = "nonce"
        /\ UNCHANGED <<persist, mem, Filed, effects, early, crashed>>
    BY <1>3, SubmitFrame
  <2>2. \A x \in effects : offered'[x.eval] = offered[x.eval]
    BY <1>3, SubmitKeepsSessions
  <2>3. HistoryKept
    BY <2>1 DEF HistoryKept
  <2> QED
    BY <2>1, <2>2, <2>3 DEF NonceInv, Noted, SessionOf, Deciding
<1>4. CASE QuietStep
  <2>1. /\ UNCHANGED <<persist, mem, Filed, offered, effects, early, crashed>>
        /\ pc' = "down" <=> pc = "down"
    BY <1>4, QuietFrame
  <2>2. HistoryKept
    BY <2>1 DEF HistoryKept
  <2>3. \A x \in effects' : x.eval \notin early' => Noted(SessionOf(x.eval))'
    BY <2>1, <2>2 DEF NonceInv, Noted, SessionOf
  <2>4. ASSUME pc' \in Deciding, cur'.ok
        PROVE  Current' \in early' \/ Noted(session)'
    <3>1. pc \in Deciding /\ cur.ok /\ cur'.sub = cur.sub
      BY <1>4, <2>4, QuietSession
    <3>2. (Current \in early \/ Noted(session)) /\ session' = session
      BY <2>2, <3>1 DEF NonceInv, Deciding, session
    <3> QED
      BY <2>1, <3>2 DEF Noted, Current
  <2> QED
    BY <2>3, <2>4
<1>5. CASE RememberStep
  <2>1. /\ UNCHANGED <<clock, persist, offered, effects, crashed>>
        /\ pc \in {"nonce", "record"}
        /\ pc' \in {"idle", "age", "audit"}
        /\ early \subseteq early'
    BY <1>5, RememberFrame
  <2>2. PICK e \in Event : /\ mem' = mem \/ mem' = Append(mem, e)
                           /\ Filed' = Filed \/ Filed' = Append(Filed, e)
    BY <1>5, RememberFrame
  <2>3. HistoryKept
    BY <2>1 DEF HistoryKept
  <2>4. ASSUME NEW x \in effects, x.eval \notin early'
        PROVE  Noted(SessionOf(x.eval))'
    <3>1. NonceNoted(mem, SessionOf(x.eval))
      BY <2>1, <2>3, <2>4 DEF NonceInv, Noted
    <3>2. persist => NonceNoted(Filed, SessionOf(x.eval))
      BY <2>1, <2>3, <2>4 DEF NonceInv, Noted
    <3>3. /\ NonceNoted(mem', SessionOf(x.eval))
          /\ persist => NonceNoted(Filed', SessionOf(x.eval))
      BY <1>0, <2>2, <3>1, <3>2, NotedGrows
    <3>4. SessionOf(x.eval)' = SessionOf(x.eval)
      BY <2>1 DEF SessionOf
    <3> QED
      BY <2>1, <3>3, <3>4 DEF Noted, NonceNoted
  <2>5. ASSUME pc' \in Deciding, cur'.ok
        PROVE  Current' \in early' \/ Noted(session)'
    <3>1. CheckNonce
      BY <1>5, <2>5 DEF RememberStep, CheckNonceRaises, RecordDecision,
                        RecordDecisionRaises, Leave, Deciding
    <3>2. InEvaluation /\ cur \in Evaluation
      BY <3>1, InHandFacts DEF CheckNonce, InEvaluation
    <3>3. Remember(NonceUsed) /\ UNCHANGED cur
      BY <2>5, <3>1, <3>2 DEF CheckNonce, Evaluation
    <3>4. NonceUsed \in Event /\ session.issued \in Nat
      BY <3>2, EventTypes, SessionInHand
    <3>5. CASE session.issued > clock
      <4>1. early' = early \union {Current} /\ Current' = Current
        BY <2>1, <2>5, <3>1, <3>2, <3>5 DEF CheckNonce, Evaluation, Current
      <4> QED
        BY <4>1
    <3>6. CASE clock >= session.issued
      <4>1. mem' = Append(mem, NonceUsed) /\ (persist => Filed' = Append(Filed, NonceUsed))
        <5>1. mem' = Append(mem, NonceUsed)
          BY <3>3 DEF Remember
        <5>2. ASSUME persist PROVE Filed' = Append(Filed, NonceUsed)
          <6>1. PICK w : w = [event |-> NonceUsed, left |-> "line"]
            OBVIOUS
          <6>2. w \in Write /\ w.event = NonceUsed
            BY <3>4, <6>1 DEF Write
          <6>3. disk' = Append(disk, w)
            BY <3>3, <5>2, <6>1 DEF Remember
          <6> QED
            BY <6>2, <6>3, FiledGrows
        <5> QED
          BY <5>1, <5>2
      <4>2. /\ NonceNoted(mem', session)
            /\ persist => NonceNoted(Filed', session)
        BY <1>0, <3>4, <3>6, <4>1, NonceUsedNotes
      <4>3. session' = session
        BY <3>3 DEF session
      <4> QED
        BY <2>1, <4>2, <4>3 DEF Noted, NonceNoted
    <3> QED
      BY <1>0, <3>4, <3>5, <3>6
  <2> QED
    BY <2>1, <2>4, <2>5
<1>6. CASE ExecuteStep
  <2>1. /\ UNCHANGED <<clock, persist, mem, Filed, offered, early, crashed>>
        /\ pc = "enforce"
        /\ pc' \in {"idle", "record", "enforce"}
        /\ pc' = "enforce" => cur'.ok = cur.ok /\ cur'.sub = cur.sub
    BY <1>6, ExecuteFrame
  <2>2. PICK i \in cur.eligible : effects' \subseteq effects \union {ActionEffect(i)}
    BY <1>6, ExecuteFrame
  <2>3. HistoryKept
    BY <2>1 DEF HistoryKept
  <2>4. session = SessionOf(Current) /\ cur.ok
    BY <2>1, SessionInHand DEF InEvaluation, EvaluationInv
  <2>5. Current \in early \/ Noted(session)
    BY <2>1, <2>3, <2>4 DEF NonceInv
  <2>6. \A x \in effects' : x.eval \notin early => Noted(SessionOf(x.eval))
    BY <2>2, <2>3, <2>4, <2>5 DEF NonceInv, ActionEffect
  <2>7. \A x \in effects' : SessionOf(x.eval)' = SessionOf(x.eval)
    BY <2>1 DEF SessionOf
  <2>8. pc' \in Deciding => session' = session
    BY <2>1 DEF session, Deciding
  <2>9. \A x \in effects' : x.eval \notin early' => Noted(SessionOf(x.eval))'
    BY <2>1, <2>6, <2>7 DEF Noted, NonceNoted
  <2>10. pc' \in Deciding => Current' \in early' \/ Noted(session)'
    BY <2>1, <2>5, <2>8 DEF Noted, NonceNoted, Current
  <2> QED
    BY <2>9, <2>10
<1> QED
  BY <1>1, <1>2, <1>3, <1>4, <1>5, <1>6, StepKinds

-----------------------------------------------------------------------------
(* Replays.                                                                *)

(* A nonce that recent() no longer finds belongs to a session too old.     *)
LEMMA ForgottenIsTooOld ==
  ASSUME TypeOK, EvaluationInv, InEvaluation, ~NonceKnown, NonceNoted(mem, session)
  PROVE  TooOld
<1>1. PICK i \in DOMAIN mem : /\ mem[i].kind = "nonce_used"
                              /\ mem[i].agent = session.agent
                              /\ mem[i].nonce = session.nonce
                              /\ mem[i].at >= session.issued
  BY DEF NonceNoted
<1>2. ~(mem[i].at >= clock - MaxAge)
  BY <1>1 DEF NonceKnown, Recent
<1>3. mem[i].at \in Nat
  <2>1. mem[i] \in Event
    BY <1>1, ElementOfSeq DEF TypeOK
  <2> QED
    BY <2>1 DEF Event
<1>4. session.issued \in Nat /\ clock \in Nat /\ MaxAge \in Nat
  BY SessionInHand, LimitsAssumption DEF TypeOK
<1> QED
  BY <1>1, <1>2, <1>3, <1>4 DEF TooOld

LEMMA NextReplay ==
  ASSUME TypeOK, TypeOK', EvaluationInv, NonceInv, ReplayInv, [Next]_vars
  PROVE  ReplayInv'
<1> SUFFICES ASSUME HistoryKept', pc' \in Deciding, cur'.ok,
                    NEW x \in effects', SessionOf(x.eval)' = session',
                    x.eval \notin early'
             PROVE  IF pc' = "age" THEN TooOld' ELSE x.eval = Current'
  BY DEF ReplayInv, Deciding
<1>1. CASE Start \/ Crash \/ SubmitSome
  BY <1>1, SubmitFrame DEF Start, Crash, Deciding
<1>2. CASE QuietStep
  <2>1. UNCHANGED <<persist, offered, effects, early, crashed>>
    BY <1>2, QuietFrame
  <2>2. pc \in Deciding /\ cur.ok /\ cur'.sub = cur.sub
    BY <1>2, QuietSession
  <2>3. session' = session /\ HistoryKept /\ SessionOf(x.eval) = session
    BY <2>1, <2>2 DEF session, HistoryKept, SessionOf
  <2>4. pc = "age" => TooOld
    BY <2>1, <2>2, <2>3 DEF ReplayInv
  <2>5. pc # "age" => x.eval = Current
    BY <2>1, <2>2, <2>3 DEF ReplayInv, Deciding
  <2>6. Current' = Current
    BY <2>1 DEF Current
  <2>7. InEvaluation
    BY <2>2 DEF Deciding, InEvaluation
  <2>8. CASE \E b \in BOOLEAN : CheckAge(b)
    <3>1. cur \in Evaluation
      BY <2>7, InHandFacts
    <3>2. FreshSession /\ pc = "age"
      BY <2>8, <3>1 DEF CheckAge, Evaluation
    <3>3. session.issued \in Nat /\ clock \in Nat /\ MaxAge \in Nat
      BY <2>7, SessionInHand, LimitsAssumption DEF TypeOK
    <3> QED
      BY <2>4, <3>2, <3>3 DEF FreshSession, TooOld
  <2>9. CASE Tick
    <3>1. pc' = pc /\ clock' = clock + 1
      BY <2>9 DEF Tick
    <3>2. session.issued \in Nat /\ clock \in Nat /\ MaxAge \in Nat
      BY <2>7, SessionInHand, LimitsAssumption DEF TypeOK
    <3>3. TooOld => TooOld'
      BY <2>3, <3>1, <3>2 DEF TooOld
    <3> QED
      BY <2>4, <2>5, <2>6, <3>1, <3>3
  <2>10. CASE UNCHANGED vars
    <3>1. TooOld' <=> TooOld
      BY <2>10 DEF vars, TooOld, session
    <3> QED
      BY <2>4, <2>5, <2>6, <2>10, <3>1 DEF vars
  <2>11. CASE \/ \E b \in BOOLEAN : CheckQuota(b) \/ CheckControls(b)
              \/ \E level \in TrustLevels : Regulate(level)
              \/ AuditDecision \/ AuditDecisionRaises
    <3>1. pc # "age" /\ pc' # "age"
      BY <2>11 DEF CheckQuota, CheckControls, Regulate, AuditDecision,
                   AuditDecisionRaises, Leave
    <3> QED
      BY <2>5, <2>6, <3>1
  <2> QED
    BY <1>2, <2>8, <2>9, <2>10, <2>11 DEF QuietStep
<1>3. CASE RememberStep
  <2>1. UNCHANGED <<clock, persist, offered, effects, crashed>> /\ early \subseteq early'
    BY <1>3, RememberFrame
  <2>2. CheckNonce /\ pc = "nonce" /\ pc' = "age"
    BY <1>3 DEF RememberStep, CheckNonce, CheckNonceRaises, RecordDecision,
                RecordDecisionRaises, Leave, Deciding
  <2>3. InEvaluation /\ cur \in Evaluation
    BY <2>2, InHandFacts DEF InEvaluation
  <2>4. ~NonceKnown /\ cur' = cur
    BY <2>2, <2>3 DEF CheckNonce, Evaluation
  <2>5. session' = session /\ SessionOf(x.eval) = session /\ HistoryKept
    BY <2>1, <2>4 DEF session, SessionOf, HistoryKept
  <2>6. NonceNoted(mem, session)
    BY <2>1, <2>2, <2>5 DEF NonceInv, Noted
  <2>7. TooOld
    BY <2>3, <2>4, <2>6, ForgottenIsTooOld
  <2> QED
    BY <2>1, <2>2, <2>5, <2>7 DEF TooOld
<1>4. CASE ExecuteStep
  <2>1. /\ UNCHANGED <<clock, persist, mem, Filed, offered, early, crashed>>
        /\ pc = "enforce"
        /\ pc' \in {"idle", "record", "enforce"}
        /\ pc' = "enforce" => cur'.ok = cur.ok /\ cur'.sub = cur.sub
    BY <1>4, ExecuteFrame
  <2>2. PICK i \in cur.eligible : effects' \subseteq effects \union {ActionEffect(i)}
    BY <1>4, ExecuteFrame
  <2>3. pc' = "enforce" /\ cur.ok /\ session' = session
    BY <2>1 DEF Deciding, session
  <2>4. SessionOf(x.eval) = session /\ HistoryKept /\ Current' = Current
    BY <2>1, <2>3 DEF SessionOf, HistoryKept, Current
  <2>5. CASE x \in effects
    BY <2>1, <2>3, <2>4, <2>5 DEF ReplayInv
  <2>6. CASE x = ActionEffect(i)
    BY <2>3, <2>4, <2>6 DEF ActionEffect
  <2> QED
    BY <2>2, <2>5, <2>6
<1> QED
  BY <1>1, <1>2, <1>3, <1>4, StepKinds

LEMMA NextActsOnce ==
  ASSUME TypeOK, EvaluationInv, ReplayInv, SessionActsOnce, [Next]_vars
  PROVE  SessionActsOnce'
<1> SUFFICES ASSUME HistoryKept', NEW x \in effects', NEW y \in effects',
                    SessionOf(x.eval)' = SessionOf(y.eval)', x.eval < y.eval
             PROVE  x.eval \in early'
  BY DEF SessionActsOnce, HistoryKept, SessionOf
<1>1. ASSUME effects' = effects, early \subseteq early', HistoryKept,
             \A z \in effects : offered'[z.eval] = offered[z.eval]
      PROVE  x.eval \in early'
  BY <1>1 DEF SessionActsOnce, HistoryKept, SessionOf
<1>2. CASE Start
  BY <1>1, <1>2 DEF Start, HistoryKept
<1>3. CASE Crash
  BY <1>1, <1>3 DEF Crash, HistoryKept
<1>4. CASE SubmitSome
  <2>1. UNCHANGED <<persist, effects, early, crashed>>
    BY <1>4, SubmitFrame
  <2> QED
    BY <1>1, <1>4, <2>1, SubmitKeepsSessions DEF HistoryKept
<1>5. CASE QuietStep
  BY <1>1, <1>5, QuietFrame DEF HistoryKept
<1>6. CASE RememberStep
  BY <1>1, <1>6, RememberFrame DEF HistoryKept
<1>7. CASE ExecuteStep
  <2>1. UNCHANGED <<persist, offered, early, crashed>> /\ pc = "enforce"
    BY <1>7, ExecuteFrame
  <2>2. PICK i \in cur.eligible : effects' \subseteq effects \union {ActionEffect(i)}
    BY <1>7, ExecuteFrame
  <2>3. HistoryKept /\ SessionOf(x.eval) = SessionOf(y.eval)
    BY <2>1 DEF HistoryKept, SessionOf
  <2>4. session = SessionOf(Current) /\ cur.ok
    BY <2>1, SessionInHand DEF InEvaluation, EvaluationInv
  <2>5. \A z \in effects : SessionOf(z.eval) = SessionOf(Current) =>
          z.eval = Current \/ z.eval \in early
    BY <2>1, <2>3, <2>4 DEF ReplayInv
  <2>6. \A z \in effects' : z \in effects \/ z.eval = Current
    BY <2>2 DEF ActionEffect
  <2>7. \A z \in effects' : z.eval \in Nat /\ z.eval <= Current
    <3>1. \A z \in effects : z.eval \in DOMAIN offered
      BY DEF EvaluationInv
    <3>2. DOMAIN offered = 1..Current /\ Current \in Nat
      BY DEF TypeOK, Current
    <3> QED
      BY <2>6, <3>1, <3>2
  <2>8. x.eval # Current /\ x \in effects
    <3>1. Current \in Nat
      BY DEF TypeOK, Current
    <3> QED
      BY <2>6, <2>7, <3>1
  <2>9. y \in effects => x.eval \in early
    BY <2>3, <2>8 DEF SessionActsOnce, HistoryKept, SessionOf
  <2> QED
    BY <2>1, <2>3, <2>5, <2>6, <2>8, <2>9
<1> QED
  BY <1>2, <1>3, <1>4, <1>5, <1>6, <1>7, StepKinds

-----------------------------------------------------------------------------
(* The inductive invariant of replays.                                     *)

LEMMA InitInv == Init => IInv
<1> SUFFICES ASSUME Init PROVE IInv
  OBVIOUS
<1>1. BaseInv
  BY InitBase
<1>2. DOMAIN offered = {}
  BY DEF Init
<1> QED
  BY <1>1, <1>2 DEF Init, IInv, NonceInv, ReplayInv, SessionActsOnce

LEMMA NextInv == IInv /\ [Next]_vars => IInv'
<1> SUFFICES ASSUME IInv, [Next]_vars
             PROVE  IInv'
  OBVIOUS
<1>1. TypeOK /\ EvaluationInv /\ BaseInv'
  BY NextBase DEF IInv, BaseInv
<1>2. TypeOK'
  BY <1>1 DEF BaseInv
<1>3. NonceInv' /\ ReplayInv'
  BY <1>1, <1>2, NextNonce, NextReplay DEF IInv
<1>4. SessionActsOnce'
  BY <1>1, NextActsOnce DEF IInv
<1> QED
  BY <1>1, <1>3, <1>4 DEF IInv

(* A session acts a second time only if the nonce of the evaluation that   *)
(* acted first was noted before the session was issued: for any skew of    *)
(* the clocks, whatever else is submitted in between and wherever          *)
(* exceptions and, with a history file, restarts come.                     *)
THEOREM ReplayNeverActs == Spec => []SessionActsOnce
<1>1. IInv /\ [Next]_vars => IInv'
  BY NextInv
<1>2. IInv => SessionActsOnce
  BY DEF IInv
<1> QED
  BY <1>1, <1>2, InitInv, PTL DEF Spec

-----------------------------------------------------------------------------
(* The audit log tells of decisions that are in the history.               *)

(* The steps, by what they add to the audit log: one entry, of the         *)
(* evaluation that ends, or nothing.                                       *)
LEMMA AuditFrame ==
  [Next]_vars =>
    \/ audit' = audit
    \/ /\ pc = "audit" /\ pc' = "idle"
       /\ audit' = Append(audit, AuditEntry)
       /\ UNCHANGED <<persist, mem, disk, offered, effects>>
BY DEF Next, Start, Crash, Tick, SubmitSome, Submit, Preprocessing, CheckNonce,
       CheckNonceRaises, CheckAge, CheckQuota, CheckControls, Enforcement, Regulate,
       Execute, ExecuteRaises, Finalize, RecordDecision, RecordDecisionRaises,
       AuditDecision, AuditDecisionRaises, Leave, vars

(* The decision of an evaluation was written to the file, line break       *)
(* included.                                                               *)
Written(d, eval) == \E i \in DOMAIN d : /\ IsDecision(d[i].event, eval)
                                        /\ d[i].left = "line"

Behind(eval) == /\ pc # "down" => DecisionIn(mem, eval)
                /\ Written(disk, eval)

(* An evaluation that has an entry in the audit log, or is about to.       *)
Audited(eval) == \/ \E n \in DOMAIN audit : audit[n].eval = eval
                 \/ pc = "audit" /\ eval = Current

RecordedInv == persist => \A eval : Audited(eval) => Behind(eval)

LEMMA DecisionStays ==
  ASSUME NEW S, NEW h \in Seq(S), NEW e \in S, NEW i \in DOMAIN h
  PROVE  /\ i \in DOMAIN Append(h, e) /\ Append(h, e)[i] = h[i]
         /\ Len(h) + 1 \in DOMAIN Append(h, e) /\ Append(h, e)[Len(h) + 1] = e
OBVIOUS

(* No step takes a decision out of the history, while the process runs or  *)
(* when it starts again from a file that can be replayed.                  *)
LEMMA BehindStays ==
  ASSUME TypeOK, [Next]_vars, persist, NEW eval, Behind(eval)
  PROVE  persist' /\ Behind(eval)'
<1>0. mem \in Seq(Event) /\ disk \in Seq(Write)
  BY DEF TypeOK
<1>1. CASE RememberStep
  <2>1. PICK e \in Event : mem' = mem \/ mem' = Append(mem, e)
    BY <1>1, RememberFrame
  <2>2. disk' = disk \/ \E w \in Write : disk' = Append(disk, w)
    <3>1. InEvaluation
      BY <1>1, RememberFrame DEF InEvaluation
    <3>2. NonceUsed \in Event /\ TrustDecision \in Event
      BY <3>1, EventTypes
    <3> QED
      BY <1>1, <3>2, RememberTypes DEF RememberStep, CheckNonce, CheckNonceRaises,
         RecordDecision, RecordDecisionRaises
  <2>3. persist' = persist /\ pc # "down" /\ pc' # "down"
    BY <1>1, RememberFrame
  <2>4. DecisionIn(mem', eval)
    <3>1. PICK i \in DOMAIN mem : IsDecision(mem[i], eval)
      BY <2>3 DEF Behind, DecisionIn
    <3>2. i \in DOMAIN mem' /\ mem'[i] = mem[i]
      BY <1>0, <2>1, DecisionStays
    <3> QED
      BY <3>1, <3>2 DEF DecisionIn
  <2>5. Written(disk', eval)
    <3>1. PICK i \in DOMAIN disk : IsDecision(disk[i].event, eval) /\ disk[i].left = "line"
      BY DEF Behind, Written
    <3>2. i \in DOMAIN disk' /\ disk'[i] = disk[i]
      BY <1>0, <2>2, DecisionStays
    <3> QED
      BY <3>1, <3>2 DEF Written
  <2>6. (DecisionIn(mem, eval))' /\ (Written(disk, eval))'
    BY <2>4, <2>5 DEF DecisionIn, Written, IsDecision
  <2> QED
    BY <2>3, <2>6 DEF Behind
<1>2. CASE Start
  <2>1. mem' = Filed /\ UNCHANGED <<persist, disk>>
    BY <1>2 DEF Start
  <2>2. PICK i \in DOMAIN disk : IsDecision(disk[i].event, eval) /\ disk[i].left = "line"
    BY DEF Behind, Written
  <2>3. i \in DOMAIN Filed /\ Filed[i] = disk[i].event
    BY FiledTypes
  <2>4. DecisionIn(Filed, eval)
    BY <2>2, <2>3 DEF DecisionIn
  <2> QED
    BY <2>1, <2>4 DEF Behind, Written, DecisionIn, IsDecision
<1>3. CASE Crash
  BY <1>3 DEF Crash, Behind, Written, IsDecision
<1>4. CASE ~(RememberStep \/ Start \/ Crash)
  <2>1. UNCHANGED <<mem, disk, persist>> /\ (pc' = "down" <=> pc = "down")
    BY <1>4, StepKinds, QuietFrame, ExecuteFrame, SubmitFrame
  <2> QED
    BY <2>1 DEF Behind, Written, DecisionIn, IsDecision
<1> QED
  BY <1>1, <1>2, <1>3, <1>4

LEMMA NextRecorded ==
  ASSUME TypeOK, RecordedInv, [Next]_vars
  PROVE  RecordedInv'
<1> SUFFICES ASSUME persist', NEW v, Audited(v)'
             PROVE  Behind(v)'
  BY DEF RecordedInv
<1>1. persist' = persist
  BY StepKinds, QuietFrame, RememberFrame, ExecuteFrame, SubmitFrame DEF Start, Crash
<1>2. CASE Audited(v)
  BY <1>1, <1>2, BehindStays DEF RecordedInv
<1>3. CASE RecordDecision /\ v = Current
  <2>1. /\ TrustDecision \in Event
        /\ mem \in Seq(Event) /\ disk \in Seq(Write)
    BY <1>3, EventTypes DEF RecordDecision, InEvaluation, TypeOK
  <2>2. PICK w : w = [event |-> TrustDecision, left |-> "line"]
    OBVIOUS
  <2>3. w \in Write /\ w.event = TrustDecision /\ w.left = "line"
    BY <2>1, <2>2 DEF Write
  <2>4. mem' = Append(mem, TrustDecision) /\ disk' = Append(disk, w)
    BY <1>1, <1>3, <2>2 DEF RecordDecision, Remember
  <2>5. IsDecision(TrustDecision, v)
    BY <1>3 DEF TrustDecision, IsDecision
  <2>6. Len(mem) + 1 \in DOMAIN mem' /\ mem'[Len(mem) + 1] = TrustDecision
    BY <2>1, <2>4
  <2>7. Len(disk) + 1 \in DOMAIN disk' /\ disk'[Len(disk) + 1] = w
    BY <2>1, <2>3, <2>4
  <2>8. DecisionIn(mem', v) /\ Written(disk', v)
    BY <2>3, <2>5, <2>6, <2>7 DEF DecisionIn, Written
  <2> QED
    BY <2>8 DEF Behind, Written, DecisionIn, IsDecision
<1>4. CASE ~Audited(v) /\ ~(RecordDecision /\ v = Current)
  <2>1. ASSUME pc' = "audit", v = Current'
        PROVE  FALSE
    <3>1. CASE pc = "audit"
      <4>1. Current' = Current
        BY <2>1, <3>1, StepKinds, QuietFrame, RememberFrame, ExecuteFrame, SubmitFrame
           DEF Current, Start, Crash
      <4> QED
        BY <1>4, <2>1, <3>1, <4>1 DEF Audited
    <3>2. CASE RecordDecision
      BY <1>4, <2>1, <3>2 DEF RecordDecision, Current
    <3> QED
      BY <2>1, <3>1, <3>2
         DEF Next, Start, Crash, Tick, SubmitSome, Submit, Preprocessing, CheckNonce,
             CheckNonceRaises, CheckAge, CheckQuota, CheckControls, Enforcement, Regulate,
             Execute, ExecuteRaises, Finalize, RecordDecisionRaises, AuditDecision,
             AuditDecisionRaises, Leave, vars
  <2>2. PICK n \in DOMAIN audit' : audit'[n].eval = v
    BY <2>1 DEF Audited
  <2>3. CASE audit' = audit
    BY <1>4, <2>2, <2>3 DEF Audited
  <2>4. CASE pc = "audit" /\ audit' = Append(audit, AuditEntry)
    <3>1. audit \in Seq(Entry)
      BY DEF TypeOK
    <3>2. (n \in DOMAIN audit /\ audit'[n] = audit[n]) \/ audit'[n] = AuditEntry
      BY <2>2, <2>4, <3>1
    <3>3. AuditEntry.eval = Current
      BY DEF AuditEntry
    <3> QED
      BY <1>4, <2>2, <2>4, <3>2, <3>3 DEF Audited
  <2> QED
    BY <2>3, <2>4, AuditFrame
<1> QED
  BY <1>2, <1>3, <1>4

(* With a history file, every entry of the audit log is of a decision that *)
(* is in the memory of the running process and whose line was written to   *)
(* the file, where a restart finds it if it can read the file at all:      *)
(* whatever raised, whatever was cut short and whenever the process ended. *)
THEOREM AuditedRecorded == Spec => []AuditedIsRecorded
<1>1. Init => TypeOK /\ RecordedInv
  BY InitType DEF Init, RecordedInv, Audited
<1>2. TypeOK /\ RecordedInv /\ [Next]_vars => (TypeOK /\ RecordedInv)'
  BY NextType, NextRecorded
<1>3. RecordedInv => AuditedIsRecorded
  BY DEF RecordedInv, Audited, Behind, Written, AuditedIsRecorded, Replayable
<1> QED
  BY <1>1, <1>2, <1>3, PTL DEF Spec

-----------------------------------------------------------------------------
(* The audit log tells what became of a plan.                              *)

(* The eligible actions the executor was asked for, those it carried out,  *)
(* and those a mode lets run.                                              *)
Asked   == {i \in cur.eligible : i < cur.next}
Touched == {x.index : x \in EffectsOf(Current)}
RunsIn(mode, p) == {i \in DOMAIN p : mode = "restricted_action" => p[i] \in LowRisk}

(* An evaluation that has not come to the executor has done nothing; one   *)
(* that has touched only what it asked for, and if the executor reported   *)
(* each as done, all of it.                                                *)
NothingDone ==
  /\ cur.eligible = {} /\ cur.executed = 0 /\ cur.next = 1
  /\ ~cur.accepted /\ cur.mode = "none"

CountedInv ==
  /\ Touched \subseteq Asked
  /\ cur.executed <= Cardinality(Asked)
  /\ cur.executed = Cardinality(Asked) => Asked \subseteq Touched
  /\ cur.eligible # {} => /\ cur.accepted
                          /\ cur.mode \in {"restricted_action", "autonomous_execution"}
                          /\ cur.eligible = RunsIn(cur.mode, plan)
  /\ pc # "enforce" => Asked = cur.eligible

InHandInv ==
  /\ pc \in {"nonce", "age", "quota", "controls", "trust"} => NothingDone
  /\ pc \in {"enforce", "record", "audit"} => CountedInv

(* An entry is of an evaluation that is over.                              *)
OverInv ==
  \A n \in DOMAIN audit : /\ audit[n].eval \in DOMAIN offered
                          /\ InEvaluation => audit[n].eval # Current

TruthInv == OverInv /\ InHandInv /\ StatusTruthful

LEMMA NextOver ==
  ASSUME TypeOK, EvaluationInv, OverInv, [Next]_vars
  PROVE  OverInv'
<1>1. /\ offered \in Seq(Submission) /\ audit \in Seq(Entry) /\ Len(offered) \in Nat
      /\ DOMAIN offered = 1..Len(offered)
  BY DEF TypeOK
<1>2. CASE audit' = audit
  <2>1. CASE SubmitSome
    <3>1. /\ DOMAIN offered' = 1..Len(offered) + 1 /\ Len(offered') = Len(offered) + 1
      BY <1>1, <2>1, SubmitFrame
    <3>2. ASSUME NEW n \in DOMAIN audit
          PROVE  audit[n].eval \in DOMAIN offered' /\ audit[n].eval # Len(offered')
      BY <1>1, <3>1 DEF OverInv
    <3> QED
      BY <1>2, <3>2 DEF OverInv, Current
  <2>2. CASE ~SubmitSome
    <3>1. offered' = offered
      BY <2>2, StepKinds, QuietFrame, RememberFrame, ExecuteFrame DEF Start, Crash
    <3>2. InEvaluation' => InEvaluation
      BY <2>2 DEF Next, Start, Crash, Tick, Preprocessing, CheckNonce, CheckNonceRaises,
         CheckAge, CheckQuota, CheckControls, Enforcement, Regulate, Execute,
         ExecuteRaises, Finalize, RecordDecision, RecordDecisionRaises, AuditDecision,
         AuditDecisionRaises, Leave, InEvaluation, vars
    <3> QED
      BY <1>2, <3>1, <3>2 DEF OverInv, Current
  <2> QED
    BY <2>1, <2>2
<1>3. CASE /\ pc = "audit" /\ pc' = "idle"
           /\ audit' = Append(audit, AuditEntry)
           /\ UNCHANGED offered
  <2>1. AuditEntry.eval = Len(offered) /\ Len(offered) \in DOMAIN offered
    BY <1>1, <1>3 DEF AuditEntry, Current, EvaluationInv, InEvaluation
  <2>2. ASSUME NEW n \in DOMAIN audit'
        PROVE  (n \in DOMAIN audit /\ audit'[n] = audit[n]) \/ audit'[n] = AuditEntry
    BY <1>1, <1>3, <2>2
  <2> QED
    BY <1>3, <2>1, <2>2 DEF OverInv, InEvaluation
<1> QED
  BY <1>2, <1>3, AuditFrame

(* The set the executor was asked for is finite and grows by the next one. *)
LEMMA AskedFinite ==
  ASSUME TypeOK, InEvaluation
  PROVE  /\ IsFiniteSet(Asked) /\ Cardinality(Asked) \in Nat
         /\ IsFiniteSet(cur.eligible) /\ Cardinality(cur.eligible) \in Nat
<1>1. plan \in Seq(Capabilities) /\ cur.eligible \subseteq DOMAIN plan
  BY InHandFacts
<1>2. IsFiniteSet(1..Len(plan))
  BY <1>1, FS_Interval
<1>3. IsFiniteSet(cur.eligible)
  BY <1>1, <1>2, FS_Subset
<1>4. IsFiniteSet(Asked)
  BY <1>3, FS_Subset DEF Asked
<1> QED
  BY <1>3, <1>4, FS_CardinalityType

LEMMA CheckKeepsNothing ==
  ASSUME TypeOK, EvaluationInv, InHandInv,
         \/ CheckNonce
         \/ \E b \in BOOLEAN : CheckAge(b) \/ CheckQuota(b) \/ CheckControls(b)
  PROVE  NothingDone' /\ Touched' = {}
<1>1. pc \in {"nonce", "age", "quota", "controls"} /\ InEvaluation
  BY DEF CheckNonce, CheckAge, CheckQuota, CheckControls, InEvaluation
<1>2. NothingDone /\ cur \in Evaluation
  BY <1>1, InHandFacts DEF InHandInv
<1>3. UNCHANGED <<effects, offered>>
  BY DEF CheckNonce, CheckAge, CheckQuota, CheckControls
<1>4. \A x \in effects : x.eval # Current
  BY <1>1 DEF EvaluationInv
<1>5. cur' = cur \/ \E b : cur' = [cur EXCEPT !.ok = b]
  BY DEF CheckNonce, CheckAge, CheckQuota, CheckControls
<1>6. NothingDone'
  BY <1>2, <1>5 DEF NothingDone, Evaluation
<1> QED
  BY <1>3, <1>4, <1>6 DEF Touched, EffectsOf, Current

LEMMA RegulateCounts ==
  ASSUME TypeOK, EvaluationInv, ClearedInv, InHandInv,
         NEW level \in TrustLevels, Regulate(level)
  PROVE  CountedInv'
<1>1. pc = "trust" /\ InEvaluation
  BY DEF Regulate, InEvaluation
<1>2. /\ NothingDone /\ cur \in Evaluation /\ cur.sub \in Submission
      /\ plan \in Seq(Capabilities)
  BY <1>1, InHandFacts DEF InHandInv
<1> DEFINE mode == AutonomyMode[level]
<1> DEFINE eligible == {i \in DOMAIN plan : Eligible(plan[i], mode)}
<1>3. cur' = [cur EXCEPT !.mode = mode, !.accepted = mode # "read_only",
                         !.eligible = eligible]
  BY DEF Regulate
<1>4. /\ cur'.mode = mode /\ cur'.accepted = (mode # "read_only")
      /\ cur'.eligible = eligible /\ cur'.next = 1 /\ cur'.executed = 0
      /\ cur'.sub = cur.sub
  BY <1>2, <1>3 DEF Evaluation, NothingDone
<1>5. Asked' = {}
  BY <1>2, <1>4 DEF Asked
<1>6. Touched' = {}
  BY <1>1 DEF Touched, EffectsOf, Current, EvaluationInv, Regulate
<1>7. Cardinality({}) = 0
  BY FS_EmptySet
<1>8. ASSUME eligible # {}
      PROVE  /\ mode \in {"restricted_action", "autonomous_execution"}
             /\ eligible = RunsIn(mode, plan)
  <2>1. mode \in {"restricted_action", "autonomous_execution"}
    BY <1>8 DEF Eligible
  <2>2. \A i \in DOMAIN plan : plan[i] \in Known \intersect cur.sub.allowed
    BY <1>1 DEF ClearedInv, ClearedSubmission, plan
  <2> QED
    BY <2>1, <2>2 DEF Eligible, RunsIn
<1>9. plan' = plan
  BY <1>4 DEF plan
<1>10. pc' # "enforce" => eligible = {}
  BY DEF Regulate
<1>11. RunsIn(cur'.mode, plan') = RunsIn(mode, plan)
  BY <1>4, <1>9
<1>12. ASSUME cur'.eligible # {}
       PROVE  /\ cur'.accepted
              /\ cur'.mode \in {"restricted_action", "autonomous_execution"}
              /\ cur'.eligible = RunsIn(cur'.mode, plan')
  <2>1. eligible # {}
    BY <1>4, <1>12
  <2>2. mode # "read_only"
    BY <1>8, <2>1
  <2> QED
    BY <1>4, <1>8, <1>11, <2>1, <2>2
<1>13. pc' # "enforce" => Asked' = cur'.eligible
  BY <1>4, <1>5, <1>10
<1>14. Cardinality(Asked') = 0
  BY <1>5, <1>7
<1> HIDE DEF mode, eligible
<1> QED
  BY <1>4, <1>5, <1>6, <1>12, <1>13, <1>14 DEF CountedInv

LEMMA ExecuteCounts ==
  ASSUME TypeOK, CountedInv, NEW done \in BOOLEAN, NEW report \in Reports,
         Execute(done, report)
  PROVE  CountedInv'
<1>1. pc = "enforce" /\ InEvaluation
  BY DEF Execute, InEvaluation
<1>2. /\ cur \in Evaluation /\ cur.next \in Nat /\ cur.executed \in Nat
      /\ cur.eligible \subseteq DOMAIN plan /\ DOMAIN plan \subseteq Nat
  BY <1>1, InHandFacts DEF Evaluation
<1>3. PICK i \in cur.eligible :
        /\ IsNext(i) /\ CarriesOut(i, done)
        /\ cur' = [cur EXCEPT !.next = i + 1,
                              !.executed = IF report = "true" THEN @ + 1 ELSE @]
        /\ pc' = IF Remaining(i + 1) = {} THEN "record" ELSE "enforce"
  BY DEF Execute
<1>4. /\ cur'.next = i + 1 /\ cur'.eligible = cur.eligible /\ cur'.sub = cur.sub
      /\ cur'.accepted = cur.accepted /\ cur'.mode = cur.mode
      /\ cur'.executed = IF report = "true" THEN cur.executed + 1 ELSE cur.executed
  BY <1>2, <1>3 DEF Evaluation
<1>5. i \in Nat /\ i >= cur.next /\ \A j \in cur.eligible : j >= cur.next => i <= j
  BY <1>2, <1>3 DEF IsNext, Remaining
<1>6. Asked' = Asked \union {i} /\ i \notin Asked
  <2>1. \A j \in cur.eligible : j < i + 1 <=> (j < cur.next \/ j = i)
    BY <1>2, <1>5
  <2> QED
    BY <1>4, <1>5, <2>1, <1>2 DEF Asked
<1>7. Cardinality(Asked') = Cardinality(Asked) + 1 /\ Cardinality(Asked) \in Nat
  BY <1>1, <1>6, AskedFinite, FS_AddElement
<1>8. Touched' = IF done THEN Touched \union {i} ELSE Touched
  <2>1. offered' = offered
    BY DEF Execute
  <2>2. ActionEffect(i).eval = Current /\ ActionEffect(i).index = i
    BY DEF ActionEffect
  <2>3. EffectsOf(Current)' = IF done THEN EffectsOf(Current) \union {ActionEffect(i)}
                              ELSE EffectsOf(Current)
    BY <1>3, <2>1, <2>2 DEF CarriesOut, EffectsOf, Current
  <2> QED
    BY <2>2, <2>3 DEF Touched
<1>9. Touched' \subseteq Asked'
  BY <1>6, <1>8 DEF CountedInv
<1>10. cur'.executed <= Cardinality(Asked')
  BY <1>2, <1>4, <1>7 DEF CountedInv
<1>11. ASSUME cur'.executed = Cardinality(Asked')
       PROVE  Asked' \subseteq Touched'
  <2>1. report = "true" /\ cur.executed = Cardinality(Asked)
    BY <1>2, <1>4, <1>7, <1>11 DEF CountedInv
  <2>2. done
    BY <2>1 DEF Execute
  <2> QED
    BY <1>6, <1>8, <2>1, <2>2 DEF CountedInv
<1>12. ASSUME pc' # "enforce" PROVE Asked' = cur'.eligible
  <2>1. \A j \in cur.eligible : ~(j >= i + 1)
    BY <1>3, <1>12 DEF Remaining
  <2> QED
    BY <1>2, <1>4, <1>5, <2>1 DEF Asked
<1>13. ASSUME cur'.eligible # {}
       PROVE  /\ cur'.accepted
              /\ cur'.mode \in {"restricted_action", "autonomous_execution"}
              /\ cur'.eligible = RunsIn(cur'.mode, plan')
  <2>1. plan' = plan
    BY <1>4 DEF plan
  <2> QED
    BY <1>4, <1>13, <2>1 DEF CountedInv
<1> QED
  BY <1>9, <1>10, <1>11, <1>12, <1>13 DEF CountedInv

LEMMA NextInHand ==
  ASSUME TypeOK, EvaluationInv, ClearedInv, InHandInv, [Next]_vars
  PROVE  InHandInv'
<1>1. CASE SubmitSome
  <2>1. PICK s : cur' = Fresh(s) /\ pc' = "nonce"
    BY <1>1, SubmitFrame
  <2> QED
    BY <2>1 DEF InHandInv, NothingDone, Fresh
<1>2. CASE Tick \/ UNCHANGED vars
  BY <1>2 DEF Tick, vars, InHandInv, NothingDone, CountedInv, Asked, Touched, EffectsOf,
              Current, plan
<1>3. CASE \/ CheckNonce
           \/ \E b \in BOOLEAN : CheckAge(b) \/ CheckQuota(b) \/ CheckControls(b)
  <2>1. NothingDone' /\ Touched' = {}
    BY <1>3, CheckKeepsNothing
  <2>2. CountedInv'
    <3>1. Asked' = {} /\ cur'.eligible = {} /\ cur'.executed = 0
      BY <2>1 DEF Asked, NothingDone
    <3>2. Cardinality(Asked') = 0
      BY <3>1, FS_EmptySet
    <3> QED
      BY <2>1, <3>1, <3>2 DEF CountedInv
  <2> QED
    BY <2>1, <2>2 DEF InHandInv
<1>4. CASE \E level \in TrustLevels : Regulate(level)
  <2>1. pc' \in {"record", "enforce"}
    BY <1>4 DEF Regulate
  <2> QED
    BY <1>4, <2>1, RegulateCounts DEF InHandInv
<1>5. CASE \E done \in BOOLEAN, report \in Reports : Execute(done, report)
  <2>1. CountedInv /\ pc' \in {"record", "enforce"}
    BY <1>5 DEF Execute, InHandInv
  <2> QED
    BY <1>5, <2>1, ExecuteCounts DEF InHandInv
<1>6. CASE RecordDecision
  BY <1>6 DEF RecordDecision, InHandInv, CountedInv, Asked, Touched, EffectsOf, Current,
              plan
<1>7. CASE \/ Start \/ Crash \/ CheckNonceRaises \/ RecordDecisionRaises
           \/ AuditDecision \/ AuditDecisionRaises
           \/ \E done \in BOOLEAN : ExecuteRaises(done)
  BY <1>7 DEF Start, Crash, CheckNonceRaises, RecordDecisionRaises, AuditDecision,
              AuditDecisionRaises, ExecuteRaises, Leave, InHandInv
<1> QED
  BY <1>1, <1>2, <1>3, <1>4, <1>5, <1>6, <1>7
     DEF Next, Preprocessing, Enforcement, Finalize

(* An entry tells of the evaluation it ends what the executor did for it.  *)
LEMMA EntryTrue ==
  ASSUME TypeOK, EvaluationInv, CountedInv, pc = "audit"
  PROVE  /\ ExecutionStatus = "executed" => Touched = RunsIn(cur.mode, plan)
         /\ ExecutionStatus = "not_attempted" \/ ~cur.accepted => Touched = {}
<1>1. Asked = cur.eligible /\ InEvaluation
  BY DEF CountedInv, InEvaluation
<1>2. /\ cur.executed \in Nat /\ Cardinality(cur.eligible) \in Nat
      /\ IsFiniteSet(cur.eligible)
  BY <1>1, InHandFacts, AskedFinite DEF Evaluation
<1>3. ASSUME ExecutionStatus = "executed" PROVE Touched = RunsIn(cur.mode, plan)
  <2>1. /\ cur.eligible # {} /\ cur.executed # 0
        /\ cur.executed \notin 1..Cardinality(cur.eligible) - 1
    BY <1>3 DEF ExecutionStatus
  <2>2. cur.executed = Cardinality(Asked)
    BY <1>1, <1>2, <2>1 DEF CountedInv
  <2> QED
    BY <1>1, <2>1, <2>2 DEF CountedInv
<1>4. ASSUME ExecutionStatus = "not_attempted" \/ ~cur.accepted PROVE Touched = {}
  <2>1. cur.eligible = {}
    BY <1>4 DEF ExecutionStatus, CountedInv
  <2> QED
    BY <1>1, <2>1 DEF CountedInv
<1> QED
  BY <1>3, <1>4

LEMMA NextTruth ==
  ASSUME TypeOK, EvaluationInv, OverInv, InHandInv, StatusTruthful, [Next]_vars
  PROVE  StatusTruthful'
<1>1. /\ offered \in Seq(Submission) /\ audit \in Seq(Entry) /\ Len(offered) \in Nat
  BY DEF TypeOK
<1>2. ASSUME NEW n \in DOMAIN audit
      PROVE  /\ offered'[audit[n].eval] = offered[audit[n].eval]
             /\ {x \in effects' : x.eval = audit[n].eval} = EffectsOf(audit[n].eval)
  <2>1. audit[n].eval \in DOMAIN offered /\ (InEvaluation => audit[n].eval # Current)
    BY DEF OverInv
  <2>2. offered'[audit[n].eval] = offered[audit[n].eval]
    <3>1. CASE SubmitSome
      <4>1. PICK s : offered' = Append(offered, s)
        BY <3>1 DEF SubmitSome, Submit
      <4> QED
        BY <1>1, <2>1, <4>1
    <3>2. CASE ~SubmitSome
      BY <3>2, StepKinds, QuietFrame, RememberFrame, ExecuteFrame DEF Start, Crash
    <3> QED
      BY <3>1, <3>2
  <2>3. ASSUME NEW i, NEW done, InEvaluation, CarriesOut(i, done)
        PROVE  {x \in effects' : x.eval = audit[n].eval} = EffectsOf(audit[n].eval)
    <3>1. ActionEffect(i).eval # audit[n].eval
      BY <2>1, <2>3 DEF ActionEffect
    <3> QED
      BY <2>3, <3>1 DEF CarriesOut, EffectsOf
  <2>4. \/ effects' = effects
        \/ InEvaluation /\ \E i, done : CarriesOut(i, done)
    BY DEF Next, Start, Crash, Tick, SubmitSome, Submit, Preprocessing, CheckNonce,
           CheckNonceRaises, CheckAge, CheckQuota, CheckControls, Enforcement, Regulate,
           Execute, ExecuteRaises, Finalize, RecordDecision, RecordDecisionRaises,
           AuditDecision, AuditDecisionRaises, InEvaluation, vars
  <2> QED
    BY <2>2, <2>3, <2>4 DEF EffectsOf
<1> DEFINE
  Tells(r, p, touched) ==
    /\ r.status = "executed" => {x.index : x \in touched} = RunsIn(r.mode, p)
    /\ r.status = "not_attempted" \/ ~r.accepted => touched = {}
<1>3. ASSUME NEW n \in DOMAIN audit
      PROVE  Tells(audit[n], offered[audit[n].eval].plan, EffectsOf(audit[n].eval))
  BY DEF StatusTruthful, RunsIn
<1>4. SUFFICES ASSUME NEW n \in DOMAIN audit'
               PROVE  Tells(audit'[n], offered'[audit'[n].eval].plan,
                            {x \in effects' : x.eval = audit'[n].eval})
  BY DEF StatusTruthful, RunsIn, EffectsOf
<1>5. CASE audit' = audit
  <2>1. /\ offered'[audit[n].eval] = offered[audit[n].eval]
        /\ {x \in effects' : x.eval = audit[n].eval} = EffectsOf(audit[n].eval)
    BY <1>2, <1>4, <1>5
  <2>2. Tells(audit[n], offered[audit[n].eval].plan, EffectsOf(audit[n].eval))
    BY <1>3, <1>4, <1>5
  <2> HIDE DEF Tells
  <2> QED
    BY <1>5, <2>1, <2>2
<1>6. CASE /\ pc = "audit"
           /\ audit' = Append(audit, AuditEntry)
           /\ UNCHANGED <<offered, effects>>
  <2>1. (n \in DOMAIN audit /\ audit'[n] = audit[n]) \/ audit'[n] = AuditEntry
    BY <1>1, <1>4, <1>6
  <2>2. CASE n \in DOMAIN audit /\ audit'[n] = audit[n]
    BY <1>3, <1>6, <2>2 DEF EffectsOf
  <2>3. CASE audit'[n] = AuditEntry
    <3>1. CountedInv
      BY <1>6 DEF InHandInv
    <3>2. /\ ExecutionStatus = "executed" => Touched = RunsIn(cur.mode, plan)
          /\ ExecutionStatus = "not_attempted" \/ ~cur.accepted => Touched = {}
      BY <1>6, <3>1, EntryTrue
    <3>3. offered'[Current].plan = plan
      BY <1>6 DEF EvaluationInv, InEvaluation, plan
    <3>4. {x \in effects' : x.eval = Current} = EffectsOf(Current)
      BY <1>6 DEF EffectsOf
    <3>5. /\ AuditEntry.eval = Current /\ AuditEntry.accepted = cur.accepted
          /\ AuditEntry.mode = cur.mode /\ AuditEntry.status = ExecutionStatus
      BY DEF AuditEntry
    <3>6. Touched = {} <=> EffectsOf(Current) = {}
      BY DEF Touched
    <3> QED
      BY <2>3, <3>2, <3>3, <3>4, <3>5, <3>6 DEF Touched
  <2> QED
    BY <2>1, <2>2, <2>3
<1> QED
  BY <1>5, <1>6, AuditFrame

(* Whatever is raised, reported late or lost, and wherever the process     *)
(* ends, an entry of the audit log tells what became of its plan: all that *)
(* its mode lets run was carried out if it says "executed", and nothing if *)
(* it says that nothing was attempted or the plan was not accepted.        *)
THEOREM StatusIsTrue == Spec => []StatusTruthful
<1>1. Init => BaseInv /\ TruthInv
  BY InitBase DEF Init, TruthInv, OverInv, InHandInv, StatusTruthful, InEvaluation
<1>2. BaseInv /\ TruthInv /\ [Next]_vars => (BaseInv /\ TruthInv)'
  BY NextBase, NextOver, NextInHand, NextTruth DEF BaseInv, TruthInv
<1>3. TruthInv => StatusTruthful
  BY DEF TruthInv
<1> QED
  BY <1>1, <1>2, <1>3, PTL DEF Spec

-----------------------------------------------------------------------------
(* The quota.                                                              *)

LEMMA TimePasses ==
  TypeOK /\ [Next]_vars => clock \in Nat /\ clock' \in {clock, clock + 1}
<1> SUFFICES ASSUME TypeOK, [Next]_vars
             PROVE  clock \in Nat /\ clock' \in {clock, clock + 1}
  OBVIOUS
<1>1. clock \in Nat
  BY DEF TypeOK
<1>2. CASE SubmitSome
  BY <1>1, <1>2, SubmitFrame
<1>3. CASE ~SubmitSome
  BY <1>1, <1>3, StepKinds, RememberFrame, ExecuteFrame
     DEF Start, Crash, QuietStep, Tick, CheckAge, CheckQuota, CheckControls,
         Regulate, AuditDecision, AuditDecisionRaises, vars
<1> QED
  BY <1>1, <1>2, <1>3

(* The plan in hand is the one offered last.                               *)
LEMMA PlanInHand ==
  ASSUME TypeOK, EvaluationInv, InEvaluation
  PROVE  /\ Current \in DOMAIN offered
         /\ plan = offered[Current].plan
         /\ session = SessionOf(Current)
BY SessionInHand DEF EvaluationInv, plan

LEMMA QuietNext ==
  ASSUME TypeOK, QuietStep, pc' \in {"controls", "trust", "enforce", "record"}, cur'.ok
  PROVE  /\ pc \in {"quota", "controls", "trust", "enforce", "record"}
         /\ cur.ok
         /\ cur'.sub = cur.sub
         /\ pc = "quota" => RecentActionCount + Len(plan) <= Quota /\ clock' = clock
         /\ pc' = "enforce" => pc = "trust" \/ (pc = "enforce" /\ cur' = cur)
<1>1. pc \in {"quota", "controls", "trust", "enforce", "record"}
  BY DEF QuietStep, Tick, CheckAge, CheckQuota, CheckControls, Regulate,
         AuditDecision, AuditDecisionRaises, Leave, vars
<1>2. cur \in Evaluation
  BY <1>1, InHandFacts DEF InEvaluation
<1>3. CASE \E b \in BOOLEAN : CheckQuota(b)
  BY <1>2, <1>3 DEF CheckQuota, Evaluation
<1>4. CASE \E level \in TrustLevels : Regulate(level)
  BY <1>2, <1>4 DEF Regulate, Evaluation
<1>5. CASE UNCHANGED <<pc, cur>>
  BY <1>1, <1>5 DEF QuietStep, Tick, CheckAge, CheckQuota, CheckControls, Regulate,
         AuditDecision, AuditDecisionRaises, Leave, vars
<1> QED
  BY <1>1, <1>3, <1>4, <1>5
     DEF QuietStep, Tick, CheckAge, CheckControls, AuditDecision,
         AuditDecisionRaises, Leave, vars

(* The step that carries out an action: the next eligible one.             *)
LEMMA ExecuteActs ==
  ASSUME TypeOK, ExecuteStep
  PROVE  \E i \in cur.eligible :
           /\ i \in DOMAIN plan /\ i \in Nat
           /\ cur.next \in Nat /\ i >= cur.next
           /\ effects' = effects \/ effects' = effects \union {ActionEffect(i)}
           /\ pc' # "idle" => /\ cur'.next = i + 1
                              /\ cur'.ok = cur.ok
                              /\ cur'.sub = cur.sub
<1>1. InEvaluation
  BY ExecuteFrame DEF InEvaluation
<1>2. cur \in Evaluation /\ cur.eligible \subseteq DOMAIN plan /\ DOMAIN plan \subseteq Nat
  BY <1>1, InHandFacts
<1>3. cur.next \in Nat
  BY <1>2 DEF Evaluation
<1>4. CASE \E done \in BOOLEAN, report \in Reports : Execute(done, report)
  <2>1. PICK done \in BOOLEAN, report \in Reports : Execute(done, report)
    BY <1>4
  <2>2. PICK i \in cur.eligible :
          /\ IsNext(i)
          /\ CarriesOut(i, done)
          /\ cur' = [cur EXCEPT !.next = i + 1,
                                !.executed = IF report = "true" THEN @ + 1 ELSE @]
    BY <2>1 DEF Execute
  <2>3. cur'.next = i + 1 /\ cur'.ok = cur.ok /\ cur'.sub = cur.sub
    BY <1>2, <2>2 DEF Evaluation
  <2>4. i >= cur.next
    BY <2>2 DEF IsNext, Remaining
  <2> QED
    BY <1>2, <1>3, <2>2, <2>3, <2>4 DEF CarriesOut
<1>5. CASE \E done \in BOOLEAN : ExecuteRaises(done)
  <2>1. PICK done \in BOOLEAN, i \in cur.eligible : IsNext(i) /\ CarriesOut(i, done)
    BY <1>5 DEF ExecuteRaises
  <2>2. pc' = "idle"
    BY <1>5 DEF ExecuteRaises, Leave
  <2>3. i >= cur.next
    BY <2>1 DEF IsNext, Remaining
  <2> QED
    BY <1>2, <1>3, <2>1, <2>2, <2>3 DEF CarriesOut
<1> QED
  BY <1>4, <1>5 DEF ExecuteStep

LEMMA NextEffects ==
  ASSUME TypeOK, TypeOK', EvaluationInv, EffectsInv, [Next]_vars
  PROVE  EffectsInv'
<1>0. /\ IsFiniteSet(effects)
      /\ \A x \in effects : EffectTrue(x) /\ x.eval \in DOMAIN offered
      /\ \A x, y \in effects : x.eval = y.eval /\ x.index = y.index => x = y
  BY DEF EffectsInv, EvaluationInv
<1>1. clock \in Nat /\ clock' \in {clock, clock + 1}
  BY TimePasses
<1>2. \A x \in effects : x.at \in Nat /\ x.index \in Nat
  BY DEF TypeOK, Effect
<1>3. CASE Start \/ Crash
  <2>1. UNCHANGED <<clock, offered, effects>> /\ pc' # "enforce"
    BY <1>3 DEF Start, Crash
  <2>2. \A x \in effects : EffectTrue(x)'
    BY <1>0, <2>1 DEF EffectTrue, SessionOf
  <2> QED
    BY <1>0, <2>1, <2>2 DEF EffectsInv
<1>4. CASE SubmitSome
  <2>1. UNCHANGED <<clock, effects>> /\ pc' = "nonce"
    BY <1>4, SubmitFrame
  <2>2. \A x \in effects : EffectTrue(x)'
    BY <1>0, <1>4, <2>1, SubmitKeepsSessions DEF EffectTrue, SessionOf
  <2> QED
    BY <1>0, <2>1, <2>2 DEF EffectsInv
<1>5. CASE QuietStep
  <2>1. UNCHANGED <<offered, effects>>
    BY <1>5, QuietFrame
  <2>2. pc' = "enforce" => pc = "trust" \/ (pc = "enforce" /\ cur' = cur)
    BY <1>5 DEF QuietStep, Tick, CheckAge, CheckQuota, CheckControls, Regulate,
                AuditDecision, AuditDecisionRaises, Leave, vars
  <2>3. pc = "trust" => \A x \in effects : x.eval # Current
    BY DEF EvaluationInv
  <2>4. \A x \in effects : EffectTrue(x)'
    BY <1>0, <1>1, <1>2, <2>1, <2>2, <2>3 DEF EffectTrue, SessionOf, Current
  <2> QED
    BY <1>0, <2>1, <2>4 DEF EffectsInv
<1>6. CASE RememberStep
  <2>1. UNCHANGED <<clock, offered, effects>> /\ pc' # "enforce"
    BY <1>6, RememberFrame
  <2>2. \A x \in effects : EffectTrue(x)'
    BY <1>0, <2>1 DEF EffectTrue, SessionOf
  <2> QED
    BY <1>0, <2>1, <2>2 DEF EffectsInv
<1>7. CASE ExecuteStep
  <2>1. UNCHANGED <<clock, offered>> /\ pc = "enforce" /\ InEvaluation
        /\ pc' \in {"idle", "record", "enforce"}
    BY <1>7, ExecuteFrame DEF InEvaluation
  <2>2. PICK i \in cur.eligible :
           /\ i \in DOMAIN plan /\ i \in Nat
           /\ cur.next \in Nat /\ i >= cur.next
           /\ effects' = effects \/ effects' = effects \union {ActionEffect(i)}
           /\ pc' # "idle" => cur'.next = i + 1
    BY <1>7, ExecuteActs
  <2>0. PICK e : e = ActionEffect(i)
    OBVIOUS
  <2>3. e.eval = Current /\ e.agent = session.agent /\ e.at = clock /\ e.index = i
    BY <2>0 DEF ActionEffect
  <2>4. \A x \in effects : x.eval = Current => x.index < i
    BY <1>0, <1>2, <2>1, <2>2 DEF EffectTrue
  <2>5. IsFiniteSet(effects')
    BY <1>0, <2>2, FS_AddElement
  <2>6. \A x \in effects : EffectTrue(x)'
    <3>1. ASSUME NEW x \in effects, pc' = "enforce", x.eval = Current
          PROVE  x.index < cur'.next
      BY <1>2, <2>2, <2>4, <3>1
    <3> QED
      BY <1>0, <2>1, <3>1 DEF EffectTrue, SessionOf, Current
  <2>7. EffectTrue(e)'
    <3>1. e.index \in DOMAIN offered[e.eval].plan /\ e.agent = SessionOf(e.eval).agent
      BY <2>1, <2>2, <2>3, PlanInHand
    <3>2. pc' = "enforce" => e.index < cur'.next
      BY <2>2, <2>3
    <3> QED
      BY <1>1, <2>1, <2>3, <3>1, <3>2 DEF EffectTrue, SessionOf
  <2>8. effects' \subseteq effects \union {e}
    BY <2>0, <2>2
  <2>9. \A x, y \in effects' : x.eval = y.eval /\ x.index = y.index => x = y
    BY <1>0, <1>2, <2>0, <2>2, <2>3, <2>4, <2>8
  <2> QED
    BY <2>5, <2>6, <2>7, <2>8, <2>9 DEF EffectsInv
<1> QED
  BY <1>3, <1>4, <1>5, <1>6, <1>7, StepKinds

(* What a decision in a history promises, of a single event.               *)
DecisionTrue(v) ==
  v.kind = "trust_decision" =>
    /\ v.eval \in DOMAIN offered
    /\ v.agent = SessionOf(v.eval).agent
    /\ v.caps = offered[v.eval].plan
    /\ \A x \in effects : x.eval = v.eval => x.at <= v.at
    /\ InEvaluation /\ pc # "audit" => v.eval # Current

LEMMA AppendKeeps ==
  ASSUME NEW h \in Seq(Event), NEW e \in Event, NEW g, g = h \/ g = Append(h, e)
  PROVE  /\ \A i \in DOMAIN g : (i \in DOMAIN h /\ g[i] = h[i]) \/ g[i] = e
         /\ \A i \in DOMAIN h : i \in DOMAIN g /\ g[i] = h[i]
<1>1. /\ DOMAIN Append(h, e) = 1..Len(h) + 1
      /\ DOMAIN h = 1..Len(h)
      /\ \A i \in DOMAIN h : Append(h, e)[i] = h[i]
      /\ Append(h, e)[Len(h) + 1] = e
      /\ Len(h) \in Nat
  OBVIOUS
<1> QED
  BY <1>1

LEMMA AppendDecision ==
  ASSUME NEW h \in Seq(Event), NEW e \in Event, NEW g, g = h \/ g = Append(h, e),
         NEW n
  PROVE  /\ DecisionIn(h, n) => DecisionIn(g, n)
         /\ DecisionIn(g, n) => \/ DecisionIn(h, n)
                                \/ e.kind = "trust_decision" /\ e.eval = n
BY AppendKeeps DEF DecisionIn, IsDecision

(* Which event append() is called with, and when.                          *)
LEMMA RememberWhat ==
  ASSUME TypeOK, RememberStep
  PROVE  /\ InEvaluation /\ pc # "audit"
         /\ \E e \in Event :
              /\ e.kind = "nonce_used" \/ (e = TrustDecision /\ pc' \in {"audit", "idle"})
              /\ mem' = mem \/ mem' = Append(mem, e)
              /\ Filed' = Filed \/ Filed' = Append(Filed, e)
              /\ Filed' # Filed => mem' = Append(mem, e)
<1>1. InEvaluation /\ pc # "audit"
  BY DEF RememberStep, CheckNonce, CheckNonceRaises, RecordDecision,
         RecordDecisionRaises, InEvaluation
<1>2. NonceUsed \in Event /\ TrustDecision \in Event
  BY <1>1, EventTypes
<1>3. NonceUsed.kind = "nonce_used"
  BY DEF NonceUsed
<1>6. ASSUME NEW e \in Event, Remember(e) \/ RememberRaises(e)
      PROVE  /\ mem' = mem \/ mem' = Append(mem, e)
             /\ Filed' = Filed \/ Filed' = Append(Filed, e)
             /\ Filed' # Filed => mem' = Append(mem, e)
  <2>1. disk' = disk \/ \E w \in Write : w.event = e /\ disk' = Append(disk, w)
    BY <1>6, RememberTypes
  <2>2. disk' = disk => Filed' = Filed
    BY DEF Filed
  <2>3. Filed' = Filed \/ Filed' = Append(Filed, e)
    BY <2>1, <2>2, FiledGrows
  <2> QED
    BY <1>6, <2>3 DEF Remember, RememberRaises
<1>4. CASE CheckNonce \/ CheckNonceRaises
  <2>1. (mem' = mem /\ disk' = disk) \/ Remember(NonceUsed) \/ RememberRaises(NonceUsed)
    BY <1>4 DEF CheckNonce, CheckNonceRaises
  <2>2. disk' = disk => Filed' = Filed
    BY DEF Filed
  <2> QED
    BY <1>1, <1>2, <1>3, <1>6, <2>1, <2>2
<1>5. CASE RecordDecision \/ RecordDecisionRaises
  <2>1. /\ Remember(TrustDecision) \/ RememberRaises(TrustDecision)
        /\ pc' \in {"audit", "idle"}
    BY <1>5 DEF RecordDecision, RecordDecisionRaises, Leave
  <2> QED
    BY <1>1, <1>2, <1>6, <2>1
<1> QED
  BY <1>4, <1>5 DEF RememberStep

LEMMA NextDecisions ==
  ASSUME TypeOK, EvaluationInv, EffectsInv, DecisionsInv, [Next]_vars
  PROVE  DecisionsInv'
<1> DEFINE In(v, h) == \E i \in DOMAIN h : v = h[i]
<1>0. mem \in Seq(Event) /\ Filed \in Seq(Event)
  BY FiledTypes DEF TypeOK
<1>1. ASSUME NEW v, In(v, mem) \/ In(v, Filed)
      PROVE  DecisionTrue(v)
  BY <1>1 DEF DecisionsInv, DecisionsTrue, DecisionTrue
<1>2. persist /\ pc # "down" =>
        \A n \in DOMAIN offered : DecisionIn(Filed, n) => DecisionIn(mem, n)
  BY DEF DecisionsInv
<1> SUFFICES /\ \A v : In(v, mem') \/ In(v, Filed') => DecisionTrue(v)'
             /\ persist' /\ pc' # "down" =>
                  \A n \in DOMAIN offered' : DecisionIn(Filed', n) => DecisionIn(mem', n)
  BY DEF DecisionsInv, DecisionsTrue, DecisionTrue, DecisionIn, IsDecision
<1>3. CASE Start \/ Crash
  <2>1. /\ UNCHANGED <<persist, Filed, offered, effects>>
        /\ pc' \in {"down", "idle"}
        /\ mem' = << >> \/ mem' = Filed
        /\ pc' # "down" /\ persist => mem' = Filed
    BY <1>3 DEF Start, Crash, Filed
  <2>2. \A v : In(v, mem') => In(v, Filed)
    BY <2>1
  <2>3. ~InEvaluation'
    BY <2>1 DEF InEvaluation
  <2> QED
    BY <1>1, <2>1, <2>2, <2>3 DEF DecisionTrue, SessionOf
<1>4. CASE SubmitSome
  <2>1. PICK s \in Submission :
           /\ offered' = Append(offered, s)
           /\ UNCHANGED <<persist, mem, Filed, effects>>
           /\ pc = "idle"
    BY <1>4, SubmitFrame
  <2>2. /\ DOMAIN offered' = 1..Len(offered) + 1
        /\ DOMAIN offered = 1..Len(offered)
        /\ Len(offered') = Len(offered) + 1
        /\ Len(offered) \in Nat
        /\ \A n \in DOMAIN offered : offered'[n] = offered[n]
    BY <2>1 DEF TypeOK
  <2>3. ASSUME NEW v, In(v, mem) \/ In(v, Filed)
        PROVE  DecisionTrue(v)'
    BY <1>1, <2>1, <2>2, <2>3 DEF DecisionTrue, SessionOf, Current
  <2>4. \A n \in DOMAIN offered' \ DOMAIN offered : ~DecisionIn(Filed, n)
    BY <1>1 DEF DecisionIn, IsDecision, DecisionTrue
  <2> QED
    BY <1>2, <2>1, <2>3, <2>4 DEF DecisionIn, IsDecision
<1>5. CASE QuietStep
  <2>1. /\ UNCHANGED <<persist, mem, Filed, offered, effects>>
        /\ pc' = "down" <=> pc = "down"
    BY <1>5, QuietFrame
  <2>2. InEvaluation' /\ pc' # "audit" => InEvaluation /\ pc # "audit"
    BY <1>5 DEF QuietStep, Tick, CheckAge, CheckQuota, CheckControls, Regulate,
         AuditDecision, AuditDecisionRaises, Leave, InEvaluation, vars
  <2>3. ASSUME NEW v, In(v, mem) \/ In(v, Filed)
        PROVE  DecisionTrue(v)'
    BY <1>1, <2>1, <2>2, <2>3 DEF DecisionTrue, SessionOf, Current
  <2> QED
    BY <1>2, <2>1, <2>3
<1>6. CASE RememberStep
  <2>1. UNCHANGED <<clock, persist, offered, effects>> /\ InEvaluation /\ pc # "audit"
    BY <1>6, RememberFrame, RememberWhat
  <2>2. PICK e \in Event :
           /\ e.kind = "nonce_used" \/ (e = TrustDecision /\ pc' \in {"audit", "idle"})
           /\ mem' = mem \/ mem' = Append(mem, e)
           /\ Filed' = Filed \/ Filed' = Append(Filed, e)
           /\ Filed' # Filed => mem' = Append(mem, e)
    BY <1>6, RememberWhat
  <2>3. ASSUME NEW v, In(v, mem) \/ In(v, Filed)
        PROVE  DecisionTrue(v)'
    BY <1>1, <2>1, <2>3 DEF DecisionTrue, SessionOf, Current
  <2>4. DecisionTrue(e)'
    <3>1. CASE e.kind = "nonce_used"
      BY <3>1 DEF DecisionTrue
    <3>2. CASE e = TrustDecision /\ pc' \in {"audit", "idle"}
      <4>1. e.eval = Current /\ e.agent = session.agent /\ e.caps = plan /\ e.at = clock
        BY <3>2 DEF TrustDecision
      <4>2. /\ Current \in DOMAIN offered
            /\ e.agent = SessionOf(Current).agent
            /\ e.caps = offered[Current].plan
        BY <2>1, <4>1, PlanInHand
      <4>3. \A x \in effects : x.at <= e.at
        BY <4>1 DEF EffectsInv, EffectTrue
      <4> QED
        BY <2>1, <3>2, <4>1, <4>2, <4>3 DEF DecisionTrue, SessionOf, InEvaluation
    <3> QED
      BY <2>2, <3>1, <3>2
  <2>5. \A v : In(v, mem') \/ In(v, Filed') => DecisionTrue(v)'
    <3>1. /\ \A i \in DOMAIN mem' : (i \in DOMAIN mem /\ mem'[i] = mem[i]) \/ mem'[i] = e
          /\ \A i \in DOMAIN Filed' : (i \in DOMAIN Filed /\ Filed'[i] = Filed[i]) \/ Filed'[i] = e
      <4>1. \A i \in DOMAIN mem' : (i \in DOMAIN mem /\ mem'[i] = mem[i]) \/ mem'[i] = e
        BY <1>0, <2>2, AppendKeeps
      <4>2. \A i \in DOMAIN Filed' : (i \in DOMAIN Filed /\ Filed'[i] = Filed[i]) \/ Filed'[i] = e
        BY <1>0, <2>2, AppendKeeps
      <4> QED
        BY <4>1, <4>2
    <3>2. \A v : In(v, mem') \/ In(v, Filed') => In(v, mem) \/ In(v, Filed) \/ v = e
      BY <3>1
    <3> QED
      BY <2>3, <2>4, <3>2
  <2>6. ASSUME persist', NEW n \in DOMAIN offered', DecisionIn(Filed', n)
        PROVE  DecisionIn(mem', n)
    <3>1. DecisionIn(Filed, n) => DecisionIn(mem, n)
      BY <1>2, <2>1, <2>6 DEF InEvaluation
    <3>2. DecisionIn(mem, n) => DecisionIn(mem', n)
      BY <1>0, <2>2, AppendDecision
    <3>3. DecisionIn(Filed', n) =>
            DecisionIn(Filed, n) \/ (Filed' # Filed /\ e.kind = "trust_decision" /\ e.eval = n)
      BY <1>0, <2>2, AppendDecision
    <3>4. ASSUME mem' = Append(mem, e), e.kind = "trust_decision", e.eval = n
          PROVE  DecisionIn(mem', n)
      <4>1. Len(mem) + 1 \in DOMAIN mem' /\ mem'[Len(mem) + 1] = e
        BY <1>0, <3>4
      <4> QED
        BY <3>4, <4>1 DEF DecisionIn, IsDecision
    <3> QED
      BY <2>2, <2>6, <3>1, <3>2, <3>3, <3>4
  <2> QED
    BY <2>5, <2>6
<1>7. CASE ExecuteStep
  <2>1. /\ UNCHANGED <<clock, persist, mem, Filed, offered>>
        /\ pc = "enforce" /\ InEvaluation
    BY <1>7, ExecuteFrame DEF InEvaluation
  <2>2. PICK i \in cur.eligible : effects' \subseteq effects \union {ActionEffect(i)}
    BY <1>7, ExecuteFrame
  <2>3. ActionEffect(i).eval = Current
    BY DEF ActionEffect
  <2>4. ASSUME NEW v, In(v, mem) \/ In(v, Filed)
        PROVE  DecisionTrue(v)'
    <3>1. v.kind = "trust_decision" => v.eval # Current
      BY <1>1, <2>1, <2>4 DEF DecisionTrue
    <3> QED
      BY <1>1, <2>1, <2>2, <2>3, <2>4, <3>1 DEF DecisionTrue, SessionOf, Current
  <2> QED
    BY <1>2, <2>1, <2>4
<1> QED
  BY <1>3, <1>4, <1>5, <1>6, <1>7, StepKinds

(* What is left of the quota only grows while an evaluation goes on: time  *)
(* passes and nothing is counted that was not counted.                     *)
LEMMA RecentFinite ==
  TypeOK /\ InEvaluation => IsFiniteSet(RecentActions) /\ RecentActionCount \in Nat
<1> SUFFICES ASSUME TypeOK, InEvaluation
             PROVE  IsFiniteSet(RecentActions) /\ RecentActionCount \in Nat
  OBVIOUS
<1> DEFINE R == Recent(session.agent, "trust_decision", QuotaWindow)
           S == {{i} \X DOMAIN mem[i].caps : i \in R}
           f == [i \in R |-> {i} \X DOMAIN mem[i].caps]
<1>1. mem \in Seq(Event) /\ R \in SUBSET (1..Len(mem)) /\ Len(mem) \in Nat
  BY DEF TypeOK, Recent
<1>2. IsFiniteSet(R)
  <2>1. IsFiniteSet(1..Len(mem))
    BY <1>1, FS_Interval
  <2> HIDE DEF R
  <2> QED
    BY <1>1, <2>1, FS_Subset
<1>3. f \in Surjection(R, S)
  <2>1. f \in [R -> S]
    OBVIOUS
  <2>2. \A t \in S : \E i \in R : f[i] = t
    OBVIOUS
  <2> HIDE DEF f, S, R
  <2> QED
    BY <2>1, <2>2 DEF Surjection
<1>4. IsFiniteSet(S)
  BY <1>2, <1>3, FS_Surjection
<1>5. ASSUME NEW i \in R
      PROVE  IsFiniteSet({i} \X DOMAIN mem[i].caps)
  <2>1. i \in DOMAIN mem /\ mem[i] \in Event /\ mem[i].kind = "trust_decision"
    BY <1>1, ElementOfSeq DEF Recent
  <2>2. mem[i].caps \in Seq(Capabilities)
    BY <2>1, PolicyAssumption DEF Event
  <2>3. IsFiniteSet(DOMAIN mem[i].caps)
    BY <2>2, FS_Interval
  <2> QED
    BY <2>3, FS_Singleton, FS_Product
<1>6. IsFiniteSet(UNION S)
  BY <1>4, <1>5, FS_UNION
<1> QED
  BY <1>6, FS_CardinalityType DEF RecentActions, RecentActionCount

LEMMA NextRoom ==
  ASSUME TypeOK, EvaluationInv, RoomInv, [Next]_vars
  PROVE  RoomInv'
<1> SUFFICES ASSUME pc' \in {"controls", "trust", "enforce", "record"}, cur'.ok
             PROVE  (RecentActionCount + Len(plan))' <= Quota
  BY DEF RoomInv
<1>1. clock \in Nat /\ clock' \in {clock, clock + 1}
  BY TimePasses
<1>2. ASSUME InEvaluation, cur'.sub = cur.sub, mem' = mem,
             RecentActionCount + Len(plan) <= Quota
      PROVE  (RecentActionCount + Len(plan))' <= Quota
  <2>1. /\ IsFiniteSet(RecentActions)
        /\ RecentActionCount \in Nat
        /\ RecentActionCount = Cardinality(RecentActions)
    BY <1>2, RecentFinite DEF RecentActionCount
  <2>2. session' = session /\ plan' = plan
    BY <1>2 DEF session, plan
  <2>3. \A i \in DOMAIN mem : mem[i].at \in Nat
    BY ElementOfSeq DEF TypeOK, Event
  <2>4. Recent(session.agent, "trust_decision", QuotaWindow)'
          \subseteq Recent(session.agent, "trust_decision", QuotaWindow)
    BY <1>1, <1>2, <2>2, <2>3, LimitsAssumption DEF Recent
  <2>5. RecentActions' \subseteq RecentActions
    BY <1>2, <2>4 DEF RecentActions
  <2>6. /\ IsFiniteSet(RecentActions')
        /\ Cardinality(RecentActions') <= Cardinality(RecentActions)
    BY <2>1, <2>5, FS_Subset
  <2>7. RecentActionCount' = Cardinality(RecentActions') /\ RecentActionCount' \in Nat
    BY <2>6, FS_CardinalityType DEF RecentActionCount
  <2>8. plan \in Seq(Capabilities)
    BY <1>2, InHandFacts
  <2> QED
    BY <1>2, <2>1, <2>2, <2>6, <2>7, <2>8, LimitsAssumption
<1>3. CASE Start \/ Crash \/ SubmitSome
  BY <1>3, SubmitFrame DEF Start, Crash
<1>4. CASE QuietStep
  <2>1. /\ pc \in {"quota", "controls", "trust", "enforce", "record"}
        /\ cur.ok
        /\ cur'.sub = cur.sub
        /\ pc = "quota" => RecentActionCount + Len(plan) <= Quota
    BY <1>4, QuietNext
  <2>2. RecentActionCount + Len(plan) <= Quota
    BY <2>1 DEF RoomInv
  <2>3. InEvaluation /\ mem' = mem
    BY <1>4, <2>1, QuietFrame DEF InEvaluation
  <2> QED
    BY <1>2, <2>1, <2>2, <2>3
<1>5. CASE RememberStep
  BY <1>5, RememberFrame
<1>6. CASE ExecuteStep
  <2>1. pc = "enforce" /\ mem' = mem /\ InEvaluation
    BY <1>6, ExecuteFrame DEF InEvaluation
  <2>2. cur'.ok = cur.ok /\ cur'.sub = cur.sub
    BY <1>6, ExecuteActs
  <2>3. RecentActionCount + Len(plan) <= Quota
    BY <2>1, <2>2 DEF RoomInv
  <2> QED
    BY <1>2, <2>1, <2>2, <2>3
<1> QED
  BY <1>3, <1>4, <1>5, <1>6, StepKinds

(* While the plan acts, whatever counts for its agent is an action of the  *)
(* plan or one that the quota check found in the history.                  *)
LEMMA RoomSuffices ==
  /\ TypeOK /\ EvaluationInv /\ EffectsInv /\ DecisionsInv /\ RoomInv
  /\ pc \in {"enforce", "record"} /\ cur.ok
  => Cardinality(Counted(session.agent)) <= Quota
<1> SUFFICES ASSUME TypeOK, EvaluationInv, EffectsInv, DecisionsInv, RoomInv,
                    pc \in {"enforce", "record"}, cur.ok
             PROVE  Cardinality(Counted(session.agent)) <= Quota
  OBVIOUS
<1> DEFINE C == Counted(session.agent)
           P == {0} \X DOMAIN plan
           T == P \union RecentActions
           Stands(t, x) ==
             /\ t[2] = x.index
             /\ \/ t[1] = 0 /\ x.eval = Current
                \/ /\ t[1] # 0
                   /\ mem[t[1]].eval = x.eval
           f == [x \in C |-> CHOOSE t \in T : Stands(t, x)]
<1>1. /\ InEvaluation
      /\ plan \in Seq(Capabilities)
      /\ Current \in DOMAIN offered
      /\ plan = offered[Current].plan
      /\ mem \in Seq(Event)
      /\ RecentActionCount + Len(plan) <= Quota
  BY InHandFacts, PlanInHand DEF InEvaluation, RoomInv, TypeOK
<1>2. /\ IsFiniteSet(RecentActions)
      /\ RecentActionCount \in Nat
      /\ RecentActionCount = Cardinality(RecentActions)
  BY <1>1, RecentFinite DEF RecentActionCount
<1>3. IsFiniteSet(P) /\ Cardinality(P) = Len(plan)
  <2>1. PICK Z : Z = {0}
    OBVIOUS
  <2>2. PICK D : D = DOMAIN plan
    OBVIOUS
  <2>3. IsFiniteSet(Z) /\ Cardinality(Z) = 1
    BY <2>1, FS_Singleton
  <2>4. Len(plan) \in Nat /\ D = 1..Len(plan)
    BY <1>1, <2>2
  <2>5. IsFiniteSet(D) /\ Cardinality(D) = Len(plan)
    <3>1. IsFiniteSet(1..Len(plan)) /\ Cardinality(1..Len(plan)) = Len(plan)
      <4>1. PICK n \in Nat : n = Len(plan)
        BY <2>4
      <4>2. IsFiniteSet(1..n) /\ Cardinality(1..n) = n
        BY FS_Interval
      <4> QED
        BY <4>1, <4>2
    <3> QED
      BY <2>4, <3>1
  <2>6. IsFiniteSet(Z \X D) /\ Cardinality(Z \X D) = Cardinality(Z) * Cardinality(D)
    BY <2>3, <2>5, FS_Product
  <2>7. P = Z \X D
    BY <2>1, <2>2
  <2> HIDE DEF P
  <2> QED
    BY <2>3, <2>4, <2>5, <2>6, <2>7
<1>4. IsFiniteSet(T) /\ Cardinality(T) <= Len(plan) + RecentActionCount
  <2>1. /\ IsFiniteSet(T)
        /\ Cardinality(T) =
             Cardinality(P) + Cardinality(RecentActions) - Cardinality(P \cap RecentActions)
    BY <1>2, <1>3, FS_Union
  <2>2. Cardinality(P \cap RecentActions) \in Nat
    <3>1. P \cap RecentActions \in SUBSET P
      OBVIOUS
    <3> HIDE DEF P
    <3>2. IsFiniteSet(P \cap RecentActions)
      BY <1>3, <3>1, FS_Subset
    <3> QED
      BY <3>2, FS_CardinalityType
  <2>3. Cardinality(P) \in Nat /\ Cardinality(RecentActions) \in Nat
    <3> HIDE DEF P
    <3> QED
      BY <1>2, <1>3, FS_CardinalityType
  <2> QED
    BY <1>2, <1>3, <2>1, <2>2, <2>3
<1>5. ASSUME NEW x \in C
      PROVE  \E t \in T : Stands(t, x)
  <2>1. /\ x \in effects /\ EffectTrue(x)
        /\ x.agent = session.agent
        /\ clock - x.at <= QuotaWindow
        /\ x.eval = Current \/ DecisionIn(mem, x.eval)
    BY <1>1 DEF Counted, EffectsInv, History, InEvaluation
  <2>2. CASE x.eval = Current
    <3>1. <<0, x.index>> \in T
      BY <1>1, <2>1, <2>2 DEF EffectTrue
    <3>2. Stands(<<0, x.index>>, x)
      BY <2>2
    <3> QED
      BY <3>1, <3>2
  <2>3. CASE DecisionIn(mem, x.eval)
    <3>1. PICK i \in DOMAIN mem : mem[i].kind = "trust_decision" /\ mem[i].eval = x.eval
      BY <2>3 DEF DecisionIn, IsDecision
    <3>2. /\ mem[i].agent = SessionOf(x.eval).agent
          /\ mem[i].caps = offered[x.eval].plan
          /\ x.at <= mem[i].at
      BY <2>1, <3>1 DEF DecisionsInv, DecisionsTrue
    <3>3. x.at \in Nat /\ clock \in Nat /\ mem[i].at \in Nat /\ i \in Nat /\ i # 0
      BY <1>1, <2>1, <3>1, ElementOfSeq DEF TypeOK, Effect, Event
    <3>4. i \in Recent(session.agent, "trust_decision", QuotaWindow)
      BY <2>1, <3>1, <3>2, <3>3, LimitsAssumption DEF Recent, EffectTrue
    <3>5. x.index \in DOMAIN mem[i].caps
      BY <2>1, <3>2 DEF EffectTrue
    <3>6. <<i, x.index>> \in RecentActions
      BY <3>4, <3>5 DEF RecentActions
    <3>7. Stands(<<i, x.index>>, x)
      BY <3>1, <3>3
    <3> QED
      BY <3>6, <3>7
  <2> QED
    BY <2>1, <2>2, <2>3
<1>6. ASSUME NEW x \in C, NEW y \in C, NEW t, Stands(t, x), Stands(t, y)
      PROVE  x = y
  <2>1. x \in effects /\ y \in effects
    BY DEF Counted
  <2>2. x.index = y.index /\ x.eval = y.eval
    BY <1>6
  <2> QED
    BY <2>1, <2>2 DEF EffectsInv
<1>7. f \in [C -> T] /\ \A x \in C : Stands(f[x], x)
  <2> HIDE DEF C, T, Stands
  <2> QED
    BY <1>5
<1> HIDE DEF C, T, Stands, f
<1>8. f \in Injection(C, T)
  <2>1. \A x, y \in DOMAIN f : f[x] = f[y] => x = y
    BY <1>6, <1>7
  <2> QED
    BY <1>7, <2>1 DEF Injection, IsInjective
<1>9. IsFiniteSet(C) /\ Cardinality(C) <= Cardinality(T)
  BY <1>4, <1>8, FS_Injection
<1>10. Cardinality(C) \in Nat /\ Cardinality(T) \in Nat /\ Len(plan) \in Nat
  BY <1>1, <1>4, <1>9, FS_CardinalityType
<1>11. Cardinality(C) <= Quota
  BY <1>1, <1>2, <1>4, <1>9, <1>10, LimitsAssumption
<1> QED
  BY <1>11 DEF C

(* Only carrying out an action makes more count for an agent, and it is    *)
(* the agent whose plan acts.                                              *)
LEMMA CountedShrinks ==
  ASSUME TypeOK, EvaluationInv, EffectsInv, DecisionsInv, [Next]_vars, NEW a \in Agents,
         ~ (ExecuteStep /\ pc' # "idle" /\ a = session.agent)
  PROVE  Counted(a)' \subseteq Counted(a)
<1>1. clock \in Nat /\ clock' \in {clock, clock + 1}
  BY TimePasses
<1>2. \A x \in effects : x.at \in Nat /\ x.eval \in DOMAIN offered
  BY DEF TypeOK, Effect, EvaluationInv
<1>3. CASE Start
  BY <1>3 DEF Start, Counted, History, InEvaluation
<1>4. CASE Crash
  <2>1. /\ pc # "down" /\ pc' = "down"
        /\ UNCHANGED <<clock, persist, Filed, effects>>
    BY <1>4 DEF Crash, Filed
  <2>2. ASSUME NEW x \in effects, DecisionIn(History, x.eval)'
        PROVE  DecisionIn(History, x.eval)
    <3>1. persist /\ DecisionIn(Filed, x.eval)
      BY <2>1, <2>2 DEF History, DecisionIn, IsDecision
    <3> QED
      BY <1>2, <2>1, <3>1 DEF DecisionsInv, History
  <2> QED
    BY <2>1, <2>2 DEF Counted, InEvaluation
<1>5. CASE SubmitSome
  <2>1. PICK s \in Submission :
           /\ offered' = Append(offered, s)
           /\ UNCHANGED <<clock, persist, mem, Filed, effects>>
           /\ pc = "idle" /\ pc' = "nonce"
    BY <1>5, SubmitFrame
  <2>2. Len(offered') = Len(offered) + 1 /\ DOMAIN offered = 1..Len(offered)
        /\ Len(offered) \in Nat
    BY <2>1 DEF TypeOK
  <2>3. \A x \in effects : x.eval # Current'
    BY <1>2, <2>2 DEF Current
  <2> QED
    BY <2>1, <2>3 DEF Counted, History, DecisionIn, IsDecision
<1>6. CASE QuietStep
  <2>1. /\ UNCHANGED <<persist, mem, Filed, offered, effects>>
        /\ pc' = "down" <=> pc = "down"
    BY <1>6, QuietFrame
  <2>2. InEvaluation' => InEvaluation
    BY <1>6 DEF QuietStep, Tick, CheckAge, CheckQuota, CheckControls, Regulate,
         AuditDecision, AuditDecisionRaises, Leave, InEvaluation, vars
  <2>3. \A x \in effects : clock' - x.at <= QuotaWindow => clock - x.at <= QuotaWindow
    BY <1>1, <1>2, LimitsAssumption
  <2> QED
    BY <2>1, <2>2, <2>3 DEF Counted, History, DecisionIn, IsDecision, Current
<1>7. CASE RememberStep
  <2>1. /\ UNCHANGED <<clock, persist, offered, effects>> /\ InEvaluation
        /\ pc' # "down" /\ pc # "down"
    BY <1>7, RememberFrame, RememberWhat DEF InEvaluation
  <2>2. PICK e \in Event :
           /\ e.kind = "nonce_used" \/ (e = TrustDecision /\ pc' \in {"audit", "idle"})
           /\ mem' = mem \/ mem' = Append(mem, e)
    BY <1>7, RememberWhat
  <2>3. e.kind = "trust_decision" => e.eval = Current
    BY <2>2 DEF TrustDecision
  <2>4. \A x \in effects : DecisionIn(mem', x.eval) => DecisionIn(mem, x.eval) \/ x.eval = Current
    <3>1. mem \in Seq(Event)
      BY DEF TypeOK
    <3> QED
      BY <2>2, <2>3, <3>1, AppendDecision
  <2>5. \A x \in effects : DecisionIn(History, x.eval)' => DecisionIn(mem', x.eval)
    BY <2>1 DEF History, DecisionIn, IsDecision
  <2> QED
    BY <2>1, <2>4, <2>5 DEF Counted, History, Current
<1>8. CASE ExecuteStep
  <2>1. /\ UNCHANGED <<clock, persist, mem, Filed, offered>>
        /\ pc = "enforce" /\ pc' # "down" /\ InEvaluation
    BY <1>8, ExecuteFrame DEF InEvaluation
  <2>2. PICK i \in cur.eligible : effects' \subseteq effects \union {ActionEffect(i)}
    BY <1>8, ExecuteFrame
  <2>3. ActionEffect(i).eval = Current /\ ActionEffect(i).agent = session.agent
    BY DEF ActionEffect
  <2>4. ~DecisionIn(mem, Current)
    BY <2>1 DEF DecisionsInv, DecisionsTrue, DecisionIn, IsDecision
  <2>5. pc' = "idle" => ~InEvaluation'
    BY DEF InEvaluation
  <2>6. ActionEffect(i) \notin Counted(a)' \/ ActionEffect(i) \in effects
    BY <1>8, <2>1, <2>3, <2>4, <2>5 DEF Counted, History, DecisionIn, IsDecision
  <2> QED
    BY <2>1, <2>2, <2>6 DEF Counted, History, DecisionIn, IsDecision, Current
<1> QED
  BY <1>3, <1>4, <1>5, <1>6, <1>7, <1>8, StepKinds

LEMMA NextQuota ==
  ASSUME TypeOK, EvaluationInv, QuotaInv, [Next]_vars,
         TypeOK', EvaluationInv', EffectsInv', DecisionsInv', RoomInv'
  PROVE  QuotaKept'
<1> SUFFICES ASSUME NEW a \in Agents
             PROVE  Cardinality(Counted(a)') <= Quota
  BY DEF QuotaKept
<1>1. CASE ExecuteStep /\ pc' # "idle" /\ a = session.agent
  <2>1. pc = "enforce" /\ pc' \in {"record", "enforce"}
    BY <1>1, ExecuteFrame
  <2>2. cur'.ok = cur.ok /\ cur'.sub = cur.sub
    BY <1>1, ExecuteActs
  <2>3. cur'.ok /\ session' = session
    BY <2>1, <2>2 DEF EvaluationInv, session
  <2>4. Cardinality(Counted(session.agent))' <= Quota
    <3>1. (/\ TypeOK /\ EvaluationInv /\ EffectsInv /\ DecisionsInv /\ RoomInv
           /\ pc \in {"enforce", "record"} /\ cur.ok
           => Cardinality(Counted(session.agent)) <= Quota)'
      BY RoomSuffices, PTL
    <3> QED
      BY <2>1, <2>3, <3>1
  <2> QED
    BY <1>1, <2>3, <2>4 DEF Counted
<1>2. CASE ~ (ExecuteStep /\ pc' # "idle" /\ a = session.agent)
  <2>1. Counted(a)' \subseteq Counted(a)
    BY <1>2, CountedShrinks DEF QuotaInv
  <2>2. IsFiniteSet(Counted(a))
    <3>1. IsFiniteSet(effects) /\ Counted(a) \subseteq effects
      BY DEF QuotaInv, EffectsInv, Counted
    <3> QED
      BY <3>1, FS_Subset
  <2>3. Cardinality(Counted(a)) <= Quota
    BY DEF QuotaInv, QuotaKept
  <2>4. Cardinality(Counted(a)') <= Cardinality(Counted(a)) /\ IsFiniteSet(Counted(a)')
    BY <2>1, <2>2, FS_Subset
  <2>5. Cardinality(Counted(a)) \in Nat /\ Cardinality(Counted(a)') \in Nat
    BY <2>2, <2>4, FS_CardinalityType
  <2> QED
    BY <2>3, <2>4, <2>5, LimitsAssumption
<1> QED
  BY <1>1, <1>2

LEMMA InitQuota == Init => QuotaInv
<1> SUFFICES ASSUME Init PROVE QuotaInv
  OBVIOUS
<1>1. IsFiniteSet({}) /\ Cardinality({}) = 0
  BY FS_EmptySet
<1>2. \A a \in Agents : Counted(a) = {}
  BY DEF Init, Counted
<1>3. QuotaKept
  BY <1>1, <1>2, LimitsAssumption DEF QuotaKept
<1> QED
  BY <1>1, <1>3 DEF Init, QuotaInv, EffectsInv, DecisionsInv, DecisionsTrue, Filed, RoomInv

(* The actions carried out for an agent within any hour stay within the    *)
(* quota, for any plans, limits and faults: evaluate() counts an action    *)
(* only after it acted, and in the hour it was decided in, but nothing     *)
(* else is evaluated in between.                                           *)
THEOREM QuotaNeverExceeded == Spec => []QuotaKept
<1>1. Init => BaseInv /\ QuotaInv
  BY InitBase, InitQuota
<1>2. (BaseInv /\ QuotaInv) /\ [Next]_vars => (BaseInv /\ QuotaInv)'
  BY NextBase, NextEffects, NextDecisions, NextRoom, NextQuota DEF BaseInv, QuotaInv
<1>3. QuotaInv => QuotaKept
  BY DEF QuotaInv
<1> QED
  BY <1>1, <1>2, <1>3, PTL DEF Spec

=============================================================================
