--------------------------- MODULE FirewallProofs ---------------------------
(***************************************************************************)
(* Proofs about Firewall, for all addresses, targets, protected networks   *)
(* and backends, and any number of actions.                                *)
(***************************************************************************)
EXTENDS Firewall, TLAPS

-----------------------------------------------------------------------------
(* A command that adds a rule.                                             *)

(* The rule WithRule adds is one, and it is met first with iptables and    *)
(* last with every other backend.                                          *)
LEMMA WithRuleFacts ==
  ASSUME TypeOK, pc \in {"base", "accept", "drop"},
         NEW v \in {"accept_limited", "drop"}
  PROVE  /\ RuleFor(v) \in Rule
         /\ WithRule(v) \in Seq(Rule)
         /\ Len(WithRule(v)) = Len(rules) + 1
         /\ backend = "iptables" =>
              /\ WithRule(v)[1] = RuleFor(v)
              /\ \A i \in 1..Len(rules) : WithRule(v)[i + 1] = rules[i]
         /\ backend # "iptables" =>
              /\ WithRule(v)[Len(rules) + 1] = RuleFor(v)
              /\ \A i \in 1..Len(rules) : WithRule(v)[i] = rules[i]
<1>1. RuleFor(v) \in Rule /\ rules \in Seq(Rule)
  BY DEF TypeOK, Rule, RuleFor
<1>2. CASE backend = "iptables"
  BY <1>1, <1>2 DEF WithRule
<1>3. CASE backend # "iptables"
  BY <1>1, <1>3 DEF WithRule
<1> QED
  BY <1>2, <1>3, <1>1

(* A step keeps the rules, adds one for the action in hand, or deletes     *)
(* those of an action.                                                     *)
LEMMA StepKinds ==
  ASSUME TypeOK, [Next]_vars
  PROVE  \/ UNCHANGED rules
         \/ /\ pc \in {"accept", "drop"}
            /\ \E v \in {"accept_limited", "drop"} : rules' = WithRule(v)
         \/ \E action \in Action : RemoveBlockRule(action)
<1>1. CASE Execute
  BY <1>1 DEF Execute, Refuse, NetworkAction, LogAction, Asked, Begin, EnsureBase,
              AddAccept, AddDrop, Takes, CommandRaises, Interrupted, Finish
<1> QED
  BY <1>1 DEF Next, vars

-----------------------------------------------------------------------------
(* Type correctness.                                                       *)

LEMMA InitType == Init => TypeOK
<1> SUFFICES ASSUME Init PROVE TypeOK
  OBVIOUS
<1>1. << >> \in Seq(Rule) /\ << >> \in Seq(Record)
  OBVIOUS
<1> QED
  BY <1>1 DEF Init, TypeOK, Steps

LEMMA RulesType ==
  ASSUME TypeOK, [Next]_vars
  PROVE  rules' \in Seq(Rule)
<1>1. CASE UNCHANGED rules
  BY <1>1 DEF TypeOK
<1>2. CASE /\ pc \in {"accept", "drop"}
           /\ \E v \in {"accept_limited", "drop"} : rules' = WithRule(v)
  BY <1>2, WithRuleFacts
<1>3. ASSUME NEW action \in Action, RemoveBlockRule(action)
      PROVE  rules' \in Seq(Rule)
  <2>1. rules \in Seq(Rule)
    BY DEF TypeOK
  <2> DEFINE Changed(i) == IF Named(rules[i], action)
                           THEN [rules[i] EXCEPT !.verdict = "deleted"]
                           ELSE rules[i]
  <2>2. ASSUME NEW i \in 1..Len(rules) PROVE Changed(i) \in Rule
    <3>1. rules[i] \in Rule
      BY <2>1
    <3> QED
      BY <3>1 DEF Rule
  <2>3. rules' = [i \in 1..Len(rules) |-> Changed(i)]
    BY <1>3, <2>1 DEF RemoveBlockRule
  <2> HIDE DEF Changed
  <2> QED
    BY <2>1, <2>2, <2>3
<1> QED
  BY <1>1, <1>2, <1>3, StepKinds

LEMMA NextType == TypeOK /\ [Next]_vars => TypeOK'
<1> SUFFICES ASSUME TypeOK, [Next]_vars
             PROVE  TypeOK'
  OBVIOUS
<1>0. rules' \in Seq(Rule)
  BY RulesType
<1>1. CASE \E action \in Action : Refuse(action)
  BY <1>0, <1>1 DEF Refuse, Asked, TypeOK
<1>2. ASSUME NEW action \in Action, NetworkAction(action)
      PROVE  TypeOK'
  <2>1. /\ FirstStep(action) \in {"base", "accept", "drop"}
        /\ FirstStep(action) = "accept" => action.capability = "rate_limit"
    BY DEF FirstStep
  <2>2. action.capability \in NetworkCapabilities /\ action.target \in Networks
    BY <1>2 DEF NetworkAction, Actable
  <2>3. /\ cur' = action
        /\ pc' = FirstStep(action)
        /\ asked' \in Nat
        /\ UNCHANGED <<backend, base, log, lifted>>
        /\ succeeded' = FALSE
    BY <1>2 DEF NetworkAction, Begin, Asked, TypeOK
  <2> QED
    BY <1>0, <2>1, <2>2, <2>3 DEF TypeOK, Steps
<1>3. ASSUME NEW action \in Action, LogAction(action)
      PROVE  TypeOK'
  <2>1. /\ cur' = action
        /\ pc' = "record"
        /\ asked' \in Nat
        /\ UNCHANGED <<backend, base, log, lifted>>
        /\ succeeded' = FALSE
    BY <1>3 DEF LogAction, Begin, Asked, TypeOK
  <2> QED
    BY <1>0, <2>1 DEF TypeOK, Steps
<1>4. CASE \E works \in BOOLEAN : EnsureBase(works)
  BY <1>0, <1>4 DEF EnsureBase, TypeOK, Steps
<1>5. CASE \E works \in BOOLEAN : AddAccept(works) \/ AddDrop(works)
  BY <1>0, <1>5 DEF AddAccept, AddDrop, TypeOK, Steps
<1>6. CASE (\E works \in BOOLEAN : CommandRaises(works)) \/ Interrupted
  BY <1>0, <1>6 DEF CommandRaises, Interrupted, Raise, Leave, TypeOK, Steps
<1>7. CASE Finish
  <2>1. cur \in Action /\ Done \in BOOLEAN
    BY <1>7 DEF Finish, TypeOK, Done
  <2>2. [action |-> cur, ok |-> Done] \in Record
    BY <2>1 DEF Record
  <2>3. log' \in Seq(Record) /\ DOMAIN log \subseteq DOMAIN log'
    BY <1>7, <2>2 DEF Finish, TypeOK
  <2> QED
    BY <1>0, <1>7, <2>3 DEF Finish, Leave, TypeOK, Steps
<1>8. CASE \E action \in Action : RemoveBlockRule(action)
  BY <1>0, <1>8 DEF RemoveBlockRule, TypeOK
<1>9. CASE UNCHANGED vars
  BY <1>9 DEF vars, TypeOK
<1> QED
  BY <1>1, <1>2, <1>3, <1>4, <1>5, <1>6, <1>7, <1>8, <1>9 DEF Next, Execute

(* Every state has the declared types: in particular a rule is only ever   *)
(* built for a target that parses.                                         *)
THEOREM TypeCorrect == Spec => []TypeOK
<1>1. Init => TypeOK
  BY InitType
<1>2. TypeOK /\ [Next]_vars => TypeOK'
  BY NextType
<1> QED
  BY <1>1, <1>2, PTL DEF Spec

-----------------------------------------------------------------------------
(* With nft a blocked address stays blocked.                               *)

THEOREM BlockedForGood == Spec => BlockedStaysBlocked
<1>1. ASSUME TypeOK, [Next]_vars, NEW a \in Addresses, backend = "nft", Blocked(a)
      PROVE  Blocked(a)'
  <2>1. PICK i \in DOMAIN rules :
          /\ Applies(i, a, "drop")
          /\ \A j \in 1..i - 1 : ~Applies(j, a, "accept_limited")
    BY <1>1 DEF Blocked
  <2>2. rules \in Seq(Rule) /\ i \in 1..Len(rules) /\ i \in Nat
    BY <1>1 DEF TypeOK
  <2>3. i \in DOMAIN rules' /\ \A j \in 1..i : rules'[j] = rules[j]
    <3>1. CASE UNCHANGED rules
      BY <2>2, <3>1
    <3>2. ASSUME NEW v \in {"accept_limited", "drop"}, rules' = WithRule(v),
                 pc \in {"accept", "drop"}
          PROVE  i \in DOMAIN rules' /\ \A j \in 1..i : rules'[j] = rules[j]
      <4>1. /\ WithRule(v) \in Seq(Rule)
            /\ Len(WithRule(v)) = Len(rules) + 1
            /\ \A j \in 1..Len(rules) : WithRule(v)[j] = rules[j]
        BY <1>1, <3>2, WithRuleFacts
      <4> QED
        BY <2>2, <3>2, <4>1
    <3>3. ~(\E action \in Action : RemoveBlockRule(action))
      BY <1>1 DEF RemoveBlockRule
    <3> QED
      BY <1>1, <3>1, <3>2, <3>3, StepKinds
  <2> QED
    BY <2>1, <2>2, <2>3 DEF Blocked, Applies
<1>2. TypeOK /\ [Next]_vars =>
        [\A a \in Addresses : backend = "nft" /\ Blocked(a) => Blocked(a)']_vars
  BY <1>1
<1> QED
  BY <1>2, TypeCorrect, PTL DEF Spec, BlockedStaysBlocked

-----------------------------------------------------------------------------
(* The inductive invariant: protected addresses are left alone, and what   *)
(* was reported stands in the rules.                                       *)

(* A rule that stands for an action is there after any step, unless the    *)
(* step deletes the rules of its name.                                     *)
LEMMA RuleStaysUp ==
  ASSUME TypeOK, [Next]_vars, NEW act \in Action, RuleStands(act),
         ~\E action \in Action :
            RuleName(action) = RuleName(act) /\ RemoveBlockRule(action)
  PROVE  RuleStands(act)'
<1>1. PICK i \in DOMAIN rules : /\ rules[i].capability = act.capability
                                /\ rules[i].target = act.target
                                /\ rules[i].verdict = "drop"
  BY DEF RuleStands
<1>2. rules \in Seq(Rule) /\ i \in 1..Len(rules) /\ rules[i] \in Rule
  BY <1>1 DEF TypeOK
<1> SUFFICES \E k \in DOMAIN rules' : rules'[k] = rules[i]
  BY <1>1 DEF RuleStands
<1>3. CASE UNCHANGED rules
  BY <1>2, <1>3
<1>4. ASSUME NEW v \in {"accept_limited", "drop"}, rules' = WithRule(v),
             pc \in {"accept", "drop"}
      PROVE  \E k \in DOMAIN rules' : rules'[k] = rules[i]
  <2>1. rules' \in Seq(Rule) /\ Len(rules') = Len(rules) + 1
    BY <1>4, WithRuleFacts
  <2>2. CASE backend = "iptables"
    <3>1. rules'[i + 1] = rules[i] /\ i + 1 \in 1..Len(rules')
      BY <1>2, <1>4, <2>1, <2>2, WithRuleFacts
    <3> QED
      BY <2>1, <3>1
  <2>3. CASE backend # "iptables"
    <3>1. rules'[i] = rules[i] /\ i \in 1..Len(rules')
      BY <1>2, <1>4, <2>1, <2>3, WithRuleFacts
    <3> QED
      BY <2>1, <3>1
  <2> QED
    BY <2>2, <2>3
<1>5. ASSUME NEW action \in Action, RemoveBlockRule(action)
      PROVE  \E k \in DOMAIN rules' : rules'[k] = rules[i]
  <2>1. RuleName(action) # RuleName(act)
    BY <1>5
  <2>2. ~Named(rules[i], action)
    BY <1>1, <2>1 DEF Named, RuleName
  <2> QED
    BY <1>2, <1>5, <2>2 DEF RemoveBlockRule
<1> QED
  BY <1>3, <1>4, <1>5, StepKinds

LEMMA NextProtected == IInv /\ [Next]_vars => ProtectedUntouched'
<1> SUFFICES ASSUME IInv, [Next]_vars, NEW k \in DOMAIN rules', NEW p \in Protected
             PROVE  Covers[rules'[k].target] \intersect p = {}
  BY DEF ProtectedUntouched
<1>0. TypeOK /\ rules \in Seq(Rule)
  BY DEF IInv, TypeOK
<1>1. \A i \in 1..Len(rules) : Covers[rules[i].target] \intersect p = {}
  BY <1>0 DEF IInv, ProtectedUntouched
<1>2. CASE UNCHANGED rules
  BY <1>0, <1>1, <1>2
<1>3. ASSUME NEW v \in {"accept_limited", "drop"}, rules' = WithRule(v),
             pc \in {"accept", "drop"}
      PROVE  Covers[rules'[k].target] \intersect p = {}
  <2>1. Covers[cur.target] \intersect p = {}
    BY <1>3 DEF IInv, InHandInv, IsProtected
  <2>2. RuleFor(v).target = cur.target
    BY DEF RuleFor
  <2>3. k \in 1..Len(rules) + 1
    BY <1>0, <1>3, WithRuleFacts
  <2>4. \/ rules'[k] = RuleFor(v)
        \/ \E i \in 1..Len(rules) : rules'[k] = rules[i]
    <3>1. CASE backend = "iptables"
      <4>1. k = 1 \/ (k - 1 \in 1..Len(rules) /\ k = (k - 1) + 1)
        BY <1>0, <2>3
      <4> QED
        BY <1>0, <1>3, <3>1, <4>1, WithRuleFacts
    <3>2. CASE backend # "iptables"
      <4>1. k = Len(rules) + 1 \/ k \in 1..Len(rules)
        BY <1>0, <2>3
      <4> QED
        BY <1>0, <1>3, <3>2, <4>1, WithRuleFacts
    <3> QED
      BY <3>1, <3>2
  <2> QED
    BY <1>1, <2>1, <2>2, <2>4
<1>4. ASSUME NEW action \in Action, RemoveBlockRule(action)
      PROVE  Covers[rules'[k].target] \intersect p = {}
  <2>1. k \in 1..Len(rules) /\ rules[k] \in Rule
    BY <1>0, <1>4 DEF RemoveBlockRule
  <2>2. rules'[k].target = rules[k].target
    BY <1>0, <1>4, <2>1 DEF RemoveBlockRule, Rule
  <2> QED
    BY <1>1, <2>1, <2>2
<1> QED
  BY <1>0, <1>2, <1>3, <1>4, StepKinds

LEMMA NextInHand == IInv /\ [Next]_vars => InHandInv'
<1> SUFFICES ASSUME IInv, [Next]_vars
             PROVE  InHandInv'
  OBVIOUS
<1>0. TypeOK
  BY DEF IInv
<1>1. CASE \E action \in Action : Refuse(action) \/ RemoveBlockRule(action)
  BY <1>1 DEF Refuse, Asked, RemoveBlockRule, IInv, InHandInv, IsProtected, RuleStands
<1>2. ASSUME NEW action \in Action, NetworkAction(action)
      PROVE  InHandInv'
  <2>1. /\ pc' \in {"base", "accept", "drop"}
        /\ cur' = action
        /\ ~IsProtected(action.target)
    BY <1>2 DEF NetworkAction, Actable, Begin, FirstStep
  <2> QED
    BY <2>1 DEF InHandInv, IsProtected
<1>3. ASSUME NEW action \in Action, LogAction(action)
      PROVE  InHandInv'
  BY <1>3 DEF LogAction, Begin, InHandInv
<1>4. ASSUME NEW works \in BOOLEAN, EnsureBase(works) \/ AddAccept(works)
      PROVE  InHandInv'
  <2>1. pc \in {"base", "accept"} /\ pc' \in {"accept", "drop"} /\ UNCHANGED cur
    BY <1>4 DEF EnsureBase, AddAccept
  <2> QED
    BY <2>1 DEF IInv, InHandInv, IsProtected
<1>5. ASSUME NEW works \in BOOLEAN, AddDrop(works)
      PROVE  InHandInv'
  <2>1. pc = "drop" /\ pc' = "record" /\ UNCHANGED cur /\ succeeded' = works
    BY <1>5 DEF AddDrop
  <2>2. works => rules' = WithRule("drop")
    BY <1>5 DEF AddDrop, Takes
  <2>3. ASSUME works PROVE RuleStands(cur)'
    <3>1. PICK k \in DOMAIN rules' : rules'[k] = RuleFor("drop")
      <4>1. rules' \in Seq(Rule) /\ Len(rules') = Len(rules) + 1 /\ Len(rules) \in Nat
        BY <1>0, <2>1, <2>2, <2>3, WithRuleFacts DEF TypeOK
      <4>2. 1 \in 1..Len(rules') /\ Len(rules) + 1 \in 1..Len(rules')
        BY <4>1
      <4> QED
        BY <1>0, <2>1, <2>2, <2>3, <4>1, <4>2, WithRuleFacts
    <3> QED
      BY <2>1, <3>1 DEF RuleStands, RuleFor
  <2> QED
    BY <2>1, <2>3 DEF InHandInv
<1>6. CASE \/ \E works \in BOOLEAN : CommandRaises(works)
           \/ Interrupted
           \/ Finish
  BY <1>6 DEF CommandRaises, Interrupted, Raise, Finish, Leave, InHandInv
<1>7. CASE UNCHANGED vars
  BY <1>7 DEF vars, IInv, InHandInv, IsProtected, RuleStands
<1> QED
  BY <1>1, <1>2, <1>3, <1>4, <1>5, <1>6, <1>7 DEF Next, Execute

LEMMA NextLog == IInv /\ [Next]_vars => LogInv'
<1> SUFFICES ASSUME IInv, [Next]_vars, NEW n \in DOMAIN log' \ lifted',
                    NEW act \in Action, act = log'[n].action,
                    log'[n].ok, act.capability \in NetworkCapabilities
             PROVE  RuleStands(act)'
  <2>1. ASSUME IInv, [Next]_vars, NEW n \in DOMAIN log'
        PROVE  log'[n].action \in Action
    <3>1. log' \in Seq(Record)
      BY <2>1, NextType DEF IInv, TypeOK
    <3>2. log'[n] \in Record
      BY <3>1
    <3> QED
      BY <3>2 DEF Record
  <2> QED
    BY <2>1 DEF LogInv, RuleStands
<1>0. TypeOK /\ log \in Seq(Record)
  BY DEF IInv, TypeOK
<1>1. CASE Finish
  <2>1. log' = Append(log, [action |-> cur, ok |-> Done]) /\ UNCHANGED <<rules, lifted>>
    BY <1>1 DEF Finish
  <2>2. CASE n \in DOMAIN log
    <3>1. log'[n] = log[n] /\ n \in DOMAIN log \ lifted
      BY <1>0, <2>1, <2>2
    <3>2. RuleStands(act)
      BY <3>1 DEF IInv, LogInv, RuleStands
    <3> QED
      BY <2>1, <3>2 DEF RuleStands
  <2>3. CASE n \notin DOMAIN log
    <3>1. log'[n] = [action |-> cur, ok |-> Done]
      BY <1>0, <2>1, <2>3
    <3>2. act = cur /\ Done /\ pc = "record"
      BY <1>1, <3>1 DEF Finish
    <3>3. RuleStands(act)
      BY <3>2 DEF Done, IInv, InHandInv, RuleStands
    <3> QED
      BY <2>1, <3>3 DEF RuleStands
  <2> QED
    BY <2>2, <2>3
<1>2. CASE ~Finish
  <2> DEFINE Removed == \E action \in Action :
                          RuleName(action) = RuleName(act) /\ RemoveBlockRule(action)
  <2>1. log' = log /\ lifted \subseteq lifted' /\ ~Removed
    <3>1. ASSUME NEW action \in Action, RemoveBlockRule(action)
          PROVE  /\ log' = log
                 /\ lifted' = lifted \union
                      {m \in DOMAIN log : RuleName(log[m].action) = RuleName(action)}
      BY <3>1 DEF RemoveBlockRule
    <3>2. ASSUME NEW action \in Action, RuleName(action) = RuleName(act),
                 RemoveBlockRule(action)
          PROVE  FALSE
      <4>1. n \in lifted'
        BY <3>1, <3>2
      <4> QED
        BY <4>1
    <3>3. CASE \E action \in Action : RemoveBlockRule(action)
      BY <3>1, <3>2, <3>3
    <3>4. CASE ~(\E action \in Action : RemoveBlockRule(action))
      BY <1>2, <3>2, <3>4
        DEF Next, Execute, Refuse, NetworkAction, LogAction, Asked, Begin,
            EnsureBase, AddAccept, AddDrop, CommandRaises, Interrupted, Raise, vars
    <3> QED
      BY <3>3, <3>4
  <2>2. RuleStands(act)
    <3>1. n \in DOMAIN log \ lifted
      BY <2>1
    <3> QED
      BY <2>1, <3>1 DEF IInv, LogInv, RuleStands
  <2> QED
    BY <1>0, <2>1, <2>2, RuleStaysUp
<1> QED
  BY <1>1, <1>2

LEMMA InitInv == Init => IInv
BY InitType DEF Init, IInv, ProtectedUntouched, InHandInv, LogInv

LEMMA NextInv == IInv /\ [Next]_vars => IInv'
<1>1. IInv => TypeOK
  BY DEF IInv
<1> QED
  BY <1>1, NextType, NextProtected, NextInHand, NextLog DEF IInv

(* No rule covers a protected address, and each action on the network that *)
(* execute() reported has its drop rule, unless an operator has had rules  *)
(* of its name deleted, for this action or for another target that netsh   *)
(* folds into the same name.                                               *)
THEOREM InvariantHolds == Spec => []IInv
BY InitInv, NextInv, PTL DEF Spec

(* No rule ever touches a protected address.                               *)
THEOREM NeverTouchesProtected == Spec => []ProtectedUntouched
<1>1. IInv => ProtectedUntouched
  BY DEF IInv
<1> QED
  BY <1>1, InvariantHolds, PTL

(* What execute() reported is contained, unless an operator has had rules  *)
(* of its name deleted.                                                    *)
THEOREM ReportedContained == Spec => []ReportedIsContained
<1>1. ASSUME IInv, NEW s \in Standing, NEW a \in Covers[s.target]
      PROVE  Contained(a)
  <2>1. PICK n \in DOMAIN log \ lifted :
          /\ s = log[n].action
          /\ log[n].ok
          /\ log[n].action.capability \in NetworkCapabilities
    BY <1>1 DEF Standing
  <2>2. RuleStands(s)
    BY <1>1, <2>1 DEF IInv, LogInv
  <2> QED
    BY <1>1, <2>2 DEF RuleStands, Contained, Applies
<1>2. IInv => ReportedIsContained
  BY <1>1 DEF ReportedIsContained
<1> QED
  BY <1>2, InvariantHolds, PTL

-----------------------------------------------------------------------------
(* A block that is reported blocks.                                        *)

BlockingCapabilities == {"block_source", "isolate_segment"}

LimitedFor(a) == \E i \in DOMAIN rules : Applies(i, a, "accept_limited")

TakesEffect(target) ==
  \A a \in Covers[target] : Blocked(a) \/ (backend = "nft" /\ LimitedFor(a))

(* Only nft and iptables come to have accept rules, and a drop rule that   *)
(* was added has taken effect by the time its action is reported.          *)
EffectInv ==
  /\ pc = "base" => backend = "nft"
  /\ pc = "accept" => backend \in {"nft", "iptables"}
  /\ backend \notin {"nft", "iptables"} =>
       \A i \in DOMAIN rules : rules[i].verdict # "accept_limited"
  /\ pc = "record" /\ cur.capability \in BlockingCapabilities /\ succeeded =>
       TakesEffect(cur.target)

LEMMA DropTakesEffect ==
  ASSUME TypeOK, EffectInv, pc = "drop", rules' = WithRule("drop"), UNCHANGED <<backend, cur>>
  PROVE  TakesEffect(cur.target)'
<1> SUFFICES ASSUME NEW a \in Covers[cur.target]
             PROVE  Blocked(a)' \/ (backend = "nft" /\ LimitedFor(a)')
  BY DEF TakesEffect, Blocked, LimitedFor, Applies
<1>1. /\ rules \in Seq(Rule) /\ rules' \in Seq(Rule) /\ Len(rules) \in Nat
      /\ Len(rules') = Len(rules) + 1
      /\ DOMAIN rules' = 1..Len(rules) + 1 /\ DOMAIN rules = 1..Len(rules)
  BY WithRuleFacts DEF TypeOK
<1>2. a \in Covers[RuleFor("drop").target] /\ RuleFor("drop").verdict = "drop"
  BY DEF RuleFor
<1>3. CASE backend = "iptables"
  <2>1. rules'[1] = RuleFor("drop") /\ 1 \in DOMAIN rules'
    BY <1>1, <1>3, WithRuleFacts
  <2>2. 1..1 - 1 = {}
    OBVIOUS
  <2> QED
    BY <1>2, <2>1, <2>2 DEF Blocked, Applies
<1>4. CASE backend # "iptables"
  <2> DEFINE n == Len(rules) + 1
  <2>1. /\ rules'[n] = RuleFor("drop") /\ n \in DOMAIN rules'
        /\ \A i \in 1..n - 1 : i \in DOMAIN rules /\ i \in DOMAIN rules' /\ rules'[i] = rules[i]
    BY <1>1, <1>4, WithRuleFacts
  <2>2. CASE \E j \in 1..n - 1 : Applies(j, a, "accept_limited")
    <3>1. backend = "nft"
      BY <1>4, <2>1, <2>2 DEF EffectInv, Applies
    <3>2. LimitedFor(a)'
      BY <2>1, <2>2 DEF LimitedFor, Applies
    <3> QED
      BY <3>1, <3>2
  <2>3. CASE ~\E j \in 1..n - 1 : Applies(j, a, "accept_limited")
    <3> HIDE DEF n
    <3> QED
      BY <1>2, <2>1, <2>3 DEF Blocked, Applies
  <2> QED
    BY <2>2, <2>3
<1> QED
  BY <1>3, <1>4

LEMMA NextEffect ==
  ASSUME TypeOK, EffectInv, [Next]_vars
  PROVE  EffectInv'
<1>1. /\ rules \in Seq(Rule) /\ DOMAIN rules = 1..Len(rules) /\ Len(rules) \in Nat
      /\ backend' = backend
  BY DEF TypeOK, Next, Execute, Refuse, NetworkAction, LogAction, Asked, Begin, EnsureBase,
         AddAccept, AddDrop, CommandRaises, Interrupted, Raise, Finish, RemoveBlockRule, vars
<1>2. (pc' = "base" => backend = "nft") /\ (pc' = "accept" => backend \in {"nft", "iptables"})
  BY <1>1 DEF EffectInv, FirstStep, Next, Execute, Refuse, NetworkAction, LogAction, Asked,
              Begin, EnsureBase, AddAccept, AddDrop, CommandRaises, Interrupted, Raise,
              Leave, Finish, RemoveBlockRule, vars
<1>3. ASSUME backend \notin {"nft", "iptables"}, NEW k \in DOMAIN rules'
      PROVE  rules'[k].verdict # "accept_limited"
  <2>1. CASE UNCHANGED rules
    BY <1>3, <2>1 DEF EffectInv
  <2>2. CASE \E action \in Action : RemoveBlockRule(action)
    <3>1. PICK action \in Action : RemoveBlockRule(action)
      BY <2>2
    <3>2. k \in DOMAIN rules /\ rules[k] \in Rule /\ rules[k].verdict # "accept_limited"
      BY <1>1, <1>3, <3>1 DEF RemoveBlockRule, EffectInv
    <3>3. rules'[k] = IF Named(rules[k], action) THEN [rules[k] EXCEPT !.verdict = "deleted"]
                      ELSE rules[k]
      BY <3>1, <3>2 DEF RemoveBlockRule
    <3> QED
      BY <3>2, <3>3 DEF Rule
  <2>3. CASE ~UNCHANGED rules /\ ~\E action \in Action : RemoveBlockRule(action)
    <3>1. pc = "drop" /\ rules' = WithRule("drop")
      BY <1>3, <2>3 DEF EffectInv, Next, Execute, Refuse, NetworkAction, LogAction, Asked,
           Begin, EnsureBase, AddAccept, AddDrop, Takes, CommandRaises, Interrupted, Raise,
           Finish, vars
    <3>2. k \in 1..Len(rules) \/ k = Len(rules) + 1
      BY <1>1, <3>1, WithRuleFacts
    <3>3. (rules'[k] = rules[k] /\ k \in DOMAIN rules) \/ rules'[k] = RuleFor("drop")
      BY <1>1, <1>3, <3>1, <3>2, WithRuleFacts
    <3> QED
      BY <1>3, <3>3 DEF EffectInv, RuleFor
  <2> QED
    BY <2>1, <2>2, <2>3
<1>4. ASSUME pc' = "record", cur'.capability \in BlockingCapabilities, succeeded'
      PROVE  TakesEffect(cur.target)' /\ cur' = cur
  <2>1. CASE \E works \in BOOLEAN : AddDrop(works)
    <3>1. pc = "drop" /\ rules' = WithRule("drop") /\ UNCHANGED <<backend, cur>>
      BY <1>4, <2>1 DEF AddDrop, Takes
    <3> QED
      BY <3>1, DropTakesEffect
  <2>2. CASE pc = "record"
    <3>1. UNCHANGED <<rules, cur, succeeded, backend>>
      BY <1>4, <2>2 DEF Next, Execute, Refuse, NetworkAction, LogAction, Asked, Begin,
           EnsureBase, AddAccept, AddDrop, CommandRaises, Interrupted, Raise, Leave, Finish,
           RemoveBlockRule, vars
    <3>2. TakesEffect(cur.target)
      BY <1>4, <2>2, <3>1 DEF EffectInv
    <3> QED
      BY <3>1, <3>2 DEF TakesEffect, Blocked, LimitedFor, Applies
  <2> QED
    BY <1>4, <2>1, <2>2
      DEF BlockingCapabilities, FirstStep, Next, Execute, Refuse, NetworkAction, LogAction,
          Asked, Begin, EnsureBase, AddAccept, CommandRaises, Interrupted, Raise, Leave,
          Finish, RemoveBlockRule, vars
<1> QED
  BY <1>1, <1>2, <1>3, <1>4 DEF EffectInv

(* A block or an isolation that is reported has taken effect by then: with *)
(* iptables and netsh no packet of the target passes, with nft none unless *)
(* the target was let through at a rate before.                            *)
THEOREM ReportedTakesEffect == Spec => BlockTakesEffect
<1>1. ASSUME TypeOK, EffectInv, [Next]_vars, NEW n \in DOMAIN log' \ DOMAIN log,
             log'[n].ok, log'[n].action.capability \in BlockingCapabilities,
             NEW a \in Covers[log'[n].action.target]
      PROVE  Blocked(a) \/ (backend = "nft" /\ LimitedFor(a))
  <2>1. Finish
    BY <1>1 DEF Next, Execute, Refuse, NetworkAction, LogAction, Asked, Begin, EnsureBase,
                AddAccept, AddDrop, CommandRaises, Interrupted, Raise, RemoveBlockRule, vars
  <2>2. log'[n] = [action |-> cur, ok |-> Done]
    BY <1>1, <2>1 DEF Finish, TypeOK
  <2>3. cur.capability \in BlockingCapabilities /\ Done /\ a \in Covers[cur.target]
    BY <1>1, <2>2
  <2>4. succeeded
    BY <2>3 DEF Done, BlockingCapabilities, NetworkCapabilities
  <2> QED
    BY <1>1, <2>1, <2>3, <2>4 DEF Finish, EffectInv, TakesEffect
<1>2. Init => EffectInv
  BY DEF Init, EffectInv
<1>3. TypeOK /\ EffectInv /\ [Next]_vars => EffectInv'
  BY NextEffect
<1>4. TypeOK /\ EffectInv /\ [Next]_vars =>
        [\A n \in DOMAIN log' \ DOMAIN log :
           /\ log'[n].ok
           /\ log'[n].action.capability \in {"block_source", "isolate_segment"}
           => \A a \in Covers[log'[n].action.target] :
                \/ Blocked(a)
                \/ backend = "nft" /\ \E i \in DOMAIN rules :
                                        Applies(i, a, "accept_limited")]_vars
  BY <1>1 DEF BlockingCapabilities, LimitedFor
<1> QED
  BY <1>2, <1>3, <1>4, TypeCorrect, PTL DEF Spec, BlockTakesEffect

=============================================================================
