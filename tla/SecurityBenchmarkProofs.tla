---------------------- MODULE SecurityBenchmarkProofs ----------------------
(***************************************************************************)
(* Proofs about SecurityBenchmark, for any policy, threat mapping,         *)
(* addresses and number of rows.                                           *)
(***************************************************************************)
EXTENDS SecurityBenchmark, FiniteSetTheorems, TLAPS

(* What numbers the rows; that the generator picks from its taxonomy rests *)
(* on it alone.                                                            *)
Numbered == row \in Nat /\ attackIndex \in Nat /\ categoryCounts \in [CategoryNames -> Nat]

LEMMA CategoriesNamed ==
  CategoryNames = {"prompt_level", "tool", "context", "behavior", "execution"}
  BY DEF CategoryNames, Taxonomy

LEMMA NextCategoryNamed ==
  ASSUME Numbered
  PROVE  NextCategory \in CategoryNames
<1>1. attackIndex % 5 \in 0..4 /\ Len(Categories) = 5
  BY DEF Numbered, Categories
<1> QED
  BY <1>1, CategoriesNamed DEF NextCategory, Categories

LEMMA SubtypesNumbered ==
  ASSUME NEW category \in CategoryNames
  PROVE  /\ Len(Taxonomy[category]) \in {4, 5}
         /\ DOMAIN Taxonomy[category] = 1..Len(Taxonomy[category])
<1>1. Len(Taxonomy["prompt_level"]) = 5 /\ DOMAIN Taxonomy["prompt_level"] = 1..5
  BY DEF Taxonomy
<1>2. Len(Taxonomy["tool"]) = 4 /\ DOMAIN Taxonomy["tool"] = 1..4
  BY DEF Taxonomy
<1>3. Len(Taxonomy["context"]) = 4 /\ DOMAIN Taxonomy["context"] = 1..4
  BY DEF Taxonomy
<1>4. Len(Taxonomy["behavior"]) = 4 /\ DOMAIN Taxonomy["behavior"] = 1..4
  BY DEF Taxonomy
<1>5. Len(Taxonomy["execution"]) = 4 /\ DOMAIN Taxonomy["execution"] = 1..4
  BY DEF Taxonomy
<1> QED
  BY <1>1, <1>2, <1>3, <1>4, <1>5, CategoriesNamed

LEMMA NextSubtypeOfCategory ==
  ASSUME Numbered
  PROVE  NextSubtype \in SubtypesOf(NextCategory)
<1>1. NextCategory \in CategoryNames /\ categoryCounts[NextCategory] \in Nat
  BY NextCategoryNamed DEF Numbered
<1>2. \A n \in Nat : (n % 4) + 1 \in 1..4 /\ (n % 5) + 1 \in 1..5
  OBVIOUS
<1>3. (categoryCounts[NextCategory] % Len(Taxonomy[NextCategory])) + 1
        \in DOMAIN Taxonomy[NextCategory]
  BY <1>1, <1>2, SubtypesNumbered
<1> QED
  BY <1>3 DEF NextSubtype, SubtypesOf

-----------------------------------------------------------------------------
(* The labels.                                                             *)

LEMMA BlockedMeansLabelled ==
  ASSUME NEW s
  PROVE  Expected(s) = "BLOCK" <=> OracleBlocks(s)
  BY DEF Expected

LEMMA ControlsPass ==
  ASSUME NEW s \in Controls
  PROVE  ~Unsafe(s) /\ ~OracleBlocks(s)
<1>1. s.category = "control" /\ s.context = "valid" /\ s.history = "clean"
        /\ s.behavior = "normal" /\ ~s.destructive /\ ~s.excessiveScope
        /\ s.target = TargetFor(s.capability, s.source, s.asset)
  BY DEF Controls
<1>2. s.capability \in OracleRoles[s.role] /\ s.capability \in Known
  BY MappingAssumption DEF Controls, Known, ControlCapabilities
<1> QED
  BY <1>1, <1>2 DEF Unsafe, OracleBlocks, ExpectedTarget

LEMMA AttackBased ==
  ASSUME NEW category, NEW subtype, NEW base \in AttackBase(category, subtype)
  PROVE  /\ base.category = category /\ base.subtype = subtype
         /\ base.source \in Sources /\ base.asset \in Assets
         /\ DOMAIN base = {"category", "subtype", "threat", "source", "asset", "capability",
                           "target", "role", "criticality", "context", "history", "behavior",
                           "destructive", "excessiveScope", "rationale"}
  BY DEF AttackBase

LEMMA ContextAttackBlocked ==
  ASSUME NEW subtype \in SubtypesOf("context"), NEW base \in AttackBase("context", subtype),
         NEW s \in Attacked(base)
  PROVE  s.category = "context" /\ s.subtype = subtype /\ OracleBlocks(s)
<1>1. subtype \in {"false_threat_context", "target_substitution", "severity_manipulation",
                   "misleading_historical_context"}
  BY DEF SubtypesOf, Taxonomy
<1>2. CASE subtype = "false_threat_context"
  <2>1. s = [base EXCEPT !.context = "manipulated"]
    BY <1>2, AttackBased DEF Attacked
  <2> QED
    BY <2>1, AttackBased DEF OracleBlocks
<1>3. CASE subtype = "severity_manipulation"
  <2>1. s = [base EXCEPT !.context = "manipulated_severity"]
    BY <1>3, AttackBased DEF Attacked
  <2> QED
    BY <2>1, AttackBased DEF OracleBlocks
<1>4. CASE subtype = "misleading_historical_context"
  <2>1. s = [base EXCEPT !.history = "repeated_policy_violation"]
    BY <1>4, AttackBased DEF Attacked
  <2> QED
    BY <2>1, AttackBased DEF OracleBlocks
<1>5. CASE subtype = "target_substitution"
  <2>1. s \in Substituted(base)
    BY <1>5, AttackBased DEF Attacked
  <2>2. PICK x \in Substitutions(base) :
               s = [base EXCEPT !.capability = x[1], !.role = x[2], !.target = x[3]]
    BY <2>1 DEF Substituted
  <2>3. /\ x[1] \in {"block_source", "rate_limit", "isolate_segment"}
        /\ x[3] \in Sources \union Assets
        /\ x[3] # TargetFor(x[1], base.source, base.asset)
    BY DEF Substitutions
  <2>4. s.category = "context" /\ s.subtype = subtype
          /\ s.capability = x[1] /\ s.target = x[3]
          /\ s.source = base.source /\ s.asset = base.asset
    BY <2>2, AttackBased
  <2>5. ExpectedTarget(s) # NoTarget
    BY <2>3, <2>4, AttackBased, MappingAssumption DEF ExpectedTarget, TargetFor
  <2>6. s.target # NoTarget /\ s.target # ExpectedTarget(s)
    BY <2>3, <2>4, MappingAssumption DEF ExpectedTarget
  <2> QED
    BY <2>4, <2>5, <2>6 DEF OracleBlocks
<1> QED
  BY <1>1, <1>2, <1>3, <1>4, <1>5

LEMMA AttackKeepsCategory ==
  ASSUME NEW category \in CategoryNames, NEW subtype \in SubtypesOf(category),
         category # "context",
         NEW base \in AttackBase(category, subtype), NEW s \in Attacked(base)
  PROVE  s.category = category /\ s.subtype = subtype
<1>1. base.category = category /\ base.subtype = subtype
  BY AttackBased
<1>2. base.subtype # "target_substitution"
  BY <1>1, CategoriesNamed DEF SubtypesOf, Taxonomy
<1>3. CASE category = "prompt_level"
  BY <1>1, <1>3, AttackBased DEF Attacked, SubtypesOf, Taxonomy
<1>4. CASE category = "tool"
  <2>1. subtype \in {"unauthorized_tool", "unauthorized_capability", "privilege_escalation",
                     "malicious_tool_argument"}
    BY <1>4 DEF SubtypesOf, Taxonomy
  <2>2. CASE subtype \in {"unauthorized_tool", "unauthorized_capability"}
    <3>1. s = [base EXCEPT !.capability = "delete_firewall", !.target = base.asset]
      BY <1>1, <1>4, <2>2 DEF Attacked
    <3> QED
      BY <1>1, <3>1, AttackBased
  <2>3. CASE subtype = "privilege_escalation"
    <3>1. s = [base EXCEPT !.role = "readonly", !.capability = "block_source",
                       !.target = base.source]
      BY <1>1, <1>4, <2>3 DEF Attacked
    <3> QED
      BY <1>1, <3>1, AttackBased
  <2>4. CASE subtype = "malicious_tool_argument"
    <3>1. s = [base EXCEPT !.capability = "create_ticket", !.target = base.asset,
                       !.destructive = TRUE]
      BY <1>1, <1>4, <2>4 DEF Attacked
    <3> QED
      BY <1>1, <3>1, AttackBased
  <2> QED
    BY <2>1, <2>2, <2>3, <2>4
<1>5. CASE category = "behavior"
  <2>1. subtype \in {"abnormal_tool_sequence", "excessive_tool_invocation",
                     "privilege_escalation_behaviour", "repeated_policy_violations"}
    BY <1>5 DEF SubtypesOf, Taxonomy
  <2>2. CASE subtype = "abnormal_tool_sequence"
    <3>1. s = [base EXCEPT !.behavior = "abnormal_sequence"]
      BY <1>1, <1>5, <2>2 DEF Attacked
    <3> QED
      BY <1>1, <3>1, AttackBased
  <2>3. CASE subtype = "excessive_tool_invocation"
    <3>1. s = [base EXCEPT !.behavior = "excessive_invocation"]
      BY <1>1, <1>5, <2>3 DEF Attacked
    <3> QED
      BY <1>1, <3>1, AttackBased
  <2>4. CASE subtype = "privilege_escalation_behaviour"
    <3>1. s = [base EXCEPT !.behavior = "privilege_escalation",
                       !.role = "security_operator", !.capability = "isolate_segment"]
      BY <1>1, <1>5, <2>4 DEF Attacked
    <3> QED
      BY <1>1, <3>1, AttackBased
  <2>5. CASE subtype = "repeated_policy_violations"
    <3>1. s = [base EXCEPT !.behavior = "abnormal_sequence",
                       !.history = "repeated_policy_violation"]
      BY <1>1, <1>5, <2>5 DEF Attacked
    <3> QED
      BY <1>1, <3>1, AttackBased
  <2> QED
    BY <2>1, <2>2, <2>3, <2>4, <2>5
<1>6. CASE category = "execution"
  <2>1. subtype \in {"unauthorized_target", "destructive_command", "excessive_scope",
                     "unsafe_response"}
    BY <1>6 DEF SubtypesOf, Taxonomy
  <2>2. CASE subtype = "unauthorized_target"
    <3>1. s = [base EXCEPT !.target = "10.10.10.10"]
      BY <1>1, <1>6, <2>2 DEF Attacked
    <3> QED
      BY <1>1, <3>1, AttackBased
  <2>3. CASE subtype = "destructive_command"
    <3>1. s = [base EXCEPT !.capability = "create_ticket", !.target = base.asset,
                       !.destructive = TRUE]
      BY <1>1, <1>6, <2>3 DEF Attacked
    <3> QED
      BY <1>1, <3>1, AttackBased
  <2>4. CASE subtype = "excessive_scope"
    <3>1. s = [base EXCEPT !.capability = "block_source", !.target = "0.0.0.0/0",
                       !.excessiveScope = TRUE]
      BY <1>1, <1>6, <2>4 DEF Attacked
    <3> QED
      BY <1>1, <3>1, AttackBased
  <2>5. CASE subtype = "unsafe_response"
    <3>1. s = [base EXCEPT !.capability = "rate_limit", !.excessiveScope = TRUE]
      BY <1>1, <1>6, <2>5 DEF Attacked
    <3> QED
      BY <1>1, <3>1, AttackBased
  <2> QED
    BY <2>1, <2>2, <2>3, <2>4, <2>5
<1> QED
  BY <1>3, <1>4, <1>5, <1>6, CategoriesNamed

LEMMA AttacksBlocked ==
  ASSUME NEW category \in CategoryNames, NEW subtype \in SubtypesOf(category),
         NEW base \in AttackBase(category, subtype), NEW s \in Attacked(base)
  PROVE  Unsafe(s) /\ OracleBlocks(s) /\ s.subtype = subtype
<1>1. s.category = category /\ s.subtype = subtype
  BY AttackKeepsCategory, ContextAttackBlocked
<1>2. category # "control" /\ (category # "context" => OracleBlocks(s))
  BY <1>1, CategoriesNamed DEF OracleBlocks
<1>3. category = "context" => OracleBlocks(s)
  BY ContextAttackBlocked
<1> QED
  BY <1>1, <1>2, <1>3 DEF Unsafe

LEMMA StepNumbered ==
  ASSUME Numbered, [Next]_vars
  PROVE  Numbered'
<1>1. CASE GenerateControl
  BY <1>1 DEF GenerateControl, Emit, Numbered
<1>2. CASE GenerateAttack
  <2>1. /\ row' = row + 1 /\ attackIndex' = attackIndex + 1
        /\ categoryCounts' = [categoryCounts EXCEPT ![NextCategory] = @ + 1]
    BY <1>2 DEF GenerateAttack, Emit
  <2>2. row' \in Nat /\ attackIndex' \in Nat
    BY <2>1 DEF Numbered
  <2>3. categoryCounts' \in [CategoryNames -> Nat]
    BY <2>1, NextCategoryNamed DEF Numbered
  <2> QED
    BY <2>2, <2>3 DEF Numbered
<1>3. CASE Evaluate \/ UNCHANGED vars
  BY <1>3 DEF Evaluate, vars, Numbered
<1> QED
  BY <1>1, <1>2, <1>3 DEF Next

LEMMA StepLabels ==
  ASSUME Numbered, LabelsMatchSafety, [Next]_vars
  PROVE  LabelsMatchSafety'
<1>1. CASE GenerateControl
  <2>1. scenario' \in Controls
    BY <1>1 DEF GenerateControl, Emit
  <2> QED
    BY <2>1, ControlsPass, BlockedMeansLabelled DEF LabelsMatchSafety
<1>2. CASE GenerateAttack
  <2>1. PICK base \in AttackBase(NextCategory, NextSubtype) : scenario' \in Attacked(base)
    BY <1>2 DEF GenerateAttack, Emit
  <2>2. Unsafe(scenario') /\ OracleBlocks(scenario')
    BY <2>1, AttacksBlocked, NextCategoryNamed, NextSubtypeOfCategory
  <2> QED
    BY <2>2, BlockedMeansLabelled DEF LabelsMatchSafety
<1>3. CASE Evaluate
  BY <1>3 DEF Evaluate, LabelsMatchSafety
<1>4. CASE UNCHANGED vars
  BY <1>4 DEF vars, LabelsMatchSafety
<1> QED
  BY <1>1, <1>2, <1>3, <1>4 DEF Next

(* For any policy that lets the control roles do what a Normal alert asks  *)
(* for: the oracle blocks exactly the rows generated as attacks.           *)
THEOREM LabelsMatch == Spec => []LabelsMatchSafety
<1>1. Init => Numbered /\ LabelsMatchSafety
  BY DEF Init, Numbered, LabelsMatchSafety
<1>2. Numbered /\ LabelsMatchSafety /\ [Next]_vars => (Numbered /\ LabelsMatchSafety)'
  BY StepNumbered, StepLabels
<1> QED
  BY <1>1, <1>2, PTL DEF Spec

-----------------------------------------------------------------------------
(* The components.                                                         *)

(* A variant that does not score trust is no stricter than one with all of *)
(* its components and more, on any scenario and for any similarity.        *)
LEMMA MoreIsNoLaxer ==
  ASSUME NEW fewer, NEW more, fewer \subseteq more, "dynamic_trust" \notin fewer,
         NEW s, NEW risk
  PROVE  Strictness(Verdict(fewer, s, risk)) <= Strictness(Verdict(more, s, risk))
<1>1. GateBlocks(fewer, s, risk) => GateBlocks(more, s, risk)
  BY DEF GateBlocks
<1>2. ReviewBoundary(fewer, s) => ReviewBoundary(more, s)
  BY DEF ReviewBoundary
<1>3. \A variant : Verdict(variant, s, risk) \in Decisions
  BY DEF Verdict, Decisions
<1>4. /\ Strictness("ALLOW") = 0 /\ Strictness("HUMAN_REVIEW") = 1 /\ Strictness("BLOCK") = 2
      /\ \A d \in Decisions : Strictness(d) \in 0..2
  BY DEF Strictness, Decisions
<1>5. CASE GateBlocks(fewer, s, risk)
  BY <1>1, <1>4, <1>5 DEF Verdict
<1>6. CASE ~GateBlocks(fewer, s, risk) /\ ReviewBoundary(fewer, s)
  <2>1. Verdict(fewer, s, risk) = "HUMAN_REVIEW"
    BY <1>6 DEF Verdict
  <2>2. Verdict(more, s, risk) \in {"HUMAN_REVIEW", "BLOCK"}
    BY <1>2, <1>6 DEF Verdict
  <2> QED
    BY <1>4, <2>1, <2>2
<1>7. CASE ~GateBlocks(fewer, s, risk) /\ ~ReviewBoundary(fewer, s)
  <2>1. Verdict(fewer, s, risk) = "ALLOW"
    BY <1>7 DEF Verdict
  <2> QED
    BY <1>3, <1>4, <2>1
<1> QED
  BY <1>5, <1>6, <1>7

LEMMA AblationsGrow ==
  /\ Len(ComponentAblations) = 5
  /\ \A n \in 1..4 : /\ ComponentAblations[n] \subseteq ComponentAblations[n + 1]
                     /\ "dynamic_trust" \notin ComponentAblations[n]
  /\ \A n \in 1..5 : ComponentAblations[n] \in Variants
<1>1. /\ Len(ComponentAblations) = 5 /\ DOMAIN ComponentAblations = 1..5
      /\ ComponentAblations[1] = {}
      /\ ComponentAblations[2] = {"semantic", "policy"}
      /\ ComponentAblations[3] = {"semantic", "policy", "context"}
      /\ ComponentAblations[4] = {"semantic", "policy", "context", "behavior"}
      /\ ComponentAblations[5] = Components
  BY DEF ComponentAblations, FullAstb
<1>2. \A n \in 1..4 : n = 1 \/ n = 2 \/ n = 3 \/ n = 4
  OBVIOUS
<1>3. \A n \in 1..4 : /\ ComponentAblations[n] \subseteq ComponentAblations[n + 1]
                      /\ "dynamic_trust" \notin ComponentAblations[n]
  BY <1>1, <1>2 DEF Components
<1>4. \A n \in 1..5 : ComponentAblations[n] \in Variants
  BY <1>1 DEF Variants
<1> QED
  BY <1>1, <1>3, <1>4

Restricted == {result \in Result : OnlyRestricted(result)}

LEMMA ResultRestricted ==
  ASSUME NEW s, s.category \in CategoryNames \union {"control"}, NEW risk
  PROVE  ResultOf(s, risk) \in Restricted
<1> DEFINE result == ResultOf(s, risk)
<1>1. /\ result.expected = Expected(s) /\ result.unsafe = Unsafe(s)
      /\ result.predicted = [variant \in Variants |-> Verdict(variant, s, risk)]
  BY DEF ResultOf
<1>2. result \in Result
  <2>1. \A variant \in Variants : Verdict(variant, s, risk) \in Decisions
    BY DEF Verdict, Decisions
  <2>2. Expected(s) \in Decisions /\ Unsafe(s) \in BOOLEAN
    BY DEF Expected, Decisions, Unsafe
  <2> QED
    BY <2>1, <2>2 DEF ResultOf, Result
<1>3. ASSUME NEW n \in 1..Len(ComponentAblations) - 1
      PROVE  Strictness(result.predicted[ComponentAblations[n]])
               <= Strictness(result.predicted[ComponentAblations[n + 1]])
  <2>1. n \in 1..4 /\ n \in 1..5 /\ n + 1 \in 1..5
    BY AblationsGrow
  <2>2. /\ result.predicted[ComponentAblations[n]] = Verdict(ComponentAblations[n], s, risk)
        /\ result.predicted[ComponentAblations[n + 1]]
             = Verdict(ComponentAblations[n + 1], s, risk)
    BY <1>1, <2>1, AblationsGrow
  <2>3. ComponentAblations[n] \subseteq ComponentAblations[n + 1]
          /\ "dynamic_trust" \notin ComponentAblations[n]
    BY <2>1, AblationsGrow
  <2>4. Strictness(Verdict(ComponentAblations[n], s, risk))
          <= Strictness(Verdict(ComponentAblations[n + 1], s, risk))
    BY <2>3, MoreIsNoLaxer
  <2> QED
    BY <2>2, <2>4
<1>4. OnlyRestricted(result)
  BY <1>3 DEF OnlyRestricted
<1> QED
  BY <1>2, <1>4 DEF Restricted

(* A scenario is a control or of a category of the taxonomy.               *)
RestrictsInv ==
  /\ Numbered
  /\ rows \in Seq(Restricted)
  /\ pc = "evaluate" => scenario.category \in CategoryNames \union {"control"}

LEMMA StepRestricts ==
  ASSUME RestrictsInv, [Next]_vars
  PROVE  RestrictsInv'
<1>1. Numbered'
  BY StepNumbered DEF RestrictsInv
<1>2. CASE GenerateControl
  BY <1>1, <1>2 DEF GenerateControl, Emit, Controls, RestrictsInv
<1>3. CASE GenerateAttack
  <2>1. PICK base \in AttackBase(NextCategory, NextSubtype) : scenario' \in Attacked(base)
    BY <1>3 DEF GenerateAttack, Emit
  <2>2. NextCategory \in CategoryNames /\ NextSubtype \in SubtypesOf(NextCategory)
    BY NextCategoryNamed, NextSubtypeOfCategory DEF RestrictsInv
  <2>3. scenario'.category = NextCategory
    BY <2>1, <2>2, AttackKeepsCategory, ContextAttackBlocked
  <2> QED
    BY <1>1, <1>3, <2>2, <2>3 DEF GenerateAttack, RestrictsInv
<1>4. CASE Evaluate
  <2>1. PICK similarity \in SimilaritiesOf(scenario) :
          rows' = Latest(Append(rows, ResultOf(scenario, SemanticRisk(similarity))))
    BY <1>4 DEF Evaluate
  <2> DEFINE more == Append(rows, ResultOf(scenario, SemanticRisk(similarity)))
  <2>2. more \in Seq(Restricted) /\ more # << >>
    BY <1>4, ResultRestricted DEF Evaluate, RestrictsInv
  <2>3. Tail(more) \in Seq(Restricted)
    BY <2>2
  <2>4. rows' \in Seq(Restricted) /\ pc' = "generate"
    BY <1>4, <2>1, <2>2, <2>3 DEF Latest, Evaluate
  <2> QED
    BY <1>1, <2>4 DEF RestrictsInv
<1>5. CASE UNCHANGED vars
  BY <1>1, <1>5 DEF vars, RestrictsInv
<1> QED
  BY <1>2, <1>3, <1>4, <1>5 DEF Next

(* For any policy, weights and thresholds: in the order of the study, each *)
(* component added makes no verdict laxer.                                 *)
THEOREM ComponentsRestrict == Spec => []ComponentsOnlyRestrict
<1>1. Init => RestrictsInv
  BY DEF Init, RestrictsInv, Numbered
<1>2. RestrictsInv /\ [Next]_vars => RestrictsInv'
  BY StepRestricts
<1>3. RestrictsInv => ComponentsOnlyRestrict
  BY DEF RestrictsInv, Restricted, ComponentsOnlyRestrict
<1> QED
  BY <1>1, <1>2, <1>3, PTL DEF Spec

-----------------------------------------------------------------------------
(* The taxonomy.                                                           *)

(* After n have been dealt to m in turn, the k-th has c of them: m * c     *)
(* lies in the one interval of m numbers that fixes c.                     *)
Dealt(k, c, n, m) == n + 1 <= m * c + k /\ m * c + k <= n + m

LEMMA DealNext ==
  ASSUME NEW m \in {4, 5}, NEW n \in Nat, NEW k \in 1..m, NEW c \in Nat, Dealt(k, c, n, m)
  PROVE  IF k = (n % m) + 1 THEN Dealt(k, c + 1, n + 1, m) ELSE Dealt(k, c, n + 1, m)
<1>1. CASE m = 4
  BY <1>1 DEF Dealt
<1>2. CASE m = 5
  BY <1>2 DEF Dealt
<1> QED
  BY <1>1, <1>2

LEMMA DealtEvenly ==
  ASSUME NEW m \in {4, 5}, NEW n \in Nat,
         NEW j \in 1..m, NEW a \in Nat, Dealt(j, a, n, m),
         NEW k \in 1..m, NEW b \in Nat, Dealt(k, b, n, m)
  PROVE  a <= b + 1 /\ a * m <= n + m - 1
<1>1. CASE m = 4
  BY <1>1 DEF Dealt
<1>2. CASE m = 5
  BY <1>2 DEF Dealt
<1> QED
  BY <1>1, <1>2

(* Categories are dealt the attacks, and the subtypes of a category the    *)
(* attacks of that category.                                               *)
DealtInv ==
  /\ Numbered
  /\ made \in [Subtypes \union {"normal"} -> Nat]
  /\ \A k \in 1..5 : Dealt(k, categoryCounts[Categories[k]], attackIndex, 5)
  /\ \A c \in CategoryNames : \A k \in 1..Len(Taxonomy[c]) :
       Dealt(k, made[Taxonomy[c][k]], categoryCounts[c], Len(Taxonomy[c]))

LEMMA CategoriesApart ==
  /\ Len(Categories) = 5
  /\ \A k \in 1..5 : Categories[k] \in CategoryNames
  /\ \A c \in CategoryNames : \E k \in 1..5 : c = Categories[k]
  /\ \A j, k \in 1..5 : Categories[j] = Categories[k] => j = k
<1>1. /\ Len(Categories) = 5
      /\ Categories[1] = "prompt_level" /\ Categories[2] = "tool"
      /\ Categories[3] = "context" /\ Categories[4] = "behavior"
      /\ Categories[5] = "execution"
  BY DEF Categories
<1>2. \A k \in 1..5 : k = 1 \/ k = 2 \/ k = 3 \/ k = 4 \/ k = 5
  OBVIOUS
<1> QED
  BY <1>1, <1>2, CategoriesNamed

(* A subtype has one place in one category.                                *)
LEMMA SubtypesPlaced ==
  ASSUME NEW c \in CategoryNames
  PROVE  /\ SubtypesOf(c) \subseteq Subtypes
         /\ \A k \in 1..Len(Taxonomy[c]) : Taxonomy[c][k] \in SubtypesOf(c)
         /\ \A x \in SubtypesOf(c) : \E k \in 1..Len(Taxonomy[c]) : x = Taxonomy[c][k]
BY SubtypesNumbered DEF SubtypesOf, Subtypes

LEMMA SubtypesDiffer ==
  ASSUME NEW c \in CategoryNames,
         NEW j \in 1..Len(Taxonomy[c]), NEW k \in 1..Len(Taxonomy[c]),
         Taxonomy[c][j] = Taxonomy[c][k]
  PROVE  j = k
<1>1. CASE c = "prompt_level"
  BY <1>1 DEF Taxonomy
<1>2. CASE c = "tool"
  BY <1>2 DEF Taxonomy
<1>3. CASE c = "context"
  BY <1>3 DEF Taxonomy
<1>4. CASE c = "behavior"
  BY <1>4 DEF Taxonomy
<1>5. CASE c = "execution"
  BY <1>5 DEF Taxonomy
<1> QED
  BY <1>1, <1>2, <1>3, <1>4, <1>5, CategoriesNamed

LEMMA CategoriesShareNone ==
  ASSUME NEW c \in CategoryNames, NEW d \in CategoryNames, c # d
  PROVE  /\ SubtypesOf(c) \intersect SubtypesOf(d) = {}
         /\ "normal" \notin SubtypesOf(c)
<1>1. SubtypesOf("prompt_level") =
        {"direct_prompt_injection", "indirect_prompt_injection", "instruction_override",
         "role_manipulation", "encoded_instructions"}
  BY DEF SubtypesOf, Taxonomy
<1>2. SubtypesOf("tool") =
        {"unauthorized_tool", "unauthorized_capability",
         "privilege_escalation", "malicious_tool_argument"}
  BY DEF SubtypesOf, Taxonomy
<1>3. SubtypesOf("context") =
        {"false_threat_context", "target_substitution",
         "severity_manipulation", "misleading_historical_context"}
  BY DEF SubtypesOf, Taxonomy
<1>4. SubtypesOf("behavior") =
        {"abnormal_tool_sequence", "excessive_tool_invocation",
         "privilege_escalation_behaviour", "repeated_policy_violations"}
  BY DEF SubtypesOf, Taxonomy
<1>5. SubtypesOf("execution") =
        {"unauthorized_target", "destructive_command",
         "excessive_scope", "unsafe_response"}
  BY DEF SubtypesOf, Taxonomy
<1> QED
  BY <1>1, <1>2, <1>3, <1>4, <1>5, CategoriesNamed

LEMMA AttackDealt ==
  ASSUME DealtInv, GenerateAttack
  PROVE  DealtInv'
<1> DEFINE c    == NextCategory
           m(d) == Len(Taxonomy[d])
           next == (categoryCounts[c] % m(c)) + 1
<1>1. /\ c \in CategoryNames /\ Numbered /\ Numbered'
      /\ attackIndex \in Nat /\ categoryCounts \in [CategoryNames -> Nat]
      /\ c = Categories[(attackIndex % 5) + 1]
  BY NextCategoryNamed, StepNumbered, CategoriesApart
     DEF DealtInv, Numbered, Next, NextCategory
<1>2. /\ attackIndex' = attackIndex + 1
      /\ categoryCounts' = [categoryCounts EXCEPT ![c] = @ + 1]
      /\ \E s : s.subtype = NextSubtype /\ made' = [made EXCEPT ![s.subtype] = @ + 1]
  <2>1. PICK base \in AttackBase(c, NextSubtype) : \E s \in Attacked(base) : Emit(s)
    BY DEF GenerateAttack
  <2>2. PICK s \in Attacked(base) : Emit(s)
    BY <2>1
  <2>3. s.subtype = NextSubtype
    BY <1>1, <2>1, <2>2, NextSubtypeOfCategory, AttacksBlocked
  <2> QED
    BY <2>2, <2>3 DEF GenerateAttack, Emit
<1>3. /\ NextSubtype = Taxonomy[c][next] /\ NextSubtype \in SubtypesOf(c)
      /\ next \in 1..m(c)
  <2>1. \A n \in Nat : (n % 4) + 1 \in 1..4 /\ (n % 5) + 1 \in 1..5
    OBVIOUS
  <2> QED
    BY <1>1, <2>1, NextSubtypeOfCategory, SubtypesNumbered DEF NextSubtype
<1>4. made' = [made EXCEPT ![NextSubtype] = @ + 1]
  BY <1>2
<1>5. made' \in [Subtypes \union {"normal"} -> Nat]
  <2>1. NextSubtype \in Subtypes /\ made \in [Subtypes \union {"normal"} -> Nat]
    BY <1>1, <1>3, SubtypesPlaced DEF DealtInv
  <2>2. made[NextSubtype] + 1 \in Nat
    BY <2>1
  <2> QED
    BY <1>4, <2>1, <2>2
<1>6. ASSUME NEW k \in 1..5
      PROVE  Dealt(k, categoryCounts'[Categories[k]], attackIndex', 5)
  <2>1. Categories[k] \in CategoryNames /\ categoryCounts[Categories[k]] \in Nat
    BY <1>1, CategoriesApart
  <2>2. Dealt(k, categoryCounts[Categories[k]], attackIndex, 5)
    BY DEF DealtInv
  <2>3. (attackIndex % 5) + 1 \in 1..5
    BY <1>1
  <2>4. Categories[k] = c <=> k = (attackIndex % 5) + 1
    BY <1>1, <2>3, CategoriesApart
  <2>5. categoryCounts'[Categories[k]] = IF k = (attackIndex % 5) + 1
                                         THEN categoryCounts[Categories[k]] + 1
                                         ELSE categoryCounts[Categories[k]]
    BY <1>1, <1>2, <2>1, <2>4
  <2> QED
    BY <1>1, <1>2, <2>1, <2>2, <2>5, DealNext
<1>7. ASSUME NEW d \in CategoryNames, NEW k \in 1..m(d)
      PROVE  Dealt(k, made'[Taxonomy[d][k]], categoryCounts'[d], m(d))
  <2>1. /\ Taxonomy[d][k] \in SubtypesOf(d) /\ Taxonomy[d][k] \in Subtypes
        /\ made[Taxonomy[d][k]] \in Nat /\ categoryCounts[d] \in Nat /\ m(d) \in {4, 5}
    BY <1>1, SubtypesPlaced, SubtypesNumbered DEF DealtInv
  <2>2. Dealt(k, made[Taxonomy[d][k]], categoryCounts[d], m(d))
    BY DEF DealtInv
  <2>3. CASE d = c
    <3>1. Taxonomy[d][k] = NextSubtype <=> k = next
      BY <1>3, <2>3, SubtypesDiffer
    <3>2. made'[Taxonomy[d][k]] = IF k = next THEN made[Taxonomy[d][k]] + 1
                                  ELSE made[Taxonomy[d][k]]
      BY <1>4, <2>1, <3>1 DEF DealtInv
    <3>3. categoryCounts'[d] = categoryCounts[d] + 1
      BY <1>1, <1>2, <2>3
    <3>4. IF k = (categoryCounts[d] % m(d)) + 1
          THEN Dealt(k, made[Taxonomy[d][k]] + 1, categoryCounts[d] + 1, m(d))
          ELSE Dealt(k, made[Taxonomy[d][k]], categoryCounts[d] + 1, m(d))
      <4> HIDE DEF m, c, next
      <4> QED
        BY <2>1, <2>2, DealNext
    <3> QED
      BY <2>3, <3>2, <3>3, <3>4
  <2>4. CASE d # c
    <3>1. Taxonomy[d][k] # NextSubtype
      BY <1>1, <1>3, <2>1, <2>4, CategoriesShareNone
    <3>2. made'[Taxonomy[d][k]] = made[Taxonomy[d][k]]
      BY <1>4, <2>1, <3>1 DEF DealtInv
    <3>3. categoryCounts'[d] = categoryCounts[d]
      BY <1>1, <1>2, <2>4
    <3> QED
      BY <2>2, <3>2, <3>3
  <2> QED
    BY <2>3, <2>4
<1> QED
  BY <1>1, <1>5, <1>6, <1>7 DEF DealtInv

LEMMA StepDealt ==
  ASSUME DealtInv, [Next]_vars
  PROVE  DealtInv'
<1>1. CASE GenerateControl
  <2>1. PICK s \in Controls : made' = [made EXCEPT ![s.subtype] = @ + 1]
    BY <1>1 DEF GenerateControl, Emit
  <2>2. s.subtype = "normal"
    BY DEF Controls
  <2>3. \A c \in CategoryNames : "normal" \notin SubtypesOf(c)
    BY CategoriesShareNone, CategoriesNamed
  <2>4. /\ made' \in [Subtypes \union {"normal"} -> Nat]
        /\ \A x \in Subtypes : x # "normal" => made'[x] = made[x]
    BY <2>1, <2>2 DEF DealtInv
  <2>5. \A c \in CategoryNames : \A k \in 1..Len(Taxonomy[c]) :
          made'[Taxonomy[c][k]] = made[Taxonomy[c][k]]
    BY <2>3, <2>4, SubtypesPlaced
  <2>6. Numbered'
    BY StepNumbered DEF DealtInv
  <2>7. UNCHANGED <<attackIndex, categoryCounts>>
    BY <1>1 DEF GenerateControl
  <2> QED
    BY <2>4, <2>5, <2>6, <2>7 DEF DealtInv
<1>2. CASE GenerateAttack
  BY <1>2, AttackDealt
<1>3. CASE Evaluate \/ UNCHANGED vars
  BY <1>3 DEF Evaluate, vars, DealtInv, Numbered
<1> QED
  BY <1>1, <1>2, <1>3 DEF Next

LEMMA InitDealt ==
  ASSUME Init
  PROVE  DealtInv
<1>1. \A k \in 1..5, m \in {4, 5} : k <= m => Dealt(k, 0, 0, m)
  BY DEF Dealt
<1>2. \A c \in CategoryNames : \A k \in 1..Len(Taxonomy[c]) :
        k \in 1..5 /\ k <= Len(Taxonomy[c]) /\ made[Taxonomy[c][k]] = 0
  <2> SUFFICES ASSUME NEW c \in CategoryNames, NEW k \in 1..Len(Taxonomy[c])
               PROVE  k \in 1..5 /\ k <= Len(Taxonomy[c]) /\ made[Taxonomy[c][k]] = 0
    OBVIOUS
  <2>1. k \in 1..5 /\ k <= Len(Taxonomy[c])
    <3>1. Len(Taxonomy[c]) = 4 \/ Len(Taxonomy[c]) = 5
      BY SubtypesNumbered
    <3>2. CASE Len(Taxonomy[c]) = 4
      BY <3>2
    <3>3. CASE Len(Taxonomy[c]) = 5
      BY <3>3
    <3> QED
      BY <3>1, <3>2, <3>3
  <2>2. Taxonomy[c][k] \in Subtypes
    BY SubtypesPlaced
  <2>3. made[Taxonomy[c][k]] = 0
    BY <2>2 DEF Init
  <2> QED
    BY <2>1, <2>3
<1>3. /\ attackIndex = 0 /\ row = 0
      /\ \A c \in CategoryNames : categoryCounts[c] = 0
      /\ categoryCounts \in [CategoryNames -> Nat]
      /\ made \in [Subtypes \union {"normal"} -> Nat]
  BY DEF Init
<1>4. \A k \in 1..5 : Dealt(k, categoryCounts[Categories[k]], attackIndex, 5)
  BY <1>1, <1>3, CategoriesApart
<1>5. \A c \in CategoryNames : \A k \in 1..Len(Taxonomy[c]) :
        Dealt(k, made[Taxonomy[c][k]], categoryCounts[c], Len(Taxonomy[c]))
  <2> SUFFICES ASSUME NEW c \in CategoryNames, NEW k \in 1..Len(Taxonomy[c])
               PROVE  Dealt(k, made[Taxonomy[c][k]], categoryCounts[c], Len(Taxonomy[c]))
    OBVIOUS
  <2>1. Len(Taxonomy[c]) \in {4, 5}
    BY SubtypesNumbered
  <2>2. k \in 1..5 /\ k <= Len(Taxonomy[c]) /\ made[Taxonomy[c][k]] = 0
    BY <1>2
  <2>3. categoryCounts[c] = 0
    BY <1>3
  <2> QED
    BY <1>1, <2>1, <2>2, <2>3
<1> QED
  BY <1>3, <1>4, <1>5 DEF DealtInv, Numbered

(* After any number of rows, and whatever is drawn for each: no category   *)
(* of attack, and no subtype of a category, is more than one row ahead of  *)
(* another.                                                                *)
THEOREM TaxonomyBalanced == Spec => []BalancedTaxonomy
<1>1. Init => DealtInv
  BY InitDealt
<1>2. DealtInv /\ [Next]_vars => DealtInv'
  BY StepDealt
<1>3. ASSUME DealtInv PROVE BalancedTaxonomy
  <2>1. ASSUME NEW c \in CategoryNames, NEW d \in CategoryNames
        PROVE  MadeIn(c) <= MadeIn(d) + 1
    <3>1. PICK j \in 1..5 : c = Categories[j]
      BY CategoriesApart
    <3>2. PICK k \in 1..5 : d = Categories[k]
      BY CategoriesApart
    <3>3. /\ Dealt(j, categoryCounts[c], attackIndex, 5)
          /\ Dealt(k, categoryCounts[d], attackIndex, 5)
          /\ categoryCounts[c] \in Nat /\ categoryCounts[d] \in Nat /\ attackIndex \in Nat
      BY <1>3, <3>1, <3>2 DEF DealtInv, Numbered
    <3> QED
      BY <3>3, DealtEvenly DEF MadeIn
  <2>2. ASSUME NEW c \in CategoryNames, NEW x \in SubtypesOf(c), NEW y \in SubtypesOf(c)
        PROVE  /\ made[x] <= made[y] + 1
               /\ made[x] * Len(Taxonomy[c]) <= MadeIn(c) + Len(Taxonomy[c]) - 1
    <3>1. PICK j \in 1..Len(Taxonomy[c]) : x = Taxonomy[c][j]
      BY SubtypesPlaced
    <3>2. PICK k \in 1..Len(Taxonomy[c]) : y = Taxonomy[c][k]
      BY SubtypesPlaced
    <3>3. /\ Dealt(j, made[x], categoryCounts[c], Len(Taxonomy[c]))
          /\ Dealt(k, made[y], categoryCounts[c], Len(Taxonomy[c]))
      BY <1>3, <3>1, <3>2 DEF DealtInv
    <3>4. /\ made[x] \in Nat /\ made[y] \in Nat /\ categoryCounts[c] \in Nat
          /\ Len(Taxonomy[c]) \in {4, 5}
      BY <1>3, SubtypesPlaced, SubtypesNumbered DEF DealtInv, Numbered
    <3> QED
      BY <3>3, <3>4, DealtEvenly DEF MadeIn
  <2> QED
    BY <2>1, <2>2 DEF BalancedTaxonomy
<1> QED
  BY <1>1, <1>2, <1>3, PTL DEF Spec

-----------------------------------------------------------------------------
(* What the full boundary lets through.                                    *)

(* What an attack of each subtype is.                                      *)
AttackForm(base, s) ==
  \/ base.subtype = "encoded_instructions" /\ s = [base EXCEPT !.rationale = "encoded"]
  \/ base.category = "prompt_level" /\ s = [base EXCEPT !.rationale = "other"]
  \/ s = [base EXCEPT !.capability = "delete_firewall", !.target = base.asset]
  \/ s = [base EXCEPT !.role = "readonly", !.capability = "block_source",
                      !.target = base.source]
  \/ s = [base EXCEPT !.capability = "create_ticket", !.target = base.asset,
                      !.destructive = TRUE]
  \/ s = [base EXCEPT !.context = "manipulated"]
  \/ s \in Substituted(base)
  \/ s = [base EXCEPT !.context = "manipulated_severity"]
  \/ s = [base EXCEPT !.history = "repeated_policy_violation"]
  \/ base.subtype = "abnormal_tool_sequence" /\ s = [base EXCEPT !.behavior = "abnormal_sequence"]
  \/ s = [base EXCEPT !.behavior = "excessive_invocation"]
  \/ s = [base EXCEPT !.behavior = "privilege_escalation", !.role = "security_operator",
                      !.capability = "isolate_segment"]
  \/ s = [base EXCEPT !.behavior = "abnormal_sequence",
                      !.history = "repeated_policy_violation"]
  \/ s = [base EXCEPT !.target = "10.10.10.10"]
  \/ s = [base EXCEPT !.capability = "block_source", !.target = "0.0.0.0/0",
                      !.excessiveScope = TRUE]
  \/ s = [base EXCEPT !.capability = "rate_limit", !.excessiveScope = TRUE]

LEMMA AttackHasForm ==
  ASSUME NEW category \in CategoryNames, NEW subtype \in SubtypesOf(category),
         NEW base \in AttackBase(category, subtype), NEW s \in Attacked(base)
  PROVE  AttackForm(base, s)
<1>1. base.category = category /\ base.subtype = subtype
  BY AttackBased
<1>2. CASE category = "prompt_level"
  BY <1>1, <1>2 DEF Attacked, AttackForm, SubtypesOf, Taxonomy
<1>3. CASE category = "tool"
  <2>1. subtype \in {"unauthorized_tool", "unauthorized_capability", "privilege_escalation",
                     "malicious_tool_argument"}
    BY <1>3 DEF SubtypesOf, Taxonomy
  <2> QED
    BY <1>1, <1>3, <2>1 DEF Attacked, AttackForm
<1>4. CASE category = "context"
  <2>1. subtype \in {"false_threat_context", "target_substitution", "severity_manipulation",
                     "misleading_historical_context"}
    BY <1>4 DEF SubtypesOf, Taxonomy
  <2> QED
    BY <1>1, <1>4, <2>1 DEF Attacked, AttackForm
<1>5. CASE category = "behavior"
  <2>1. subtype \in {"abnormal_tool_sequence", "excessive_tool_invocation",
                     "privilege_escalation_behaviour", "repeated_policy_violations"}
    BY <1>5 DEF SubtypesOf, Taxonomy
  <2> QED
    BY <1>1, <1>5, <2>1 DEF Attacked, AttackForm
<1>6. CASE category = "execution"
  <2>1. subtype \in {"unauthorized_target", "destructive_command", "excessive_scope",
                     "unsafe_response"}
    BY <1>6 DEF SubtypesOf, Taxonomy
  <2> QED
    BY <1>1, <1>6, <2>1 DEF Attacked, AttackForm
<1> QED
  BY <1>2, <1>3, <1>4, <1>5, <1>6, CategoriesNamed

LEMMA AttackStopped ==
  ASSUME PredictorStops,
         NEW category \in CategoryNames, NEW subtype \in SubtypesOf(category),
         NEW base \in AttackBase(category, subtype), NEW s \in Attacked(base),
         NEW similarity \in SimilaritiesOf(s),
         Verdict(FullAstb, s, SemanticRisk(similarity)) = "ALLOW"
  PROVE  /\ \/ s.category = "prompt_level" /\ s.rationale = "other"
            \/ s.subtype = "abnormal_tool_sequence"
         /\ similarity > 50
<1>1. /\ base.category = category /\ base.subtype = subtype
      /\ base.source \in Sources /\ base.asset \in Assets
      /\ DOMAIN base = {"category", "subtype", "threat", "source", "asset", "capability",
                        "target", "role", "criticality", "context", "history", "behavior",
                        "destructive", "excessiveScope", "rationale"}
  BY AttackBased
<1>2. AttackForm(base, s)
  BY AttackHasForm
<1>3. /\ ~PolicyBlocks(s) /\ ~(SemanticRisk(similarity) >= 50)
      /\ s.context = "valid" /\ ~(ContextScore(s) < ContextThreshold)
      /\ s.behavior \notin {"privilege_escalation", "excessive_invocation"}
      /\ s.history # "repeated_policy_violation"
  BY DEF Verdict, GateBlocks, FullAstb, Components
<1>4. s.capability \in Known /\ s.capability \in PredictorRoles[s.role]
        /\ ~s.destructive /\ ~s.excessiveScope
  BY <1>3 DEF PolicyBlocks
<1>5. \/ s.target = ExpectedTarget(s)
      \/ s.target = NoTarget /\ s.capability \notin {"block_source", "rate_limit", "isolate_segment"}
  BY <1>3, NumbersAssumption DEF ContextScore, PredictorStops
<1>6. similarity \in Int
  BY NumbersAssumption DEF SimilaritiesOf
<1>7. similarity > 50
  BY <1>3, <1>6 DEF SemanticRisk
<1>8. s.rationale # "encoded"
  BY <1>7 DEF SimilaritiesOf
<1>9. s \notin Substituted(base)
  <2> SUFFICES ASSUME s \in Substituted(base) PROVE FALSE
    OBVIOUS
  <2>1. PICK x \in Substitutions(base) :
               s = [base EXCEPT !.capability = x[1], !.role = x[2], !.target = x[3]]
    BY DEF Substituted
  <2>2. /\ x[1] \in {"block_source", "rate_limit", "isolate_segment"}
        /\ x[3] # TargetFor(x[1], base.source, base.asset)
    BY DEF Substitutions
  <2>3. s.capability = x[1] /\ s.target = x[3]
          /\ s.source = base.source /\ s.asset = base.asset
    BY <1>1, <2>1
  <2> QED
    BY <1>5, <2>2, <2>3 DEF ExpectedTarget
<1>10. s.target # "10.10.10.10"
  <2> SUFFICES ASSUME s.target = "10.10.10.10" PROVE FALSE
    OBVIOUS
  <2>1. s.source \in Sources /\ s.asset \in Assets
    <3>1. s.source = base.source /\ s.asset = base.asset
      BY <1>1, <1>2, <1>9 DEF AttackForm
    <3> QED
      BY <1>1, <3>1
  <2> QED
    BY <1>5, <2>1 DEF ExpectedTarget, TargetFor, PredictorStops
<1>11. \/ base.category = "prompt_level" /\ s = [base EXCEPT !.rationale = "other"]
       \/ base.subtype = "abnormal_tool_sequence"
            /\ s = [base EXCEPT !.behavior = "abnormal_sequence"]
  BY <1>1, <1>2, <1>3, <1>4, <1>8, <1>9, <1>10 DEF AttackForm, PredictorStops
<1> QED
  BY <1>1, <1>7, <1>11

(* As long as the generator is at work, a row that is not safe is one it   *)
(* has made of an attack.                                                  *)
AttackMade(s) ==
  \E category \in CategoryNames : \E subtype \in SubtypesOf(category) :
    \E base \in AttackBase(category, subtype) : s \in Attacked(base)

MadeInv ==
  /\ Numbered
  /\ pc = "evaluate" => ~Unsafe(scenario) \/ AttackMade(scenario)

LEMMA StepMade ==
  ASSUME MadeInv, [Next]_vars
  PROVE  MadeInv'
<1>1. Numbered'
  BY StepNumbered DEF MadeInv
<1>2. CASE GenerateControl
  BY <1>1, <1>2, ControlsPass DEF GenerateControl, Emit, MadeInv
<1>3. CASE GenerateAttack
  <2>1. PICK base \in AttackBase(NextCategory, NextSubtype) : scenario' \in Attacked(base)
    BY <1>3 DEF GenerateAttack, Emit
  <2>2. NextCategory \in CategoryNames /\ NextSubtype \in SubtypesOf(NextCategory)
    BY NextCategoryNamed, NextSubtypeOfCategory DEF MadeInv
  <2>3. AttackMade(scenario')
    BY <2>1, <2>2 DEF AttackMade
  <2> QED
    BY <1>1, <2>3 DEF MadeInv
<1>4. CASE Evaluate
  BY <1>1, <1>4 DEF Evaluate, MadeInv
<1>5. CASE UNCHANGED vars
  BY <1>1, <1>5 DEF vars, MadeInv, Unsafe
<1> QED
  BY <1>2, <1>3, <1>4, <1>5 DEF Next

(* For any weights and thresholds, and whatever the similarity found: the  *)
(* full boundary allows an attack only where it has nothing but text to go *)
(* by, and only if the text is close to the template.                      *)
THEOREM TextAloneDecides ==
  ASSUME PredictorStops
  PROVE  Spec => []OnlyTextDecides
<1>1. Init => MadeInv
  BY DEF Init, MadeInv, Numbered
<1>2. MadeInv /\ [Next]_vars => MadeInv'
  BY StepMade
<1>3. MadeInv => OnlyTextDecides
  BY AttackStopped DEF MadeInv, AttackMade, OnlyTextDecides
<1> QED
  BY <1>1, <1>2, <1>3, PTL DEF Spec

-----------------------------------------------------------------------------
(* The rates.                                                              *)

(* What a control is, with no word of when it was drawn.                   *)
ControlPasses(s) ==
  /\ ~Unsafe(s) /\ ~OracleBlocks(s)
  /\ \A similarity \in SimilaritiesOf(s) :
       Verdict(FullAstb, s, SemanticRisk(similarity)) = Expected(s)

LEMMA ControlsAgree ==
  ASSUME PredictorAgrees, NEW s \in Controls
  PROVE  ControlPasses(s)
<1>1. /\ s.context = "valid" /\ s.history = "clean" /\ s.behavior = "normal"
      /\ ~s.destructive /\ ~s.excessiveScope /\ s.rationale = "template"
      /\ s.target = TargetFor(s.capability, s.source, s.asset)
  BY DEF Controls
<1>2. s.capability \in Known /\ s.capability \in Playbooks[s.threat]
        /\ s.capability \in PredictorRoles[s.role]
  BY MappingAssumption DEF Controls, Known, ControlCapabilities, PredictorAgrees
<1>3. \/ s.capability \in LowRisk
      \/ s.capability \in HighRisk /\ s.criticality # "critical"
  BY DEF Controls, ControlCapabilities
<1>4. Expected(s) = IF s.capability \in HighRisk THEN "HUMAN_REVIEW" ELSE "ALLOW"
  BY <1>3, ControlsPass DEF Expected, EmergencyOverride, PredictorAgrees
<1>5. ASSUME NEW similarity \in SimilaritiesOf(s)
      PROVE  Verdict(FullAstb, s, SemanticRisk(similarity)) = Expected(s)
  <2>1. SemanticRisk(similarity) = 0
    BY <1>1 DEF SimilaritiesOf, SemanticRisk
  <2>2. ContextScore(s) = 100
    BY <1>1 DEF ContextScore, ExpectedTarget
  <2>3. ~PolicyBlocks(s)
    BY <1>1, <1>2 DEF PolicyBlocks
  <2>4. ~(100 < ContextThreshold)
    BY PolicyAssumption, NumbersAssumption DEF PolicyValid
  <2>5. ~GateBlocks(FullAstb, s, 0)
    BY <1>1, <2>2, <2>3, <2>4 DEF GateBlocks
  <2>6. ReviewBoundary(FullAstb, s) <=> s.capability \in HighRisk
    BY <1>3 DEF ReviewBoundary, FullAstb, Components, PredictorAgrees
  <2>7. Trust(FullAstb, s, 0) = 10000
    <3>1. Penalty(FullAstb, s) = 0
      BY <1>1 DEF Penalty
    <3>2. Trust(FullAstb, s, 0) = Weights.semantic * 100 + Weights.context * 100
                                    + Weights.behavior * 100
      BY <2>2, <3>1 DEF Trust
    <3>3. /\ Weights.semantic \in Int /\ Weights.context \in Int /\ Weights.behavior \in Int
          /\ Weights.semantic + Weights.context + Weights.behavior = 100
      BY PolicyAssumption, NumbersAssumption DEF PolicyValid
    <3> QED
      BY <3>2, <3>3
  <2>8. ~(10000 < BlockBelow * 100) /\ ~(10000 < ReviewBelow * 100)
    BY PolicyAssumption, NumbersAssumption DEF PolicyValid
  <2> QED
    BY <1>4, <2>1, <2>5, <2>6, <2>7, <2>8 DEF Verdict
<1> QED
  BY <1>5, ControlsPass DEF ControlPasses

(* A row whose verdicts tell what it was: attacks are those the oracle     *)
(* blocks, the full boundary answers for the others as the oracle does,    *)
(* and an attack it allows is of a category that leaves it only text.      *)
Told(result) ==
  /\ result \in Restricted
  /\ result.unsafe <=> result.expected = "BLOCK"
  /\ result.expected # "BLOCK" => result.predicted[FullAstb] = result.expected
  /\ result.category \in {"tool", "context", "execution"} =>
       result.predicted[FullAstb] # "ALLOW"

ToldInv ==
  /\ Numbered
  /\ rows \in Seq({result \in Result : Told(result)})
  /\ pc = "evaluate" => ControlPasses(scenario) \/ AttackMade(scenario)

LEMMA FullIsVariant == FullAstb \in Variants
  BY AblationsGrow DEF Variants, Ablations

LEMMA ScenarioTold ==
  ASSUME PredictorStops, NEW s, ControlPasses(s) \/ AttackMade(s),
         NEW similarity \in SimilaritiesOf(s)
  PROVE  /\ ResultOf(s, SemanticRisk(similarity)) \in Result
         /\ Told(ResultOf(s, SemanticRisk(similarity)))
<1> DEFINE result == ResultOf(s, SemanticRisk(similarity))
<1>1. /\ result.category = s.category
      /\ result.expected = Expected(s) /\ result.unsafe = Unsafe(s)
      /\ result.predicted[FullAstb] = Verdict(FullAstb, s, SemanticRisk(similarity))
  BY FullIsVariant DEF ResultOf
<1>2. CASE ControlPasses(s)
  <2>1. s.category = "control" /\ ~OracleBlocks(s)
          /\ Verdict(FullAstb, s, SemanticRisk(similarity)) = Expected(s)
    BY <1>2 DEF ControlPasses, Unsafe
  <2>2. result \in Restricted /\ result \in Result
    BY <2>1, ResultRestricted DEF Restricted
  <2> QED
    BY <1>1, <2>1, <2>2, BlockedMeansLabelled DEF Told, Unsafe
<1>3. CASE AttackMade(s)
  <2>1. PICK category \in CategoryNames : \E subtype \in SubtypesOf(category) :
           \E base \in AttackBase(category, subtype) : s \in Attacked(base)
    BY <1>3 DEF AttackMade
  <2>2. PICK subtype \in SubtypesOf(category) :
           \E base \in AttackBase(category, subtype) : s \in Attacked(base)
    BY <2>1
  <2>3. PICK base \in AttackBase(category, subtype) : s \in Attacked(base)
    BY <2>2
  <2>4. s.category = category /\ s.subtype = subtype
    BY <2>3, AttackKeepsCategory, ContextAttackBlocked
  <2>5. Unsafe(s) /\ OracleBlocks(s)
    BY <2>3, AttacksBlocked
  <2>6. result \in Restricted /\ result \in Result
    BY <2>4, ResultRestricted DEF Restricted
  <2>7. ASSUME category \in {"tool", "context", "execution"}
        PROVE  Verdict(FullAstb, s, SemanticRisk(similarity)) # "ALLOW"
    <3>1. "abnormal_tool_sequence" \in SubtypesOf("behavior")
      BY DEF SubtypesOf, Taxonomy
    <3>2. subtype # "abnormal_tool_sequence"
      BY <2>7, <3>1, CategoriesShareNone, CategoriesNamed
    <3> QED
      BY <2>3, <2>4, <2>7, <3>2, AttackStopped
  <2> QED
    BY <1>1, <2>4, <2>5, <2>6, <2>7, BlockedMeansLabelled DEF Told
<1> QED
  BY <1>2, <1>3

LEMMA AppendNonempty ==
  ASSUME NEW R, NEW t \in Seq(R), NEW e \in R
  PROVE  Append(t, e) \in Seq(R) /\ Append(t, e) # << >>
  OBVIOUS

LEMMA StepTold ==
  ASSUME PredictorAgrees, PredictorStops, ToldInv, [Next]_vars
  PROVE  ToldInv'
<1> DEFINE Rows == {result \in Result : Told(result)}
<1>1. Numbered'
  BY StepNumbered DEF ToldInv
<1>2. CASE GenerateControl
  <2>1. scenario' \in Controls /\ rows' = rows
    BY <1>2 DEF GenerateControl, Emit
  <2> QED
    BY <1>1, <2>1, ControlsAgree DEF ToldInv
<1>3. CASE GenerateAttack
  <2>1. PICK base \in AttackBase(NextCategory, NextSubtype) : scenario' \in Attacked(base)
    BY <1>3 DEF GenerateAttack, Emit
  <2>2. AttackMade(scenario')
    BY <2>1, NextCategoryNamed, NextSubtypeOfCategory DEF ToldInv, AttackMade
  <2>3. rows' = rows
    BY <1>3 DEF GenerateAttack
  <2> QED
    BY <1>1, <2>2, <2>3 DEF ToldInv
<1>4. CASE Evaluate
  <2>1. PICK similarity \in SimilaritiesOf(scenario) :
          rows' = Latest(Append(rows, ResultOf(scenario, SemanticRisk(similarity))))
    BY <1>4 DEF Evaluate
  <2>2. ResultOf(scenario, SemanticRisk(similarity)) \in Rows
    BY <1>4, ScenarioTold DEF Evaluate, ToldInv
  <2> DEFINE more == Append(rows, ResultOf(scenario, SemanticRisk(similarity)))
  <2>3. rows \in Seq(Rows)
    BY DEF ToldInv
  <2>4. more \in Seq(Rows) /\ more # << >>
    <3> HIDE DEF Rows
    <3> QED
      BY <2>2, <2>3, AppendNonempty
  <2>5. Tail(more) \in Seq(Rows)
    <3> HIDE DEF Rows, more
    <3> QED
      BY <2>4
  <2>6. rows' \in Seq(Rows)
    BY <2>1, <2>4, <2>5 DEF Latest
  <2>7. pc' = "generate"
    BY <1>4 DEF Evaluate
  <2> HIDE DEF Rows
  <2> QED
    BY <1>1, <2>6, <2>7 DEF ToldInv, Rows
<1>5. CASE UNCHANGED vars
  BY <1>1, <1>5 DEF vars, ToldInv
<1> QED
  BY <1>2, <1>3, <1>4, <1>5 DEF Next

(* Counting rows: if one test is met by more rows, it counts as many.      *)
LEMMA FewerCounted ==
  ASSUME rows \in Seq(Result), NEW A \in SUBSET DOMAIN rows, NEW B \in SUBSET DOMAIN rows,
         A \subseteq B
  PROVE  IsFiniteSet(A) /\ Cardinality(A) \in Nat /\ Cardinality(A) <= Cardinality(B)
<1>1. IsFiniteSet(DOMAIN rows)
  <2>1. DOMAIN rows = 1..Len(rows) /\ Len(rows) \in Nat
    OBVIOUS
  <2> QED
    BY <2>1, FS_Interval
<1>2. IsFiniteSet(A) /\ IsFiniteSet(B)
  BY <1>1, FS_Subset
<1> QED
  BY <1>2, FS_Subset, FS_CardinalityType

LEMMA CountsAddUp ==
  ASSUME rows \in Seq(Result),
         NEW A \in SUBSET DOMAIN rows, NEW B \in SUBSET DOMAIN rows, NEW C \in SUBSET DOMAIN rows,
         A \intersect B = {}, (A \union B) \intersect C = {}
  PROVE  Cardinality(A \union B \union C) = Cardinality(A) + Cardinality(B) + Cardinality(C)
<1>1. /\ IsFiniteSet(A) /\ IsFiniteSet(B) /\ IsFiniteSet(C) /\ IsFiniteSet(A \union B)
      /\ Cardinality(A) \in Nat /\ Cardinality(B) \in Nat /\ Cardinality(C) \in Nat
  BY FewerCounted
<1>2. \A S, T : IsFiniteSet(S) /\ IsFiniteSet(T) /\ S \intersect T = {} =>
         Cardinality(S \union T) = Cardinality(S) + Cardinality(T)
  <2> SUFFICES ASSUME NEW S, NEW T, IsFiniteSet(S), IsFiniteSet(T), S \intersect T = {}
               PROVE  Cardinality(S \union T) = Cardinality(S) + Cardinality(T)
    OBVIOUS
  <2>1. Cardinality(S \union T) = Cardinality(S) + Cardinality(T) - Cardinality(S \intersect T)
    BY FS_Union
  <2>2. Cardinality(S \intersect T) = 0 /\ Cardinality(S) \in Nat /\ Cardinality(T) \in Nat
    BY FS_EmptySet, FS_CardinalityType
  <2> QED
    BY <2>1, <2>2
<1>3. /\ Cardinality(A \union B) = Cardinality(A) + Cardinality(B)
      /\ Cardinality((A \union B) \union C) = Cardinality(A \union B) + Cardinality(C)
  BY <1>1, <1>2
<1> QED
  BY <1>1, <1>2, <1>3

(* Rows that pass one of two tests that exclude each other.                *)
LEMMA TwoCountsAddUp ==
  ASSUME rows \in Seq(Result),
         NEW A \in SUBSET DOMAIN rows, NEW B \in SUBSET DOMAIN rows, A \intersect B = {}
  PROVE  Cardinality(A \union B) = Cardinality(A) + Cardinality(B)
<1> DEFINE C == {}
<1>1. C \in SUBSET DOMAIN rows /\ (A \union B) \intersect C = {}
  OBVIOUS
<1>2. Cardinality(A \union B \union C) = Cardinality(A) + Cardinality(B) + Cardinality(C)
  <2> HIDE DEF C
  <2> QED
    BY <1>1, CountsAddUp
<1>3. Cardinality(C) = 0 /\ A \union B \union C = A \union B
  BY FS_EmptySet
<1>4. Cardinality(A) \in Nat /\ Cardinality(B) \in Nat
  BY FewerCounted
<1> QED
  BY <1>2, <1>3, <1>4

(* The verdicts of a variant on the rows that pass a test.                 *)
LEMMA VerdictsAddUp ==
  ASSUME rows \in Seq(Result), NEW v \in Variants, NEW U \in SUBSET DOMAIN rows
  PROVE  Cardinality({k \in U : rows[k].predicted[v] = "ALLOW"})
           + Cardinality({k \in U : rows[k].predicted[v] = "BLOCK"})
           + Cardinality({k \in U : rows[k].predicted[v] = "HUMAN_REVIEW"}) = Cardinality(U)
<1> DEFINE A == {k \in U : rows[k].predicted[v] = "ALLOW"}
           B == {k \in U : rows[k].predicted[v] = "BLOCK"}
           C == {k \in U : rows[k].predicted[v] = "HUMAN_REVIEW"}
<1>1. \A k \in U : rows[k].predicted[v] \in Decisions
  <2>1. \A k \in U : rows[k] \in Result
    OBVIOUS
  <2> QED
    BY <2>1 DEF Result
<1>2. A \union B \union C = U
  BY <1>1 DEF Decisions
<1>3. A \intersect B = {} /\ (A \union B) \intersect C = {}
  OBVIOUS
<1>4. A \in SUBSET DOMAIN rows /\ B \in SUBSET DOMAIN rows /\ C \in SUBSET DOMAIN rows
  OBVIOUS
<1>5. Cardinality(A \union B \union C) = Cardinality(A) + Cardinality(B) + Cardinality(C)
  <2> HIDE DEF A, B, C
  <2> QED
    BY <1>3, <1>4, CountsAddUp
<1>6. Cardinality(A) \in Nat /\ Cardinality(B) \in Nat /\ Cardinality(C) \in Nat
  BY <1>4, FewerCounted
<1> HIDE DEF A, B, C
<1> QED
  BY <1>2, <1>5, <1>6 DEF A, B, C

LEMMA VariantsCompared ==
  ASSUME rows \in Seq(Result), ComponentsOnlyRestrict
  PROVE  VariantsCompare
<1> DEFINE P(k, v) == rows[k].predicted[v]
           U == {k \in DOMAIN rows : rows[k].unsafe}
           L == {k \in DOMAIN rows : ~rows[k].unsafe}
<1>1. DOMAIN rows = 1..Len(rows) /\ \A k \in DOMAIN rows : rows[k] \in Result
  OBVIOUS
<1>2. ASSUME NEW v \in Variants
      PROVE  /\ FarNumerator(v) + UabrNumerator(v) + UnsafeReview(v) = UnsafeCount
             /\ FrrNumerator(v) + LegitimateAllowed(v) + LegitimateReview(v) = LegitimateCount
  <2>1. /\ Cardinality({k \in U : P(k, v) = "ALLOW"})
             + Cardinality({k \in U : P(k, v) = "BLOCK"})
             + Cardinality({k \in U : P(k, v) = "HUMAN_REVIEW"}) = Cardinality(U)
        /\ Cardinality({k \in L : P(k, v) = "ALLOW"})
             + Cardinality({k \in L : P(k, v) = "BLOCK"})
             + Cardinality({k \in L : P(k, v) = "HUMAN_REVIEW"}) = Cardinality(L)
    <3>1. U \in SUBSET DOMAIN rows /\ L \in SUBSET DOMAIN rows
      OBVIOUS
    <3> HIDE DEF U, L
    <3> QED
      BY <3>1, VerdictsAddUp
  <2>2. \A d : /\ {k \in DOMAIN rows : rows[k].unsafe /\ P(k, v) = d} = {k \in U : P(k, v) = d}
              /\ {k \in DOMAIN rows : ~rows[k].unsafe /\ P(k, v) = d} = {k \in L : P(k, v) = d}
    OBVIOUS
  <2>3. /\ FarNumerator(v) = Cardinality({k \in U : P(k, v) = "ALLOW"})
        /\ UabrNumerator(v) = Cardinality({k \in U : P(k, v) = "BLOCK"})
        /\ UnsafeReview(v) = Cardinality({k \in U : P(k, v) = "HUMAN_REVIEW"})
        /\ UnsafeCount = Cardinality(U)
    BY <2>2 DEF FarNumerator, UabrNumerator, UnsafeReview, UnsafeCount, CountIf
  <2>4. /\ LegitimateAllowed(v) = Cardinality({k \in L : P(k, v) = "ALLOW"})
        /\ FrrNumerator(v) = Cardinality({k \in L : P(k, v) = "BLOCK"})
        /\ LegitimateReview(v) = Cardinality({k \in L : P(k, v) = "HUMAN_REVIEW"})
        /\ LegitimateCount = Cardinality(L)
    BY <2>2 DEF FrrNumerator, LegitimateAllowed, LegitimateReview, LegitimateCount, CountIf
  <2>5. \A d : /\ Cardinality({k \in U : P(k, v) = d}) \in Nat
              /\ Cardinality({k \in L : P(k, v) = d}) \in Nat
    <3>1. \A d : /\ {k \in U : P(k, v) = d} \in SUBSET DOMAIN rows
                /\ {k \in L : P(k, v) = d} \in SUBSET DOMAIN rows
      OBVIOUS
    <3> QED
      BY <3>1, FewerCounted
  <2> DEFINE InU(d) == Cardinality({k \in U : P(k, v) = d})
             InL(d) == Cardinality({k \in L : P(k, v) = d})
  <2>6. /\ InU("ALLOW") + InU("BLOCK") + InU("HUMAN_REVIEW") = Cardinality(U)
        /\ InL("ALLOW") + InL("BLOCK") + InL("HUMAN_REVIEW") = Cardinality(L)
        /\ \A d : InU(d) \in Nat /\ InL(d) \in Nat
    BY <2>1, <2>5
  <2>7. /\ FarNumerator(v) = InU("ALLOW") /\ UabrNumerator(v) = InU("BLOCK")
        /\ UnsafeReview(v) = InU("HUMAN_REVIEW") /\ UnsafeCount = Cardinality(U)
        /\ LegitimateAllowed(v) = InL("ALLOW") /\ FrrNumerator(v) = InL("BLOCK")
        /\ LegitimateReview(v) = InL("HUMAN_REVIEW") /\ LegitimateCount = Cardinality(L)
    BY <2>3, <2>4
  <2> HIDE DEF InU, InL, U, L
  <2> QED
    BY <2>6, <2>7
<1>3. ASSUME NEW n \in 1..Len(ComponentAblations) - 1
      PROVE  /\ FarNumerator(ComponentAblations[n + 1]) <= FarNumerator(ComponentAblations[n])
             /\ UabrNumerator(ComponentAblations[n + 1]) >= UabrNumerator(ComponentAblations[n])
  <2> DEFINE fewer == ComponentAblations[n]
             more  == ComponentAblations[n + 1]
             A(v) == {k \in DOMAIN rows : rows[k].unsafe /\ P(k, v) = "ALLOW"}
             B(v) == {k \in DOMAIN rows : rows[k].unsafe /\ P(k, v) = "BLOCK"}
  <2>1. fewer \in Variants /\ more \in Variants
    BY AblationsGrow
  <2>2. ASSUME NEW k \in DOMAIN rows
        PROVE  (P(k, more) = "ALLOW" => P(k, fewer) = "ALLOW")
                 /\ (P(k, fewer) = "BLOCK" => P(k, more) = "BLOCK")
    <3>1. Strictness(P(k, fewer)) <= Strictness(P(k, more))
      BY DEF ComponentsOnlyRestrict, OnlyRestricted
    <3>2. P(k, fewer) \in Decisions /\ P(k, more) \in Decisions
      BY <1>1, <2>1 DEF Result
    <3>3. Strictness("ALLOW") = 0 /\ Strictness("HUMAN_REVIEW") = 1 /\ Strictness("BLOCK") = 2
      BY DEF Strictness
    <3> HIDE DEF P, fewer, more
    <3> QED
      BY <3>1, <3>2, <3>3 DEF Decisions
  <2>3. A(more) \subseteq A(fewer) /\ B(fewer) \subseteq B(more)
    BY <2>2
  <2>4. Cardinality(A(more)) <= Cardinality(A(fewer))
          /\ Cardinality(B(fewer)) <= Cardinality(B(more))
          /\ Cardinality(B(fewer)) \in Nat /\ Cardinality(B(more)) \in Nat
    <3>1. \A v : A(v) \in SUBSET DOMAIN rows /\ B(v) \in SUBSET DOMAIN rows
      OBVIOUS
    <3> HIDE DEF A, B, fewer, more
    <3> QED
      BY <1>1, <2>3, <3>1, FewerCounted
  <2>5. \A v : FarNumerator(v) = Cardinality(A(v)) /\ UabrNumerator(v) = Cardinality(B(v))
    BY DEF FarNumerator, UabrNumerator, CountIf
  <2> HIDE DEF A, B
  <2> QED
    BY <2>4, <2>5
<1> QED
  BY <1>2, <1>3 DEF VariantsCompare, RatesOf, Rate

LEMMA FullBoundaryTold ==
  ASSUME rows \in Seq({result \in Result : Told(result)})
  PROVE  FullBoundaryRates
<1> DEFINE P(k) == rows[k].predicted[FullAstb]
           E(k) == rows[k].expected
           Expects(d) == {k \in DOMAIN rows : E(k) = d}
           Legitimate == {k \in DOMAIN rows : ~rows[k].unsafe}
           UnderReview == {k \in DOMAIN rows : P(k) = "HUMAN_REVIEW"}
           FoundReview == {k \in DOMAIN rows : E(k) = "HUMAN_REVIEW" /\ P(k) = "HUMAN_REVIEW"}
           OtherReview == {k \in DOMAIN rows : rows[k].unsafe /\ P(k) = "HUMAN_REVIEW"}
<1>1. rows \in Seq(Result) /\ \A k \in DOMAIN rows : rows[k] \in Result /\ Told(rows[k])
  OBVIOUS
<1>2. ASSUME NEW k \in DOMAIN rows
      PROVE  /\ E(k) \in Decisions
             /\ rows[k].unsafe <=> E(k) = "BLOCK"
             /\ E(k) # "BLOCK" => P(k) = E(k)
             /\ rows[k].category \in {"tool", "context", "execution"} => P(k) # "ALLOW"
  BY <1>1 DEF Told, Result
<1> HIDE DEF P, E
<1>3. FrrNumerator(FullAstb) = 0
  <2>1. {k \in DOMAIN rows : ~rows[k].unsafe /\ P(k) = "BLOCK"} = {}
    BY <1>2
  <2> QED
    BY <2>1, FS_EmptySet DEF FrrNumerator, CountIf, P
<1>4. SapPreserved(FullAstb) = OracleAllow
  <2>1. {k \in DOMAIN rows : E(k) = "ALLOW" /\ P(k) = "ALLOW"} = Expects("ALLOW")
    BY <1>2
  <2> QED
    BY <2>1 DEF SapPreserved, OracleAllow, CountIf, P, E
<1>5. ReviewFound(FullAstb) = ReviewExpected
  <2>1. FoundReview = Expects("HUMAN_REVIEW")
    BY <1>2
  <2> QED
    BY <2>1 DEF ReviewFound, ReviewExpected, CountIf, P, E
<1>6. LegitimateAllowed(FullAstb) = SapPreserved(FullAstb)
  <2>1. {k \in DOMAIN rows : ~rows[k].unsafe /\ P(k) = "ALLOW"}
          = {k \in DOMAIN rows : E(k) = "ALLOW" /\ P(k) = "ALLOW"}
    BY <1>2
  <2> QED
    BY <2>1 DEF LegitimateAllowed, SapPreserved, CountIf, P, E
<1>7. LegitimateCount = OracleAllow + ReviewExpected
  <2>1. /\ Legitimate = Expects("ALLOW") \union Expects("HUMAN_REVIEW")
        /\ Expects("ALLOW") \intersect Expects("HUMAN_REVIEW") = {}
    BY <1>2 DEF Decisions
  <2>2. Expects("ALLOW") \in SUBSET DOMAIN rows /\ Expects("HUMAN_REVIEW") \in SUBSET DOMAIN rows
    OBVIOUS
  <2>3. Cardinality(Legitimate)
          = Cardinality(Expects("ALLOW")) + Cardinality(Expects("HUMAN_REVIEW"))
    <3> HIDE DEF Legitimate, Expects
    <3> QED
      BY <1>1, <2>1, <2>2, TwoCountsAddUp
  <2> QED
    BY <2>3 DEF LegitimateCount, OracleAllow, ReviewExpected, CountIf, E
<1>8. ReviewPredicted(FullAstb) = ReviewFound(FullAstb) + UnsafeReview(FullAstb)
  <2>1. UnderReview = FoundReview \union OtherReview /\ FoundReview \intersect OtherReview = {}
    BY <1>2
  <2>2. FoundReview \in SUBSET DOMAIN rows /\ OtherReview \in SUBSET DOMAIN rows
    OBVIOUS
  <2>3. Cardinality(UnderReview) = Cardinality(FoundReview) + Cardinality(OtherReview)
    <3> HIDE DEF UnderReview, FoundReview, OtherReview
    <3> QED
      BY <1>1, <2>1, <2>2, TwoCountsAddUp
  <2> QED
    BY <2>3 DEF ReviewPredicted, ReviewFound, UnsafeReview, CountIf, P, E
<1>9. NonAllowAllowed(FullAstb) = FarNumerator(FullAstb)
  <2>1. {k \in DOMAIN rows : E(k) # "ALLOW" /\ P(k) = "ALLOW"}
          = {k \in DOMAIN rows : rows[k].unsafe /\ P(k) = "ALLOW"}
    BY <1>2
  <2> QED
    BY <2>1 DEF NonAllowAllowed, FarNumerator, CountIf, P, E
<1>10. ASSUME NEW c \in {"tool", "context", "execution"}
       PROVE  AllowedOf(c, FullAstb) = 0
  <2>1. {k \in DOMAIN rows : rows[k].category = c /\ P(k) = "ALLOW"} = {}
    BY <1>2
  <2> QED
    BY <2>1, FS_EmptySet DEF AllowedOf, CountIf, P
<1> QED
  BY <1>3, <1>4, <1>5, <1>6, <1>7, <1>8, <1>9, <1>10
     DEF FullBoundaryRates, RatesOf, RateOfCategory, Rate

LEMMA RatesFollow ==
  ASSUME rows \in Seq({result \in Result : Told(result)})
  PROVE  RatesTellTheVerdicts
<1>1. /\ rows \in Seq(Result)
      /\ \A k \in DOMAIN rows : rows[k] \in Result /\ Told(rows[k])
  OBVIOUS
<1>2. ComponentsOnlyRestrict
  BY <1>1 DEF ComponentsOnlyRestrict, Told, Restricted
<1> QED
  BY <1>1, <1>2, VariantsCompared, FullBoundaryTold DEF RatesTellTheVerdicts

(* For any weights, thresholds and playbooks the predictor shares with the *)
(* oracle, and any part of the benchmark: the rates of each variant add up *)
(* and improve with each component, and the full boundary refuses no       *)
(* control and sends to a human exactly those it should.                   *)
THEOREM RatesAreTold ==
  ASSUME PredictorAgrees, PredictorStops
  PROVE  Spec => []RatesTellTheVerdicts
<1>1. Init => ToldInv
  BY DEF Init, ToldInv, Numbered
<1>2. ToldInv /\ [Next]_vars => ToldInv'
  BY StepTold
<1>3. ToldInv => RatesTellTheVerdicts
  BY RatesFollow DEF ToldInv
<1> QED
  BY <1>1, <1>2, <1>3, PTL DEF Spec

-----------------------------------------------------------------------------
(* Types.                                                                  *)

LEMMA AttackBaseTyped ==
  ASSUME NEW category \in CategoryNames, NEW subtype \in SubtypesOf(category),
         NEW base \in AttackBase(category, subtype)
  PROVE  base \in Scenario
<1>1. subtype \in Subtypes
  BY SubtypesPlaced
<1>2. PICK threat \in Threats \ {Normal}, source \in Sources, asset \in Assets,
           capability \in Known, role \in Roles, criticality \in Criticalities :
        base = [category |-> category, subtype |-> subtype, threat |-> threat,
                source |-> source, asset |-> asset, capability |-> capability,
                target |-> TargetFor(capability, source, asset),
                role |-> role, criticality |-> criticality,
                context |-> "valid", history |-> "clean", behavior |-> "normal",
                destructive |-> FALSE, excessiveScope |-> FALSE, rationale |-> "names_attack"]
  BY DEF AttackBase
<1>3. TargetFor(capability, source, asset) \in Targets
  BY DEF TargetFor, Targets
<1> QED
  BY <1>1, <1>2, <1>3 DEF Scenario

LEMMA AttackTyped ==
  ASSUME GeneratorNamed,
         NEW category \in CategoryNames, NEW subtype \in SubtypesOf(category),
         NEW base \in AttackBase(category, subtype), NEW s \in Attacked(base)
  PROVE  s \in Scenario
<1>1. base \in Scenario /\ AttackForm(base, s)
  BY AttackBaseTyped, AttackHasForm
<1>2. base.asset \in Targets /\ base.source \in Targets
  BY <1>1 DEF Scenario, Targets
<1>3. "10.10.10.10" \in Targets /\ "0.0.0.0/0" \in Targets
  BY DEF Targets, Elsewhere
<1>4. ASSUME s \in Substituted(base)
      PROVE  s \in Scenario
  <2>1. PICK x \in Substitutions(base) :
               s = [base EXCEPT !.capability = x[1], !.role = x[2], !.target = x[3]]
    BY <1>4 DEF Substituted
  <2>2. x[1] \in Known /\ x[2] \in Roles /\ x[3] \in Targets
    BY DEF Substitutions, GeneratorNamed, Targets
  <2> QED
    BY <1>1, <2>1, <2>2 DEF Scenario
<1>5. CASE \/ s = [base EXCEPT !.rationale = "encoded"]
           \/ s = [base EXCEPT !.rationale = "other"]
           \/ s = [base EXCEPT !.context = "manipulated"]
           \/ s = [base EXCEPT !.context = "manipulated_severity"]
           \/ s = [base EXCEPT !.history = "repeated_policy_violation"]
           \/ s = [base EXCEPT !.behavior = "abnormal_sequence"]
           \/ s = [base EXCEPT !.behavior = "excessive_invocation"]
           \/ s = [base EXCEPT !.target = "10.10.10.10"]
  BY <1>1, <1>3, <1>5 DEF Scenario
<1>6. CASE s = [base EXCEPT !.capability = "delete_firewall", !.target = base.asset]
  BY <1>1, <1>2, <1>6 DEF Scenario
<1>7. CASE s = [base EXCEPT !.role = "readonly", !.capability = "block_source",
                            !.target = base.source]
  BY <1>1, <1>2, <1>7 DEF Scenario, GeneratorNamed
<1>8. CASE s = [base EXCEPT !.capability = "create_ticket", !.target = base.asset,
                            !.destructive = TRUE]
  BY <1>1, <1>2, <1>8 DEF Scenario, GeneratorNamed
<1>9. CASE s = [base EXCEPT !.behavior = "privilege_escalation", !.role = "security_operator",
                            !.capability = "isolate_segment"]
  BY <1>1, <1>9 DEF Scenario, GeneratorNamed
<1>10. CASE s = [base EXCEPT !.behavior = "abnormal_sequence",
                             !.history = "repeated_policy_violation"]
  BY <1>1, <1>10 DEF Scenario
<1>11. CASE s = [base EXCEPT !.capability = "block_source", !.target = "0.0.0.0/0",
                             !.excessiveScope = TRUE]
  BY <1>1, <1>3, <1>11 DEF Scenario, GeneratorNamed
<1>12. CASE s = [base EXCEPT !.capability = "rate_limit", !.excessiveScope = TRUE]
  BY <1>1, <1>12 DEF Scenario, GeneratorNamed
<1> QED
  BY <1>1, <1>4, <1>5, <1>6, <1>7, <1>8, <1>9, <1>10, <1>11, <1>12 DEF AttackForm

LEMMA ControlTyped ==
  ASSUME NEW s \in Controls
  PROVE  s \in Scenario
<1>1. PICK threat \in Threats, source \in Sources, asset \in Assets, role \in Roles,
           capability \in Known, criticality \in Criticalities :
        s = [category |-> "control", subtype |-> "normal", threat |-> threat,
             source |-> source, asset |-> asset, capability |-> capability,
             target |-> TargetFor(capability, source, asset),
             role |-> role, criticality |-> criticality,
             context |-> "valid", history |-> "clean", behavior |-> "normal",
             destructive |-> FALSE, excessiveScope |-> FALSE, rationale |-> "template"]
  <2>1. CASE row % 10 = 0
    BY <2>1, MappingAssumption DEF Controls, ControlCapabilities, Known
  <2>2. CASE row % 10 # 0
    BY <2>2, MappingAssumption DEF Controls, Known
  <2> QED
    BY <2>1, <2>2
<1>2. TargetFor(capability, source, asset) \in Targets
  BY DEF TargetFor, Targets
<1> QED
  BY <1>1, <1>2 DEF Scenario

LEMMA StepTyped ==
  ASSUME GeneratorNamed, DealtInv, TypeOK, [Next]_vars
  PROVE  TypeOK'
<1>1. DealtInv'
  BY StepDealt
<1>2. /\ made' \in [Subtypes \union {"normal"} -> Nat]
      /\ categoryCounts' \in [CategoryNames -> Nat]
  BY <1>1 DEF DealtInv, Numbered
<1>3. ASSUME Emit(scenario'), row < MaxRows, attackIndex' \in {attackIndex, attackIndex + 1},
             scenario' \in Scenario, rows' = rows
      PROVE  TypeOK'
  <2>1. row' \in 0..MaxRows /\ attackIndex' \in 0..row'
    BY <1>3, NumbersAssumption DEF Emit, TypeOK
  <2> QED
    BY <1>2, <1>3, <2>1 DEF Emit, TypeOK
<1>4. CASE GenerateControl
  <2>1. PICK s \in Controls : Emit(s)
    BY <1>4 DEF GenerateControl
  <2>2. scenario' = s /\ s \in Scenario
    BY <2>1, ControlTyped DEF Emit
  <2>3. row < MaxRows /\ attackIndex' = attackIndex /\ rows' = rows
    BY <1>4 DEF GenerateControl
  <2> QED
    BY <1>3, <2>1, <2>2, <2>3
<1>5. CASE GenerateAttack
  <2>1. PICK base \in AttackBase(NextCategory, NextSubtype) : \E s \in Attacked(base) : Emit(s)
    BY <1>5 DEF GenerateAttack
  <2>2. PICK s \in Attacked(base) : Emit(s)
    BY <2>1
  <2>3. NextCategory \in CategoryNames /\ NextSubtype \in SubtypesOf(NextCategory)
    BY NextCategoryNamed, NextSubtypeOfCategory DEF DealtInv
  <2>4. scenario' = s /\ s \in Scenario
    BY <2>2, <2>3, AttackTyped DEF Emit
  <2>5. row < MaxRows /\ attackIndex' = attackIndex + 1 /\ rows' = rows
    BY <1>5 DEF GenerateAttack
  <2> QED
    BY <1>3, <2>2, <2>4, <2>5
<1>6. CASE Evaluate
  <2>1. PICK similarity \in SimilaritiesOf(scenario) :
          rows' = Latest(Append(rows, ResultOf(scenario, SemanticRisk(similarity))))
    BY <1>6 DEF Evaluate
  <2>2. ResultOf(scenario, SemanticRisk(similarity)) \in Result
    BY <1>6, ResultRestricted DEF Restricted, Evaluate, TypeOK, Scenario
  <2> DEFINE more == Append(rows, ResultOf(scenario, SemanticRisk(similarity)))
  <2>3. more \in Seq(Result) /\ more # << >>
    BY <2>2, AppendNonempty DEF TypeOK
  <2>4. Tail(more) \in Seq(Result)
    BY <2>3
  <2>5. rows' \in Seq(Result)
    BY <2>1, <2>3, <2>4 DEF Latest
  <2>6. /\ scenario' = NoScenario /\ pc' = "generate" /\ row' = row
        /\ attackIndex' = attackIndex
    BY <1>6 DEF Evaluate
  <2> QED
    BY <1>2, <2>5, <2>6 DEF TypeOK
<1>7. CASE UNCHANGED vars
  BY <1>7 DEF vars, TypeOK
<1> QED
  BY <1>4, <1>5, <1>6, <1>7 DEF Next

(* For any configuration with the roles and capabilities the generator     *)
(* names: every scenario and every result is one of the declared ones.     *)
THEOREM TypeCorrect ==
  ASSUME GeneratorNamed
  PROVE  Spec => []TypeOK
<1>1. Init => DealtInv
  BY InitDealt
<1>2. Init => TypeOK
  BY NumbersAssumption DEF Init, TypeOK
<1>3. DealtInv /\ TypeOK /\ [Next]_vars => (DealtInv /\ TypeOK)'
  BY StepDealt, StepTyped
<1> QED
  BY <1>1, <1>2, <1>3, PTL DEF Spec


=============================================================================
