---------------------------- MODULE MCOversight ----------------------------
(***************************************************************************)
(* Oversight with the thresholds of configs/edge_iiot.yaml, a trust value  *)
(* below the lowest and one above the highest.  Agents, evaluators and     *)
(* analysts are interchangeable.                                           *)
(***************************************************************************)
EXTENDS Oversight, TLC

MCPlans == {[actions |-> 1, highRisk |-> 1]}
MCThresholds == [low |-> 40, medium |-> 65, high |-> 85]

(* An entry without an agent, of an older version, rejected before it was  *)
(* scored.                                                                 *)
Old(trust) ==
  [agent |-> "unknown", time |-> 0, trust |-> trust, accepted |-> trust >= 40,
   executor |-> "none"]
MCOldEntries == {<< >>, <<Old(-1)>>}

(* Many decisions, many labels, or some of both.                           *)
MCLimits ==
  {[decisions |-> 2, time |-> 2, labels |-> 0],
   [decisions |-> 0, time |-> 0, labels |-> 3],
   [decisions |-> 1, time |-> 0, labels |-> 1]}

Symmetry == Permutations(Agents) \union Permutations(Evaluators) \union Permutations(Analysts)
=============================================================================
