-------------------------- MODULE MCTrustBoundary --------------------------
(***************************************************************************)
(* TrustBoundary on a small instance: a plan of two actions that may be    *)
(* cleared, of which the quota takes one and not two, and three that may   *)
(* not, for one reason each: an action the incident's playbooks leave out, *)
(* one the policy does not know, and one action too many.                  *)
(***************************************************************************)
EXTENDS TrustBoundary, TLC

CONSTANTS lo, hi, other, odd

MCPlans     == {<<lo, hi>>, <<lo, other>>, <<odd>>, <<lo, lo, lo>>}
MCPlaybooks == {{lo, hi, odd}}

(* Nonces are only compared, and the properties are safety properties.     *)
NonceSymmetry == Permutations(Nonces)
=============================================================================
