-------------------------- MODULE MCDecisionEngine --------------------------
(***************************************************************************)
(* DecisionEngine on a small instance: engines with no, one and two        *)
(* models, a proposal that is allowed, one that is allowed in part, and    *)
(* one without actions.                                                    *)
(***************************************************************************)
EXTENDS DecisionEngine

CONSTANTS block, isolate

MCAllowed    == {{block}, {}}
MCProposals  == {[plan |-> {block}, rationale |-> "sound"],
                 [plan |-> {block, isolate}, rationale |-> "sound"],
                 [plan |-> {}, rationale |-> "sound"],
                 [plan |-> {block}, rationale |-> "blank"]}
MCModelLists == {<< >>, <<"primary">>, <<"primary", "fallback_model">>}
=============================================================================
