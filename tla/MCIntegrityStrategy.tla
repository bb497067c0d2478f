------------------------ MODULE MCIntegrityStrategy ------------------------
(***************************************************************************)
(* IntegrityStrategy on a small instance: two honest clients and another,  *)
(* which may send a value above theirs.                                    *)
(***************************************************************************)
EXTENDS IntegrityStrategy

CONSTANTS h1, h2, m

HonestSymmetry == Permutations({h1, h2})

(* The model, and the line of an earlier round, are written and never read *)
(* again, and weights only by the weighted mean: states that differ in     *)
(* them alone have the same future.                                        *)
Weighed ==
  IF method = "weighted_mean" THEN cur.updates
  ELSE [c \in DOMAIN cur.updates |-> cur.updates[c].value]

Relevant ==
  <<method, pc, round, trust, cur.line, Weighed, demerits, streak,
    IF pc = "aggregate" THEN line ELSE NoLine>>
=============================================================================
