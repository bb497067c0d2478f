----------------------------- MODULE MCAuditLog -----------------------------
(***************************************************************************)
(* AuditLog on a small instance.  The loggers are interchangeable and the  *)
(* properties are safety properties, so permuting them is sound.           *)
(***************************************************************************)
EXTENDS AuditLog, TLC

LoggerSymmetry == Permutations(Loggers)
=============================================================================
