CONSTANTS
  lo = lo
  hi = hi
  other = other
  odd = odd
  Agents = {a1}
  Nonces = {n1, n2}
  Capabilities = {lo, hi, other, odd}
  LowRisk = {lo}
  HighRisk = {hi, other}
  Plans <- MCPlans
  Playbooks <- MCPlaybooks
  MaxAge = 1
  QuotaWindow = 1
  Quota = 3
  MaxActions = 2
  MaxSkew = 1
  Reports = {"true", "false", "raises"}
  Faults = {"crash", "history_write", "audit_write"}
  MaxTime = 2
  MaxEvaluations = 2
SPECIFICATION Spec
SYMMETRY NonceSymmetry
INVARIANTS
  TypeOK SessionActsOnce QuotaKept OnlyClearedPlansAct StatusTruthful
  AuditedIsRecorded
CHECK_DEADLOCK FALSE
