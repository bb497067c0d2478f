CONSTANTS
  lo = lo
  hi = hi
  other = other
  odd = odd
  Agents = {a1}
  Nonces = {n1}
  Capabilities = {lo, hi, other, odd}
  LowRisk = {lo}
  HighRisk = {hi, other}
  Plans <- MCPlans
  Playbooks <- MCPlaybooks
  MaxAge = 1
  QuotaWindow = 2
  Quota = 3
  MaxActions = 2
  MaxSkew = 1
  Reports = {"true"}
  Faults = {"tampered_log"}
  MaxTime = 2
  MaxEvaluations = 1
SPECIFICATION Spec
INVARIANT EveryDecisionAudited
CHECK_DEADLOCK FALSE
