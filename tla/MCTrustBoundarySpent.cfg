CONSTANTS
  lo = lo
  hi = hi
  other = other
  odd = odd
  Agents = {a1}
  Nonces = {n1}
  Capabilities = {lo, hi, other, odd}
  LowRisk = {lo}
  HighRisk = {hi, other}
  Plans <- MCPlans
  Playbooks <- MCPlaybooks
  MaxAge = 1
  QuotaWindow = 2
  Quota = 3
  MaxActions = 2
  MaxSkew = 1
  Reports = {"true"}
  Faults = {}
  MaxTime = 2
  MaxEvaluations = 2
SPECIFICATION Spec
INVARIANT SpentNonceRefused
CHECK_DEADLOCK FALSE
