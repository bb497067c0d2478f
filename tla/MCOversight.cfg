CONSTANTS
  Agents = {a, b}
  Evaluators = {v1, v2}
  Analysts = {p, q}
  Plans <- MCPlans
  TrustValues = {30, 90}
  Thresholds <- MCThresholds
  Labels = {"correct", "false_positive"}
  Hour = 1
  RecentWindow = 1
  MinSamples = 1
  OldEntries <- MCOldEntries
  Limits <- MCLimits
SYMMETRY Symmetry
SPECIFICATION Spec
INVARIANTS TypeOK MeddlingShows NoFalseAlarm RefitReplaysLive ReportsAgree
CHECK_DEADLOCK FALSE
