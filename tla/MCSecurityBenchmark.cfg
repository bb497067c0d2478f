CONSTANTS
  Threats <- MCThreats
  ActiveThreats = {"DDoS_UDP", "Ransomware"}
  Playbooks <- MCPlaybooks
  LowRisk <- MCLowRisk
  HighRisk <- MCHighRisk
  OracleRoles <- MCRoles
  PredictorRoles <- MCRoles
  ReviewRequired <- MCHighRisk
  Sources = {"192.0.2.10", "192.0.2.20"}
  Assets = {"198.51.100.20", "198.51.100.30"}
  Criticalities = {"low", "critical"}
  Similarities = {0, 50, 51, 63, 97}
  Weights <- MCWeights
  BlockBelow = 40
  ReviewBelow = 85
  ContextThreshold = 100
  MaxRows = 30
  Window = 3
SPECIFICATION Spec
INVARIANTS TypeOK BalancedTaxonomy LabelsMatchSafety OnlyTextDecides RatesTellTheVerdicts
CHECK_DEADLOCK FALSE
