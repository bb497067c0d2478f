SPECIFICATION Spec
CONSTANTS
  Tables <- MCTables
  Seeds <- MCSeeds
  Configs <- MCConfigs
  Clients = {1, 2}
  MinSamples = 1
  MaxPreparations = 2
  MaxPartitions = 2
  Datasets <- MCConfigs
  Trainers = {"central", "federated"}
  Scores = {10, 20}
  Epochs = 2
  Patience = 1
  Requirements <- MCRequirements
  MaxRuns = 2
  MaxCertifications = 2
  BatchSize = 2
  Alarming = {1, 3}
  Studies <- MCStudies
  SampleSizes = {0, 2}
INVARIANTS
  TypeOK
  HeldoutUnseen
  ServedIsVouched
  RecordsOnceInOrder
CHECK_DEADLOCK FALSE
