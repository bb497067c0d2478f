CONSTANTS
  h1 = h1
  h2 = h2
  m = m
  Clients = {h1, h2, m}
  Honest = {h1, h2}
  Values = {0, 1, 3}
  HonestValues = {0, 1}
  Weights = {0, 2}
  Methods = {"trimmed_mean", "coordinate_median", "weighted_mean"}
  Quorum = 2
  TrimNumerator = 1
  TrimDenominator = 3
  Unit = 100000
  Rounds = 5
SPECIFICATION Spec
SYMMETRY HonestSymmetry
INVARIANTS TypeOK SlowToReject QuickToReturn WithinHonest
PROPERTY ModelHasEvidence
VIEW Relevant
