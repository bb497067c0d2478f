CONSTANTS
  h1 = h1
  h2 = h2
  m = m
  Clients = {h1, h2, m}
  Honest = {h1, h2}
  Values = {0, 1, 2, 3}
  HonestValues = {1, 2}
  Weights = {1}
  Methods = {"trimmed_mean"}
  Quorum = 3
  TrimNumerator = 1
  TrimDenominator = 5
  Unit = 100000
  Rounds = 5
SPECIFICATION Spec
INVARIANT TrimmedMeanTrims
