CONSTANTS
  Loggers = {p1, p2}
  Decisions = {d1, d2}
  MaxLines = 3
  MaxSequence = 3
SPECIFICATION Spec
SYMMETRY LoggerSymmetry
INVARIANTS TypeOK SequenceIdentifiesEntry NoSilentLoss NoFalseAlarm
PROPERTY OnlyUneditedResumed
CHECK_DEADLOCK FALSE
