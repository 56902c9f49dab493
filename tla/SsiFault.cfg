SPECIFICATION FairSpec
CONSTANTS
  Tasks = {a, b}
  NoTask = NoTask
  Counts = {1, 3}
  FifoSize = 1
  DmaMayFail = TRUE
  Sht1xRuns = TRUE
INVARIANTS
  TypeOK
PROPERTIES
  TrueIsComplete
  FalseIsIncomplete
  TransceiveReturns
