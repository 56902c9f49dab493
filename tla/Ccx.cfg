SPECIFICATION FairSpec
CONSTANTS
  main = main
  NoTask = NoTask
  N = 5
  FifoSize = 2
  MaxPolls = 3
  FlashReads = {"byte", "error"}
  Sht1xRuns = TRUE
INVARIANTS
  TypeOK
PROPERTIES
  ResetTrueIsReady
  PartNumberIsRead
  BurstIsWritten
  BytesReachTheRadio
  CallReturns
