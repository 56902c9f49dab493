SPECIFICATION FairSpec
CONSTANTS
  t1 = t1
  t2 = t2
  Tasks = {t1, t2}
  NoTask = NoTask
  Ops <- RaceOps
  StatusArgs <- MaskedArg
  Hearing = {TRUE}
  DmaMayFail = TRUE
INVARIANTS
  MutualExclusion
  ErrorIsHonest
PROPERTIES
  CallCompletes
