SPECIFICATION Spec
CONSTANTS
  t1 = t1
  t2 = t2
  Tasks = {t1, t2}
  NoTask = NoTask
  Ops <- AllOps
  StatusArgs <- OneArg
  Hearing = {TRUE, FALSE}
  DmaMayFail = FALSE
SYMMETRY TaskSymmetry
INVARIANTS
  SettingsInSync
  TypeOK
  TransactionArmed
  QuietBetweenTransactions
  LockStep
  ErrorIsHonest
PROPERTIES
  NoSpuriousFailure
  Implements
  OkIsTrue
  WaitEndsForAReason
