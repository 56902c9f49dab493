SPECIFICATION Spec
CONSTANTS
  t1 = t1
  t2 = t2
  Tasks = {t1, t2}
  NoTask = NoTask
  Ops <- RaceOps
  StatusArgs <- OneArg
  Hearing = {TRUE}
  DmaMayFail = FALSE
PROPERTY
  ConversionMatchesResolution
