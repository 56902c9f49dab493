SPECIFICATION Spec
CONSTANTS
  t1 = t1
  Tasks = {t1}
  NoTask = NoTask
  Ops <- ReadOps
  StatusArgs <- OneArg
  Hearing = {TRUE}
  DmaMayFail = FALSE
PROPERTY
  TimeoutReported
