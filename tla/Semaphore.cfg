SPECIFICATION FairSpec
CONSTANTS
  Tasks = {a, b, c}
  NoTask = NoTask
  Masks = TRUE
INVARIANTS
  TypeOK
  NoLostWakeUp
PROPERTIES
  Implements
