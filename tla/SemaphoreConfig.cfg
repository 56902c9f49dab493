SPECIFICATION Spec
CONSTANTS
  Tasks = {a, b}
  NoTask = NoTask
  Masks = FALSE
INVARIANTS
  NoLostWakeUp
