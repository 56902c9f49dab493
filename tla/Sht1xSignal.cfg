SPECIFICATION Spec
CONSTANTS
  Values = {0, 1, 2, 3, 4, 5, 6, 7}
INVARIANTS
  TypeOK
  CommandHeard
  InterfaceReset
  PayloadHeard
  LastLevels
PROPERTIES
  Setup
