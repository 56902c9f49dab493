SPECIFICATION Spec
CONSTANTS
  Readings = {0, 6553, 16383}
  Registers = {0, 1, 5, 71}
  MaxFlips = 3
INVARIANTS
  TableIsPolynomial
  AcceptedIffIntact
  DataArrives
CHECK_DEADLOCK FALSE
