SPECIFICATION Spec
CONSTANTS
  HeapUnits = 10
  Requests = {0, 1, 3}
  Words = {1, 5}
PROPERTIES
  ReallocKeepsData
