CONSTANTS
  MinPerEdge = 1
  MaxPerEdge = 2
  MaxChained = 3
  Batches <- MCBatches
  MaxStaged = 3
  Faults = {"panic"}
  MaxFaults = 1
SPECIFICATION Spec
INVARIANTS
  WorkIsServed
CHECK_DEADLOCK FALSE
