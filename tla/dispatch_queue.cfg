CONSTANTS
  MinPerEdge = 1
  MaxPerEdge = 2
  MaxChained = 3
  Batches <- MCBatches
  MaxStaged = 6
  Faults = {"fail", "lane", "plugin", "reset"}
  MaxFaults = 2
SPECIFICATION FairSpec
INVARIANTS
  WorkIsServed
  EdgeIsBounded
PROPERTIES
  ImplementsDeferredWork
CHECK_DEADLOCK FALSE
