CONSTANTS
  MinPerEdge = 1
  MaxPerEdge = 2
  MaxChained = 3
  Batches <- MCBatches
  MaxStaged = 5
  Faults = {"fail", "lane", "panic", "plugin", "reset"}
  MaxFaults = 2
SPECIFICATION Spec
INVARIANTS
  CountsUnits
  FollowUpsDeferred
  OnlyShellWorkCoalesces
CHECK_DEADLOCK FALSE
