SPECIFICATION Spec
CONSTANTS
    ExternalKinds = {"ExternalCursor"}
    CursorKind = "ExternalCursor"
    SamplesCursorColor = FALSE
    DelaysCursor = FALSE
    MaxChunks = 0
    MaxDemands = 2
    MaxAnimations = 2
    FaultKinds = {}
    MaxFaults = 0
    MaxCleanups = 1
    PlanDecisions <- SettleDecisions
CHECK_DEADLOCK FALSE
INVARIANTS LedgerTruth
