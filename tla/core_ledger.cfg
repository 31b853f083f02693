SPECIFICATION Spec
CONSTANTS
    ExternalKinds = {"ExternalCursor"}
    CursorKind = "ExternalCursor"
    SamplesCursorColor = TRUE
    DelaysCursor = FALSE
    MaxChunks = 0
    MaxDemands = 2
    MaxAnimations = 2
    FaultKinds = {"timer", "apply", "retained", "cleanup", "recovery", "plan"}
    MaxFaults = 2
    MaxCleanups = 2
    PlanDecisions <- StillDecisions
CHECK_DEADLOCK FALSE
INVARIANTS LedgerTruth ShellAppliesCurrentProposal NoLostWork CleanupIsTimed
