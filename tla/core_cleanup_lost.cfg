SPECIFICATION Spec
CONSTANTS
    ExternalKinds = {"ExternalCursor"}
    CursorKind = "ExternalCursor"
    SamplesCursorColor = FALSE
    DelaysCursor = FALSE
    MaxChunks = 0
    MaxDemands = 1
    MaxAnimations = 0
    FaultKinds = {"observe"}
    MaxFaults = 1
    MaxCleanups = 1
    PlanDecisions <- MotionDecisions
CHECK_DEADLOCK FALSE
INVARIANTS CleanupIsTimed
