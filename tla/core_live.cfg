SPECIFICATION Spec
CONSTANTS
    ExternalKinds = {"ExternalCursor", "BufferEntered"}
    CursorKind = "ExternalCursor"
    SamplesCursorColor = TRUE
    DelaysCursor = TRUE
    MaxChunks = 1
    MaxDemands = 2
    MaxAnimations = 1
    FaultKinds = {"observe", "refresh"}
    MaxFaults = 3
    MaxCleanups = 0
    PlanDecisions <- MotionDecisions
CHECK_DEADLOCK FALSE
PROPERTIES DemandsSettle
