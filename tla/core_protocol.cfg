SPECIFICATION Spec
CONSTANTS
    ExternalKinds = {"ExternalCursor", "BufferEntered"}
    CursorKind = "ExternalCursor"
    SamplesCursorColor = TRUE
    DelaysCursor = TRUE
    MaxChunks = 1
    MaxDemands = 2
    MaxAnimations = 1
    FaultKinds = {"observe", "refresh", "plugin", "timer", "apply", "plan"}
    MaxFaults = 3
    MaxCleanups = 0
    PlanDecisions <- SettleDecisions
CHECK_DEADLOCK FALSE
INVARIANTS TypeOK NoLostWork PhasesAreTimed NewestDemandKept NoStaleObservation PlansOnlyCompleteObservation
