SPECIFICATION Spec
CONSTANTS
    MaxFaults = 2
    MaxSlaves = 1
    Batch = 1
    HistoryDepth = 2
    MayFail = {"init", "config", "start", "check", "stop", "sequence", "current"}
    IdsRestart = FALSE
    Patient = TRUE
PROPERTY UnhandledFaultStops
PROPERTY RecoveryServed
