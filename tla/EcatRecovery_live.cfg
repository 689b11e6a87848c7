SPECIFICATION Spec
CONSTANTS
    MaxFaults = 1
    MaxSlaves = 1
    Batch = 1
    HistoryDepth = 2
    MayFail = {"init", "config", "start", "check", "stop", "wait", "history", "sequence", "current"}
    IdsRestart = TRUE
    Patient = FALSE
INVARIANT TypeOK
INVARIANT AppKnowsRunning
PROPERTY StopServed
PROPERTY ClaimReleased
