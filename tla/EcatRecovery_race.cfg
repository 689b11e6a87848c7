SPECIFICATION Spec
CONSTANTS
    MaxFaults = 0
    MaxSlaves = 1
    Batch = 1
    HistoryDepth = 2
    MayFail = {}
    IdsRestart = FALSE
    Patient = FALSE
INVARIANT RecoverOnlyWhenStopped
