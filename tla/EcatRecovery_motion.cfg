SPECIFICATION Spec
CONSTANTS
    MaxFaults = 1
    MaxSlaves = 2
    Batch = 1
    HistoryDepth = 2
    MayFail = {"init", "config", "start", "check", "wait", "history", "sequence", "current"}
    IdsRestart = TRUE
    Patient = TRUE
INVARIANT RecoverOnlyWhenStopped
INVARIANT NoUnsupervisedMotion
PROPERTY SafeResume
PROPERTY SupervisorSpec
