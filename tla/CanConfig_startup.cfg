SPECIFICATION Spec
CONSTANTS
    Threads = {"start", "t1", "t2"}
    Start = "start"
    Steps = 2
    Tries = 2
    Repairs = 2
    BootUps = 1
    MayFail = {}
    Prompt = TRUE
    Steady = TRUE
    Repeats = FALSE
PROPERTY DriveConfigured
CHECK_DEADLOCK FALSE
