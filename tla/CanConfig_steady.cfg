SPECIFICATION Spec
CONSTANTS
    Threads = {"start", "t1", "t2"}
    Start = "start"
    Steps = 2
    Tries = 2
    Repairs = 2
    BootUps = 2
    MayFail = {"send", "lose", "abort", "emcy"}
    Prompt = TRUE
    Steady = TRUE
    Repeats = FALSE
INVARIANT TypeOK
INVARIANT CompleteMeansAcked
INVARIANT NoLostSleeper
PROPERTY ConfigEnds
 
