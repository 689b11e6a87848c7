SPECIFICATION Spec
CONSTANTS
    Full = 2
    Retries = 2
    Slots = 2
    MaxDups = 0
    DiskFails = FALSE
    Absent = FALSE
INVARIANT PulledIsPrefix
CHECK_DEADLOCK FALSE
