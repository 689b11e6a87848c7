SPECIFICATION Spec
CONSTANTS
    N = 2
    Values = {0, 1, 2}
    Periods = {0}
    TimevalMax = 7
    MaxCount = 3
    Second = 8
    MinTimeout = 1
    MaxSem = 2
    Lockers = {"sdo"}
    Strays = {}
    Instant = TRUE
INVARIANTS
    NeverEarly
