SPECIFICATION Spec
CONSTANTS
    N = 2
    Values = {1, 3}
    Periods = {0, 2}
    TimevalMax = 9
    MaxCount = 4
    Second = 3
    MinTimeout = 1
    MaxSem = 2
    Lockers = {"sdo"}
    Strays = {}
    Instant = FALSE
INVARIANTS
    TypeOK
    RowsBelowLast
    WakesInTime
    AlarmWatched
PROPERTIES
    OwnRow
    AlarmServed
    AlarmSpec
