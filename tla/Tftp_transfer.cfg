SPECIFICATION Spec
CONSTANTS
    Full = 2
    Retries = 2
    Slots = 2
    MaxDups = 1
    DiskFails = TRUE
    Absent = TRUE
INVARIANT TypeOK
 
INVARIANT PushedExact
PROPERTY ClientEnds
PROPERTY SessionsEnd
 
CHECK_DEADLOCK FALSE
