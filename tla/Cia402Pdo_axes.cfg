SPECIFICATION Spec
CONSTANTS
    N = 2
    MaxRuns = 1
    MaxFaults = 1
    MaxSlip = 1
    MaxAim = 3
INVARIANTS
    TypeOK
    NoJump
PROPERTIES
    FaultStopsAll
    RunEnables
