CONSTANTS
    Units = 2
    Attempts = 2
    MaxCycles = 1
    MaxFaults = 1
    MaxOrders = 10
    Environment <- TameEnvironments
SPECIFICATION FairSpec
INVARIANTS
    TypeOK
    NeverOverclosed
    NeverNaked
    OpenLegsAreKept
    ClosedMeansFlat
PROPERTIES
    ExitIsSeenThrough
    ManualCloseIsNoticed
CHECK_DEADLOCK FALSE
