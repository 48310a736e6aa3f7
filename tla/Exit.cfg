CONSTANTS
    Qty = 2
    Confirm = 2
    MaxRetries = 2
    MaxCycles = 1
    Outage = 2
    MaxFaults = 1
    MaxSells = 8
    Environment <- AllEnvironments
SPECIFICATION InstanceSpec
INVARIANTS
    InstanceTypeOK
    NeverOverclosed
    OpenContractsAreCovered
    ShownAsItIs
PROPERTIES
    SingleTargetIsResolved
    FillsGetTheirStop
CHECK_DEADLOCK FALSE
