CONSTANTS
    Qty = 2
    Confirm = 2
    MaxRetries = 2
    MaxCycles = 1
    Outage = 2
    MaxFaults = 0
    MaxSells = 8
    Environment <- SlicesOnly
SPECIFICATION InstanceSpec
INVARIANTS
    NeverShort
CHECK_DEADLOCK FALSE
