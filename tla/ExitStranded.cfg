CONSTANTS
    Qty = 2
    Confirm = 2
    MaxRetries = 2
    MaxCycles = 2
    Outage = 2
    MaxFaults = 0
    MaxSells = 8
    Environment <- TieredOnly
SPECIFICATION InstanceSpec
PROPERTIES
    TargetsAreResolved
CHECK_DEADLOCK FALSE
