CONSTANTS
    n1 = n1
    n2 = n2
    NoNode = NoNode
    open = open
    midday = midday
    exit = exit
    late = late
    Node = {n1, n2}
    Slot <- MixedSlots
    Agenda <- MixedAgenda
    ExitOnly = {exit}
    Cap <- MCCap
    TotalCapital = 3
    MaxRetry = 1
    MaxCrashes = 1
    Environment <- OverrunOnly
SPECIFICATION Spec
PROPERTIES
    SlotsAreNotReopened
CHECK_DEADLOCK FALSE
