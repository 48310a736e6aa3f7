CONSTANTS
    n1 = n1
    n2 = n2
    NoNode = NoNode
    open = open
    midday = midday
    exit = exit
    late = late
    Node = {n1, n2}
    Slot <- HalfSlots
    Agenda <- HalfAgenda
    ExitOnly = {}
    Cap <- MCCap
    TotalCapital = 4
    MaxRetry = 1
    MaxCrashes = 1
    Environment <- PlainOnly
SPECIFICATION Spec
INVARIANTS
    CapitalWithinTotal
CHECK_DEADLOCK FALSE
