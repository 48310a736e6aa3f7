CONSTANTS
    n1 = n1
    n2 = n2
    monitor1 = monitor1
    monitor2 = monitor2
    flatten1 = flatten1
    cancel2 = cancel2
    reset2 = reset2
    NoProc = NoProc
    Node <- MCNode
    Proc <- AllProcs
    NodeOf <- MCNodeOf
    Role <- MCRole
    Environment <- OrderlyOnly
SPECIFICATION Spec
PROPERTIES
    NoCallerClobbers
CHECK_DEADLOCK FALSE
