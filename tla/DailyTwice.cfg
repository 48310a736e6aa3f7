SPECIFICATION Spec
CONSTANTS
    Node = {"w1", "w2"}
    Home = "w1"
    Environment <- Crashes
    MaxScan = 3
    MaxThread = 2
    SlotLimit = 2
    MaxEvent = 4
    Sender = {"notifier", "monitor", "looper", "web"}
    Batch = 1
    Window = 2
    MaxAttempts = 2
    MaxDelivered = 5
    Symbol = {"s1", "s2"}
    AiBudget = 1
    AlertBudget = 1
    Run = {"r1", "r2"}
    ReviewAttempts = 2
    Instance = {"i1", "i2"}
    OrderCap = 1
    MaxDay = 1
    Wanted = 2
    RunAttempts = 2
    MaxPicks = 2
    MaxStarted = 2
    Client = {"c1", "c2", "c3"}
    PoolSize = 2
    Caller = {"t1", "t2"}
INVARIANT BoughtOnceADay
CHECK_DEADLOCK FALSE
