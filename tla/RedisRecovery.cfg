SPECIFICATION LiveSpec
CONSTANTS
    t1 = t1
    t2 = t2
    w1 = w1
    w2 = w2
    r1 = r1
    r2 = r2
    None = None
    Tasks <- TwoTasks
    Workers <- TwoWorkers
    Reapers <- OneReaper
    MaxAttempts = 1
    CrashAt <- Recoverable
    FailAt <- Nowhere
    MaxCrashes = 2
    MaxErrors = 0
    MaxSlow = 0
    MaxRequeues = 0
INVARIANTS
    Exclusive
    Watched
PROPERTIES
    Settles
    Drains
