SPECIFICATION Spec
CONSTANTS
    t1 = t1
    t2 = t2
    w1 = w1
    w2 = w2
    r1 = r1
    r2 = r2
    None = None
    Tasks <- OneTask
    Workers <- OneWorker
    Reapers <- OneReaper
    MaxAttempts = 2
    CrashAt <- Nowhere
    FailAt <- Nowhere
    MaxCrashes = 0
    MaxErrors = 0
    MaxSlow = 0
    MaxRequeues = 3
INVARIANT DeadAfterMaxAttempts
