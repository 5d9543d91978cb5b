SPECIFICATION Spec
CONSTANTS
    t1 = t1
    t2 = t2
    w1 = w1
    w2 = w2
    r1 = r1
    r2 = r2
    None = None
    Tasks <- OneTask
    Workers <- TwoWorkers
    Reapers <- TwoReapers
    MaxAttempts = 2
    CrashAt <- NotCarrying
    FailAt <- NotCarrying
    MaxCrashes = 1
    MaxErrors = 1
    MaxSlow = 1
    MaxRequeues = 2
SYMMETRY Symmetry
INVARIANTS
    TypeOK
    Conserved
