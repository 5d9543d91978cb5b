SPECIFICATION Spec
CONSTANTS
    f1 = f1
    f2 = f2
    u1 = u1
    w1 = w1
    w2 = w2
    None = None
    Tasks <- FlowsAndTool
    Workers <- TwoWorkers
    Kind <- KindOfTasks
    MaxAttempts = 2
    BaseDelay = 1
    MaxDelay = 2
INVARIANTS
    TypeOK
    DeadForCause
PROPERTIES
    ImplementsJobQueue
