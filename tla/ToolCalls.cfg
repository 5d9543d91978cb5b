SPECIFICATION LiveSpec
CONSTANTS
    c1 = c1
    c2 = c2
    c3 = c3
    s1 = s1
    None = None
    Calls <- ThreeCalls
    Setters <- OneSetter
    Modes <- SomeModes
    Set <- SetBoth
    Limit = 1
    CpuLimit = 2
    MaxInFlight = 2
    Faulty <- OneOfEach
INVARIANTS
    UsageKept
    QuotaBoundsRuns
    AnswersAccounted
    NothingLeftRunning
PROPERTIES
    CallsAnswered
\* Every call and every request ends.
CHECK_DEADLOCK FALSE
