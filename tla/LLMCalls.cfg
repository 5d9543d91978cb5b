SPECIFICATION Spec
CONSTANTS
    c1 = c1
    c2 = c2
    c3 = c3
    None = None
    Calls <- ThreeCalls
    Keys <- TwoKeys
    Key <- SomeKeys
    Preferred <- SomePreferred
    Setups <- SomeSetups
    MaxCrashes = 1
INVARIANTS
    LLMTypeOK
    RaisesOnlyAfterAll
    RouteIsFirstTried
    
    UsageComplete
\* Every call ends.
CHECK_DEADLOCK FALSE
