SPECIFICATION LiveSpecAll
CONSTANTS
    q1 = q1
    q2 = q2
    w1 = w1
    w2 = w2
    p1 = p1
    p2 = p2
    None = None
    Requests <- OneRequest
    Keys <- NoKey
    Key <- NoKeys
    Known <- OneRequest
    Limit = 2
    MaxInFlight = 2
    MaxAttempts = 2
    Workers <- TwoWorkers
    Pollers <- OnePoller
    WithTool <- OneRequest
    MaxPolls = 2
INVARIANTS
    ExecutionsTypeOK
    EndedHasOutput
    StatusTellsOutcome
    RecordTells
PROPERTIES
    ExecutionsSettle
\* Every request is answered and every job done.
CHECK_DEADLOCK FALSE
