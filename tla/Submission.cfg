SPECIFICATION Spec
CONSTANTS
    q1 = q1
    q2 = q2
    q3 = q3
    q4 = q4
    q5 = q5
    k1 = k1
    None = None
    Requests <- FiveRequests
    Keys <- OneKey
    Key <- SharedKey
    Known <- NotTheFifth
    Limit = 2
    MaxInFlight = 2
    MaxAttempts = 1
INVARIANTS
    QuotaOvershootBounded
    SequentialRetriesReplay
    AnswersExist
\* Every request ends.
CHECK_DEADLOCK FALSE
