SPECIFICATION LiveSpec
CONSTANTS
    b1 = b1
    b2 = b2
    r1 = r1
    r2 = r2
    None = None
    Manager = Manager
    Burials <- TwoBurials
    Name <- OneName
    Requests <- TwoRequests
    Channels <- TwoChannels
    ListMax = 2
    MaxFaults = 1
INVARIANTS
    AlertsTypeOK
    StoredBeforeTold
    LatestTellsStatus
PROPERTIES
    BurialsEnd
    FiringIsStored
\* Every burial ends, and every alert is resolved.
CHECK_DEADLOCK FALSE
