SPECIFICATION FairSpec
CONSTANTS
    Ids = {i1}
    Vals = {1, 2}
    Callers = {k1, k2}
    Capacity = 1
    MaxWrites = 3
    MaxOpens = 1
    MaxFaults = 2
CHECK_DEADLOCK FALSE
INVARIANTS
    TypeOK
    SnapshotReachesClient
    SubscriptionsAccountedFor
PROPERTIES
    ShowsCurrentRows
