SPECIFICATION FairSpec
CONSTANTS
    Tabs = {t1, t2}
    Transports = {{t2}, {t1, t2}}
    Kinds = {"set", "merge", "delete", "refused", "unsupported"}
    Records = {r1}
    MaxAttempts = 2
    MaxEntries = 2
    MaxFaults = 2
CHECK_DEADLOCK FALSE
INVARIANTS
    TypeOK
    NothingLost
    FirstInOrder
PROPERTIES
    QueueDrains
