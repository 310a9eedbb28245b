SPECIFICATION FairSpec
CONSTANTS
    Replicas = {r1, r2}
    Slots = {1, 2}
    NoConn = NoConn
    MaxFaults = 3
INVARIANTS
    LeaderHoldsLock
    SplitNeedsLostSession
PROPERTIES
    BodyKeepsRunning
