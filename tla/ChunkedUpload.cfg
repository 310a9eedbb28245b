SPECIFICATION FairSpec
CONSTANTS
    total_chunks = 2
    Puts = {p1, p2, p3}
    NoFile = NoFile
    MaxFaults = 1
CHECK_DEADLOCK FALSE
INVARIANTS
    StoredIsWhole
    ChunksKept
    CompletedIsStored
PROPERTIES
    LastChunkCompletes
