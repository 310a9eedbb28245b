SPECIFICATION Spec
CONSTANTS
    Entities = {e1}
    Attrs = {a}
    TypeAttr = TypeAttr
    Clients = {c1, c2}
    Kinds = {"mutate", "ws", "create", "patch", "delete", "rewrite"}
    MaxOps = 2
    MaxRequests = 3
    UseTtl = {FALSE, TRUE}
    TxIds = {1}
SYMMETRY Symmetry
CHECK_DEADLOCK FALSE
INVARIANTS
    RetractedLater
    AnnouncedIsCommitted
PROPERTIES
    HistoryKept
    PastIsStable
