SPECIFICATION Spec
CONSTANTS
    Entities = {e1}
    Attrs = {a}
    TypeAttr = TypeAttr
    Clients = {c1, c2}
    Kinds = {"mutate", "create", "patch", "delete"}
    MaxOps = 2
    MaxRequests = 3
    UseTtl = {FALSE}
    TxIds = {1, 2, 3, 4, 5, 6, 7, 8, 9, 10, 11, 12, 13, 14, 15}
CHECK_DEADLOCK FALSE
SYMMETRY Symmetry
INVARIANTS
    SingleValued
PROPERTIES
    ImplementsEntityStore
