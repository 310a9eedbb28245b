SPECIFICATION Spec
CONSTANTS
    Ids = {i1}
    Vals = {1, 2}
    Callers = {k1}
    Capacity = 1
    MaxWrites = 1
    MaxOpens = 1
    MaxFaults = 0
CHECK_DEADLOCK FALSE
INVARIANTS
    RowsAreAResult
