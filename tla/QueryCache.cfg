SPECIFICATION Spec
CONSTANTS
    Types = {t1}
    Queries = {q1, q2}
    Readers = {c1, c2}
    Writers = {w1, w2}
    MaxEntries = 1
    MaxWrites = 2
SYMMETRY Symmetry
INVARIANTS
    FreshEntriesInvalidated
