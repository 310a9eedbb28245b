SPECIFICATION Spec
CONSTANTS
    Users = {u1, u2}
    Clients = {c1, c2}
    MaxRate = 1
    MaxConns = 3
    MaxFrames = 3
SYMMETRY Interchangeable
CHECK_DEADLOCK FALSE
INVARIANTS
    TypeOK
    NoGhosts
    LeftStaysOut
    RoomsReleased
