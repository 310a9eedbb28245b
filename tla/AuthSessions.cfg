SPECIFICATION Spec
CONSTANTS
    Devices = {d1, d2}
    Links = {l1}
    Clients = {c1, c2}
    MaxActive = 1
    MaxLogins = 3
    MaxRefreshes = 1
    NoDevice = NoDevice
SYMMETRY Symmetry
CHECK_DEADLOCK FALSE
INVARIANTS
    OneSessionPerDevice
    ConflictNeedsRace
    LinksAreSingleUse
PROPERTIES
    CapRestored
    RevokedForGood
