CONSTANTS
    Procs = {p1, p2}
    Jobs = {j1}
    MaxEvents = 3
    MaxFaults = 1
    None = None
SPECIFICATION Spec
CHECK_DEADLOCK FALSE
SYMMETRY Symmetry
INVARIANTS
    TypeOK
    LockedOutUnlessRaced
    ConsumerCatchesUp
PROPERTY
    BanOutlastsLock
