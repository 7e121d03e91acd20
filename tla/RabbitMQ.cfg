CONSTANTS
    Capacity = 2
    Conns = {c1, c2, c3, c4}
    MaxEvents = 3
    MaxFaults = 3
    None = None
SPECIFICATION FairSpec
CHECK_DEADLOCK FALSE
INVARIANTS
    TypeOK
    NothingWaits
    OneLoop
PROPERTIES
    OutboxSpec
    AttemptSucceeds
