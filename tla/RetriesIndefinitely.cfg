CONSTANTS
    Capacity = 2
    Conns = {c1, c2, c3}
    MaxEvents = 0
    MaxFaults = 2
    None = None
SPECIFICATION FairSpec
CHECK_DEADLOCK FALSE
PROPERTY RetriesIndefinitely
