CONSTANTS
    Users = {u1}
    Procs = {p1, p2, p3}
    Jobs = {j1}
    MaxAttempts = 3
    MaxAborts = 1
    None = None
SPECIFICATION FairSpec
INVARIANTS
    TypeOK
    BruteForceBound
    ActiveIsUnlocked
PROPERTY ExpiredLockLifted
