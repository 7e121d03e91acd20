CONSTANTS
    Users = {u1}
    Tokens = {t1, t2, t3}
    Procs = {p1, p2}
    Devices = {d1, d2}
    MaxSessions = 1
    MaxAborts = 1
    MaxLosses = 1
    None = None
SPECIFICATION ClientSpec
CHECK_DEADLOCK FALSE
SYMMETRY Symmetry
INVARIANTS
    ClientTypeOK
    SessionsAccounted
    SingleUseUnlessRaced
    ReuseHasCause
