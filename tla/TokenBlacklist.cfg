CONSTANTS
    Logins = {l1, l2}
    Procs = {p1, p2}
    Ticks = 3
    Expiry = 2
    MaxTime = 9
    MaxOutages = 1
    None = None
SPECIFICATION Spec
SYMMETRY Symmetry
INVARIANTS TypeOK LogoutHolds
PROPERTY RefusedAfterLogout
