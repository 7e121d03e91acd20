CONSTANTS
    RoleNames = {user, admin}
    Defined = {admin}
    Initial = {user}
    Procs = {p1, p2}
    Rows = {s1, s2}
    MaxAborts = 1
    MaxEvents = 2
    None = None
SPECIFICATION Spec
CHECK_DEADLOCK FALSE
SYMMETRY Symmetry
INVARIANTS
    TypeOK
    SettledChangesStay
    FreshClaims
    ConsumerAgrees
