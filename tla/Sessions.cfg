CONSTANTS
    Users = {u1, u2}
    Tokens = {t1, t2, t3}
    Procs = {p1, p2}
    MaxSessions = 1
    MaxAborts = 0
    None = None
SPECIFICATION Spec
SYMMETRY Symmetry
INVARIANTS
    TypeOK
    SessionCap
    RotationChain
PROPERTY DeadStaysDead
