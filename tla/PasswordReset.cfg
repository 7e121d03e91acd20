CONSTANTS
    Users = {u1}
    Tokens = {t1, t2}
    Procs = {p1, p2, p3}
    MaxAborts = 1
    None = None
SPECIFICATION Spec
SYMMETRY Symmetry
CHECK_DEADLOCK FALSE
INVARIANTS
    TypeOK
    ResetsAreMarked
PROPERTY SpentStaysSpent
