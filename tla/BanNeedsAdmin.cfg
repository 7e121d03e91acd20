CONSTANTS
    Users = {u1}
    Procs = {p1, p2}
    Jobs = {j1}
    MaxAttempts = 2
    MaxAborts = 0
    None = None
SPECIFICATION Spec
PROPERTY BanNeedsAdmin
