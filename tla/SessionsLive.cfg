CONSTANTS
    Users = {u1}
    Tokens = {t1, t2}
    Procs = {p1, p2}
    MaxSessions = 1
    MaxAborts = 1
    None = None
SPECIFICATION FairSpec
PROPERTIES HandlersReturn RowsPurged
