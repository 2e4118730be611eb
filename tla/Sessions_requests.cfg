SPECIFICATION Spec
CONSTANTS
    Users = {u1, u2}
    Members = {u1}
    Devices = {d1}
    Tokens = {t1, t2, t3}
    Links = {l1}
    Procs = {p1, p2}
    None = None
    MaxCalls = 4
    MaxFlips = 2
SYMMETRY Interchangeable
INVARIANTS
    SpentIsRevoked
    EndedSessionsAreOver
    OldPasswordIsShutOut
    UsedLinkIsGone
CHECK_DEADLOCK FALSE
