SPECIFICATION Spec
CONSTANTS
    u1 = u1
    k1 = k1
    k2 = k2
    k3 = k3
    Users <- OneUser
    Keys <- ThreeKeys
    Calls <- RepeatedCalls
    Procs = {p1, p2}
    MaxAttempts = 3
    ColumnsAreText = TRUE
INVARIANTS
    StatementAddsUp
