SPECIFICATION Spec
CONSTANTS
    Keys = {k1, k2, k3}
    Procs = {p1, p2, p3}
    MaxKeys = 1
    None = None
    MaxUsed = 1
    MaxCalls = 6
SYMMETRY Interchangeable
INVARIANTS
    OvershootIsConcurrent
    UsageIsExact
PROPERTIES
    DeletedStaysDeleted
CHECK_DEADLOCK FALSE
