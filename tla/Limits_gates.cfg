SPECIFICATION FairSpec
CONSTANTS
    Subjects = {s1}
    Addresses = {a1}
    Procs = {p1, p2}
    None = None
    Kinds = {"device", "key"}
    Unlimited = {"ip", "user"}
    MaxCount = 1
    MaxFaults = 1
INVARIANTS
    WithinLimits
    StuckHadFault
PROPERTIES
    LimitedRecovers
CHECK_DEADLOCK FALSE
