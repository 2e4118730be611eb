SPECIFICATION SystemSpec
CONSTANTS
    u1 = u1
    u2 = u2
    k1 = k1
    k2 = k2
    k3 = k3
    Users <- TwoUsers
    Keys <- ThreeKeys
    Calls <- TwoUserCalls
    Procs = {p1, p2}
    MaxAttempts = 2
    ColumnsAreText = TRUE
    Admins = {a1}
    Adjustments <- UpAndDown
    MaxAdjustments = 1
INVARIANTS
    OneEffectPerKey
    VersionsAreRecorded
    AnsweredIsRecorded
