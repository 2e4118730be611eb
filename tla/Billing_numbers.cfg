SPECIFICATION FairSpec
CONSTANTS
    u1 = u1
    k1 = k1
    k2 = k2
    k3 = k3
    Users <- OneUser
    Keys <- ThreeKeys
    Calls <- MixedCalls
    Procs = {p1, p2}
    MaxAttempts = 2
    ColumnsAreText = FALSE
INVARIANTS
    TypeOK
    Coherent
    AccountsAreBooked
    StatementAddsUp
    ExhaustedByOthers
PROPERTIES
    ImplementsLedger
    ChangesAreRecorded
    EveryCallIsAnswered
