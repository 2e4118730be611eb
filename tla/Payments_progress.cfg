SPECIFICATION FairSpec
CONSTANTS
    u1 = u1
    o1 = o1
    r1 = r1
    None = None
    Users = {u1}
    Orders = {o1}
    Renewals = {}
    Terms <- Package
    RenewalOf <- NoRenewals
    Events <- PackageEvents
    MaxCopies = 1
    Procs = {p1, p2}
    Faults = {"verify", "insert", "error", "reply", "drop"}
    MaxFaults = 2
PROPERTIES
    EveryEventIsAcknowledged
    PaidIsCredited
CHECK_DEADLOCK FALSE
