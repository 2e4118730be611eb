SPECIFICATION Spec
CONSTANTS
    u1 = u1
    o1 = o1
    r1 = r1
    None = None
    Users = {u1}
    Orders = {o1}
    Renewals = {}
    Terms <- Package
    RenewalOf <- NoRenewals
    Events <- PackageEvents
    MaxCopies = 0
    Procs = {p1}
    Faults = {"drop"}
    MaxFaults = 1
INVARIANTS
    AcknowledgedIsProcessed
CHECK_DEADLOCK FALSE
