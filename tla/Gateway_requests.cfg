SPECIFICATION Spec
CONSTANTS
    a = a
    b = b
    Providers = {a, b}
    Weight <- TwoProviders
    Requests = {r1, r2}
    Streams = {a}
    Mishaps = {"billing", "redis", "crash"}
SYMMETRY AnyRequest
INVARIANTS
    FrozenWhileWorking
    BilledAsAnswered
    NothingStaysFrozen
    AuditReconciles
PROPERTIES
    ResolvedOnce
