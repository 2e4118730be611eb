SPECIFICATION DispatchSpec
CONSTANTS
    a = a
    b = b
    c = c
    Providers = {a, b, c}
    Weight <- ThreeProviders
INVARIANTS
    NoDrift
    NobodyStarves
