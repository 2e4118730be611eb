SPECIFICATION Spec
CONSTANTS
    Jobs = {j1, j2, j3}
    None = None
    MaxPolls = 2
    MaxText = 1
    MaxRequests = 4
    MaxChanges = 2
    MaxPages = 2
    Tabs = {t1, t2}
    Accounts = {a, b}
    Admins = {a}
    Nobody = Nobody
    MaxLogins = 2
    Entered <- Inputs
INVARIANTS
    OneStream
    PollingShown
    ListIsCurrent
    OneAccount
    
PROPERTIES
    PollingEnds
CHECK_DEADLOCK FALSE
