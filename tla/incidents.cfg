SPECIFICATION Spec
CONSTANTS
    Server = {s1}
    Admin = {a1, a2}
    Interval = 1
    Threshold = 1
    SlowChecks = FALSE
    Faults = {"get", "edit", "send", "save", "restart"}
    MaxFaults = 2
    MaxTime = 5
    MaxRestarts = 1
    MaxPosts = 3
    None = None
    MaxOutages = 2
SYMMETRY Symmetry
CHECK_DEADLOCK FALSE
INVARIANTS TypeOK SameIncidents AlertShown RecoveryShownWhileUp OneCardPerOutage StoredIsCard AlertInTime
PROPERTIES RedIsNew
