SPECIFICATION LiveSpec
CONSTANTS
    Worker = {w1, w2}
    User = {u1}
    Admin = {}
    Key = {k1, k2}
    PoolSize = 2
    Limit = {}
    DefaultLimit = 2
    Faults = {"db", "ssh", "crash"}
    MaxFaults = 2
    None = None
INVARIANTS RevokedOffServer ActiveInConf
PROPERTIES RepeatedDisableFinishes
