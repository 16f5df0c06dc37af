SPECIFICATION Spec
CONSTANTS
    Worker = {w1}
    User = {u1, u2}
    Admin = {u1, u2}
    Key = {k1, k2, k3}
    PoolSize = 2
    Limit = {1}
    DefaultLimit = 2
    Faults = {"db", "ssh", "awg", "crash", "reboot"}
    MaxFaults = 2
    None = None
SYMMETRY Symmetry
INVARIANTS TypeOK RevokedStaysOut OneDownPerFault OneOrphanPerFault OneSharedPerFault OneMissedPerFault
PROPERTIES IsDirectory RevokedForOwner
