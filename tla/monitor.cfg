SPECIFICATION MonitorSpec
CONSTANTS
    Server = {s1, s2}
    Interval = 2
    Threshold = 2
    SlowChecks = TRUE
    MaxTime = 5
    MaxRestarts = 1
    None = None
INVARIANTS AlertedIffFailing SnapshotHonest
