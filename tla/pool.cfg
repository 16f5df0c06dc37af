SPECIFICATION Spec
CONSTANTS
    Server = {s1, s2, s3}
    Enabled = {s1, s2}
    Bot = bot
    Monitor = monitor
    MaxFaults = 2
    MaxConns = 6
    None = None
INVARIANTS OneLeakPerFault OneFaultOneFailure
PROPERTIES Returns
