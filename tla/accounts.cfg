SPECIFICATION Spec
CONSTANTS
    User = {u1, u2}
    Name = {n1, n2}
    NServers = 2
    Faults = {"db", "crash"}
    MaxFaults = 2
    MaxConfigs = 1
    None = None
SYMMETRY Symmetry
INVARIANTS OneLostPerFault NameOfLastWriter AddedMayCreate
