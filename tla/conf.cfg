SPECIFICATION Spec
CONSTANTS
    Key = {k1, k2, k3}
    Hand = {h1}
    Script = {p1, p2}
    Faults = {"cut", "awg", "stop"}
    MaxFaults = 2
    Interface = Interface
    None = None
INVARIANTS AnswersHold
PROPERTIES IsPeerTable
CHECK_DEADLOCK FALSE
