SPECIFICATION Spec
CONSTANTS
    User = {u1, u2}
    Name = {n1, n2}
    Server = {s1, s2}
    Key = {k1, k2}
    IP = {i1, i2}
    Limit = {1, 2}
    Message = {m1, m2}
    MaxCalls = 6
    NotFound = NotFound
SYMMETRY Symmetry
INVARIANTS SameStores
CHECK_DEADLOCK FALSE
