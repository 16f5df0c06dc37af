SPECIFICATION Spec
CONSTANTS
    u1 = u1
    u2 = u2
    known = known
    unknown = unknown
    User = {u1, u2}
    Admin = {u1}
    Name <- MCName
    Owner <- MCOwner
    TTL = 2
    MaxTime = 2
    Empty = Empty
    Bad = Bad
    None = None
PROPERTIES LimitSet
