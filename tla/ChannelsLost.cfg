\* One channel in lower case.
SPECIFICATION Spec
CONSTANTS
    p1 = p1  p2 = p2  p3 = p3
    g1 = g1  g2 = g2  g3 = g3
    u1 = u1  u2 = u2
    Name <- OneName
    User = {u1, u2}
    Ptr = {p1, p2, p3}
    Goroutine = {g1, g2}
    NoPtr = NoPtr
    NoOne = NoOne
INVARIANT
    MembersReachable
CHECK_DEADLOCK FALSE
