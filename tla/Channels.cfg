\* Two users, a channel with two keys and one with one, three goroutines, three
\* addresses.
SPECIFICATION Spec
CONSTANTS
    p1 = p1  p2 = p2  p3 = p3
    g1 = g1  g2 = g2  g3 = g3
    u1 = u1  u2 = u2
    Name <- TwoChannels
    User = {u1, u2}
    Ptr = {p1, p2, p3}
    Goroutine = {g1, g2, g3}
    NoPtr = NoPtr
    NoOne = NoOne
SYMMETRY Symmetry
INVARIANTS
    TypeOK
    MembersFindable
    EmptyOnlyFolded
PROPERTIES
    SweepComplete
    ImplementsTable
CHECK_DEADLOCK FALSE
