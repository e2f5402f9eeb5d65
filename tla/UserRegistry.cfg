\* Two local users and a remote one, two hook goroutines that may hold the
\* same object, three addresses.
SPECIFICATION Spec
CONSTANTS
    LocalID = {u1, u2}
    RemoteID = {r1}
    Nick <- MCNick
    UserName = {name}
    p1 = p1  p2 = p2  p3 = p3
    g1 = g1  g2 = g2
    Ptr = {p1, p2, p3}
    Goroutine = {g1, g2}
    NoUser = NoUser
    NoID = NoID
    NoPtr = NoPtr
SYMMETRY Symmetry
INVARIANTS
    TypeOK
    NickOwned
    LeakOnlyFolded
PROPERTY
    NickHandover
CHECK_DEADLOCK FALSE
