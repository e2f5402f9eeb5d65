\* Two servers register while a local user signs on and leaves, and one of them sends
\* PINGs.
SPECIFICATION Spec
CONSTANTS
    s1 = s1  s2 = s2  k1 = k1  k2 = k2
    g1 = g1  g2 = g2  u1 = u1
    SID = {s1, s2}
    NoSID = NoSID
    Me = Me
    Conn = {k1, k2}
    NoConn = NoConn
    NilConn = NilConn
    PeerIds <- TwoLinks
    Line = {"PASS", "SERVER"}
    Refused = {}
    Speaks <- PingTalk
    Leaver = {}
    LocalUID = {u1}
    RemoteUID = {}
    NoUID = NoUID
    ServerOf <- NoUsers
    NickOf <- NoUsers
    Goroutine = {g1, g2}
    SendQ = 1
SYMMETRY Symmetry
INVARIANTS
    RegisteredWhenComplete
    ViewsAgree
    LoopEndsOnLoss
CHECK_DEADLOCK FALSE
