\* A server with another one behind it, a connection that may be lost and one that
\* may replace it, a remote user; two hook goroutines, channels of one message.
SPECIFICATION Spec
CONSTANTS
    s1 = s1  s2 = s2  k1 = k1  k2 = k2
    g1 = g1  g2 = g2  u1 = u1
    SID = {s1, s2}
    NoSID = NoSID
    Me = Me
    Conn = {k1, k2}
    NoConn = NoConn
    NilConn = NilConn
    PeerIds <- Reconnect
    Line = {"PASS"}
    Refused = {"PASS"}
    Speaks <- SplitTalk
    Leaver = {k1}
    LocalUID = {}
    RemoteUID = {u1}
    NoUID = NoUID
    ServerOf <- OnSecond
    NickOf <- SomeNick
    Goroutine = {g1, g2}
    SendQ = 1
SYMMETRY Symmetry
INVARIANTS
    TypeOK
    
    ClosedIsSplit
PROPERTIES
    NoneCutOff
    NoUserLost
CHECK_DEADLOCK FALSE
