\* Two clients, of which one may go away at any time, two hook goroutines,
\* channels of one message.
SPECIFICATION Spec
CONSTANTS
    c1 = c1  c2 = c2
    g1 = g1  g2 = g2
    p1 = p1  p2 = p2  p3 = p3  p4 = p4
    name = name
    Client = {c1, c2}
    Goroutine = {g1, g2}
    Nick <- MCNick
    UserName = {name}
    Ptr = {p1, p2, p3, p4}
    NoUser = NoUser
    NoID = NoID
    NoPtr = NoPtr
    NoArg = NoArg
    Leaver = {c1}
    Script <- TalkScript
    SendQ = 1
SYMMETRY Symmetry
INVARIANTS
    TypeOK
    ConnectedHasRecord
    EachLineOnce
    HangsOnlyOnLoss
    SignedOnWhenComplete
CHECK_DEADLOCK FALSE
