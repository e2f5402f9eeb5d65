\* One client from its first line to its last, fair scheduling.
SPECIFICATION LiveSpec
CONSTANTS
    c1 = c1  c2 = c2
    g1 = g1  g2 = g2
    p1 = p1  p2 = p2  p3 = p3  p4 = p4
    name = name
    Client = {c1}
    Goroutine = {g1, g2}
    Nick <- MCNick
    UserName = {name}
    Ptr = {p1, p2, p3}
    NoUser = NoUser
    NoID = NoID
    NoPtr = NoPtr
    NoArg = NoArg
    Leaver = {c1}
    Script <- OneScript
    SendQ = 1
PROPERTIES
    HooksEnd
    QuitCloses
CHECK_DEADLOCK FALSE
