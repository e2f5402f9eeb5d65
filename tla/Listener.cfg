\* Two ports, three sockets, one of them for a port that is closed and added again.
SPECIFICATION Spec
CONSTANTS
    p1 = p1  p2 = p2  l1 = l1  l2 = l2  l3 = l3
    Port = {p1, p2}
    Sock = {l1, l2, l3}
    NoSock = NoSock
    MaxWaiting = 2
SYMMETRY Symmetry
INVARIANTS
    OpenIsListed
    CloseComplete
\* The process may end in a race for the map.
CHECK_DEADLOCK FALSE
