\* Five servers that link, split and come back in any order.
SPECIFICATION Spec
CONSTANTS
    s1 = s1  s2 = s2  s3 = s3  s4 = s4  s5 = s5
    SID <- FiveServers
    NoSID = NoSID
SYMMETRY Symmetry
INVARIANTS
    TypeOK
    TablesAgree
    DownstreamForest
    WalksEnd
    HungByStaleOnly
    RoutesFollowTree
PROPERTY
    SplitIsSubtree
CHECK_DEADLOCK FALSE
