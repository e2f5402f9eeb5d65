\* A key, a limit, a list, two flags, two arguments.
SPECIFICATION Spec
CONSTANTS
    Flag = {"m", "n"}
    Key = {"k"}
    Limit = {"l"}
    List = {"b"}
    Other = {"x"}
    Arg = {"1", "2"}
    Line <- MCLine
    MaxItems = 2
    MaxArgs = 2
INVARIANTS
    StringRebuilds
    AppliedSuffices
    LastWins
    KeyNamed
    PanicOnlyOnLimit
CHECK_DEADLOCK FALSE
