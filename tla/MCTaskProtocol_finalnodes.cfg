CONSTANTS
    A = A
    B = B
    C = C
    Me = Me
    Worker = {A, B}
    PeerLists <- MeLast
    MaxLists = 0
    ParamCounts = {3}
    InitHandled <- AllNew
    MaxNodes = 9
    MaxDowns = 0
    Restarts = FALSE
    StartRace = FALSE
SPECIFICATION Spec
INVARIANT FinalNodesAreWhereItRuns
CHECK_DEADLOCK FALSE
