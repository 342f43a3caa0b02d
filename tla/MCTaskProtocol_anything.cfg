CONSTANTS
    A = A
    B = B
    C = C
    Me = Me
    Worker = {A}
    PeerLists <- MaybeA
    MaxLists = 1
    ParamCounts = {2}
    InitHandled <- AllNew
    MaxNodes = 3
    MaxDowns = 1
    Restarts = TRUE
    StartRace = TRUE
SPECIFICATION Spec
INVARIANTS
    TypeOK
    DeathWillBeSeen
CHECK_DEADLOCK FALSE
