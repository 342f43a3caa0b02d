CONSTANTS
    A = A
    B = B
    C = C
    Me = Me
    Worker = {A, B, C}
    PeerLists <- Three
    MaxLists = 0
    ParamCounts = {2}
    InitHandled <- AllBusy
    MaxNodes = 5
    MaxDowns = 2
    Restarts = FALSE
    StartRace = FALSE
SPECIFICATION Spec
INVARIANT HandedOver
CHECK_DEADLOCK FALSE
