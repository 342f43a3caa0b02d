CONSTANTS
    p1 = p1
    p2 = p2
    p3 = p3
    c1 = c1
    c2 = c2
    None = None
    Peer = {p1, p2}
    Coordinators <- OneCoordinator
    TickMod = 4
    MaxSigned = 3
    MaxNow = 3
    MaxStarts = 2
    MaxDeaths = 0
SPECIFICATION Spec
PROPERTY
    ListsNeverGoBack
CHECK_DEADLOCK FALSE
