CONSTANTS
    p1 = p1
    p2 = p2
    p3 = p3
    c1 = c1
    c2 = c2
    None = None
    Peer = {p1, p2}
    Coordinators <- WithBackup
    TickMod = 4
    MaxSigned = 2
    MaxNow = 4
    MaxStarts = 3
    MaxDeaths = 1
SPECIFICATION Spec
SYMMETRY PeerSymmetry
INVARIANTS
    TypeOK
    KnowsItself
    RegisteredSurvives
    LaterListsKnow
    Acquainted
    EveryoneAnswered
    QuitMeansRemoved
CHECK_DEADLOCK FALSE
