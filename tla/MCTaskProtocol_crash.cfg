CONSTANTS
    A = A
    B = B
    C = C
    Me = Me
    Worker = {A, B}
    PeerLists <- MaybeB
    MaxLists = 1
    ParamCounts = {2, 3}
    InitHandled <- NewOrBusy
    MaxNodes = 6
    MaxDowns = 1
    Restarts = FALSE
    StartRace = FALSE
SPECIFICATION Spec
INVARIANTS
    NoParamLost
    MissingHasCause
    ParamRunsOnce
    ResultsOnce
    CompletionSound
    DeathWillBeSeen
PROPERTIES
    NoRequestAfterStop
    ImplementsTask
CHECK_DEADLOCK FALSE
