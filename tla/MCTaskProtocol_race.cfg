CONSTANTS
    A = A
    B = B
    C = C
    Me = Me
    Worker = {A, B}
    PeerLists <- MeFirst
    MaxLists = 0
    ParamCounts = {2}
    InitHandled <- AllNew
    MaxNodes = 4
    MaxDowns = 0
    Restarts = FALSE
    StartRace = TRUE
SPECIFICATION Spec
INVARIANT ErasesWhatItAsked
CHECK_DEADLOCK FALSE
