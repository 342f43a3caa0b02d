CONSTANTS
    A = A
    B = B
    C = C
    Me = Me
    Worker = {A, B, C}
    PeerLists <- MaybeC
    MaxLists = 1
    ParamCounts = {2, 3}
    InitHandled <- NewOrBusy
    MaxNodes = 9
    MaxDowns = 0
    Restarts = FALSE
    StartRace = FALSE
SPECIFICATION Spec
INVARIANTS
    NoAbort
    NothingLeftUnasked
    NoStall
    RunningJobListed
    NotGivenUp
    CompletionSound
PROPERTY AsksFinitely
CHECK_DEADLOCK FALSE
