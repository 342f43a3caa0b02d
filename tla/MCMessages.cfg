SPECIFICATION Spec
CONSTANTS
    Owner = {1, 2}
    Worker = {3}
    Coordinator = 9
    m_paramList <- MCParams
    MaxSigned = 3
    PeerLists <- MCPeerLists
    ResultLists <- MCResults
    MaxTasks = 2
    MaxNodes = 2
CHECK_DEADLOCK FALSE
INVARIANTS
    UnderstoodAsMeant
    ResultsAreOfTheirParam
PROPERTY CancelHitsItsTask
