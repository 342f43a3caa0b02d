CONSTANTS
    Message = {m1, m2}
    MaxPuts = 4
SPECIFICATION Spec
INVARIANTS
    TypeOK
    NothingLostOrReordered
PROPERTIES
    ImplementsFifo
    StopLetsOneMore
    NextPutRescues
    NextPutEndsStopped
CHECK_DEADLOCK FALSE
