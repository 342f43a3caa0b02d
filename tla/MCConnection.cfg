SPECIFICATION Spec
CONSTANTS
    u1 = u1
    u2 = u2
    None = None
    User = {u1, u2}
    Sent <- MCSent
    Parts = 2
    BufLen = 4
    MaxSent = 2
    MaxSockets = 2
    MaxListeners = 3
CHECK_DEADLOCK FALSE
INVARIANTS
    TypeOK
    OneListener
    HandedInOrder
    AloneIsHanded
    DeafWasTold
PROPERTY BreakIsReported
