CONSTANTS
    Message = {m1, m2}
    MaxPuts = 2
SPECIFICATION Spec
INVARIANT WaitsOnlyWhenEmpty
CHECK_DEADLOCK FALSE
