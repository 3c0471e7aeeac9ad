CONSTANTS
    r1 = r1
    r2 = r2
    N = 2
    MaxBackendRetries = 1
    U32Max = 8
    Requests = {r1}
SPECIFICATION Spec
INVARIANT DeliveredAtMostOnce
CHECK_DEADLOCK FALSE
