CONSTANTS
    b1 = b1
    b2 = b2
    w1 = w1
    N = 2
    Addr = {b1, b2}
    AddrOf <- TwoAddrs
    FailureThreshold = 2
    RecoveryThreshold = 3
    U32Max = 3
    UsizeMod = 2
    MaxCalls = 2
    Workers = {w1}
SPECIFICATION PHSpec
INVARIANT NoHealthyMeansEachWasDown
PROPERTIES
    ImplementsHealthPolicy
    ProbingConverges
    StopReturns
