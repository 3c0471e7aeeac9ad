CONSTANTS
    b1 = b1
    b2 = b2
    w1 = w1
    w2 = w2
    N = 2
    Addr = {b1, b2}
    AddrOf <- TwoAddrs
    FailureThreshold = 1
    RecoveryThreshold = 1
    U32Max = 1
    UsizeMod = 8
    MaxCalls = 1
    Workers = {w1}
SPECIFICATION Spec
INVARIANT NoHealthyMeansAllDown
