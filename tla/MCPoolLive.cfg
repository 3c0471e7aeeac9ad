CONSTANTS
    s1 = s1
    s2 = s2
    c1 = c1
    c2 = c2
    c3 = c3
    W = 1
    QueueCap = 1
    LogCap = 1
    MetricsCap = 1
    SnapshotEvery = 2
    Conns = {c1, c2}
    Submitters = {s1, s2}
    Modes = {"balancer", "pool"}
    MayKeep = {"context", "log_tx"}
    InfoWritten = TRUE
    MaxPanics = 1
    MaxRecords = 1
    MaxNoise = 0
SPECIFICATION FairSpec
INVARIANTS
    OnePlace
    RejectionsAreCounted
PROPERTIES
    ImplementsConnectionLife
    ShutdownCompletes
    ThreadsExit
CHECK_DEADLOCK FALSE
