CONSTANTS
    s1 = s1
    s2 = s2
    c1 = c1
    c2 = c2
    c3 = c3
    W = 1
    QueueCap = 1
    LogCap = 1
    MetricsCap = 1
    SnapshotEvery = 2
    Conns = {c1}
    Submitters = {s1}
    Modes = {"balancer"}
    MayKeep = {}
    InfoWritten = FALSE
    MaxPanics = 0
    MaxRecords = 1
    MaxNoise = 0
SPECIFICATION Spec
INVARIANT LateThreadsAreReported
CHECK_DEADLOCK FALSE
