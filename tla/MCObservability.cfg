CONSTANTS
    e1 = e1
    e2 = e2
    b1 = b1
    b2 = b2
    Emitters = {e1, e2}
    Stats <- MCStats
    LogCapacity = 1
    MetricsCapacity = 1
    NoticeEvery = 2
    SnapshotEvery = 2
    U32Max = 2
    Settings = {"unset", "warn"}
    MaxEmits = 3
    MaxRejections = 1
    MaxStats = 3
SPECIFICATION Spec
INVARIANTS
    TypeOK
    SnapshotIsAPrefix
    FileIsInOrder
    DropsAreCounted
    NoticesAreTrue
PROPERTIES
    AcceptedIsAggregated
