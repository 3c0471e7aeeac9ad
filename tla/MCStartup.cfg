CONSTANTS
    Asked <- MCAsked
    Parts <- MCParts
    WorkerNames <- MCWorkerNames
    MayKeep = {"context", "log_tx"}
SPECIFICATION Spec
CHECK_DEADLOCK FALSE
INVARIANTS
    TypeOK
    StartedMeansValid
    StartIsAllOrNothing
PROPERTY
    StartupEnds
