SPECIFICATION Spec
CONSTANTS
    Budget = 6
    InitialPoints = 2
    Threads = 2
    PoolSize = 2
    Candidates = 2
    MinTraining = 2
    MaxFailures = 3
    MultiObjective = TRUE
    CheckpointInterval = 1
    DiskFaults = FALSE
PROPERTIES
    SuggestReturns
