SPECIFICATION FairSpec
CONSTANTS
    Budget = 3
    InitialPoints = 3
    Threads = 2
    PoolSize = 2
    Candidates = 2
    MinTraining = 2
    MaxFailures = 3
    MultiObjective = FALSE
    CheckpointInterval = 1
    DiskFaults = FALSE
PROPERTIES
    StopsWhenExhausted
CHECK_DEADLOCK FALSE
