\* Six trials, two of them initial, three at a time on two threads of the pool.
SPECIFICATION FairSpec
CONSTANTS
    Budget = 6
    InitialPoints = 2
    Threads = 3
    PoolSize = 2
    Candidates = 2
    MinTraining = 2
    MaxFailures = 3
    MultiObjective = FALSE
    CheckpointInterval = 2
    DiskFaults = TRUE
INVARIANTS
    TypeOK
    EveryTrialOnce
    CountsOutstanding
    AnswerComing
    BudgetUsed
PROPERTIES
    Returns
    CheckpointGrows
