\* Three arms, up to two replicates, under each of the strategies; two extensions.
SPECIFICATION FairSpec
CONSTANTS
    ArmCount = 3
    MaxCount = 2
    Strategies = {"independent", "crn", "counterfactual"}
    Threads = 2
    MaxExtra = 2
    MaxExtensions = 2
INVARIANTS
    TypeOK
    ReplayAfterLive
    PairsShareStreams
PROPERTIES
    ImplementsPlan
    StudyEnds
