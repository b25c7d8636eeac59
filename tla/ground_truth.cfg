\* The plugins of MCComponents; the values of the other parts are those of components.cfg.
SPECIFICATION PluginsSpec
CONSTANTS
    None = None
    NoName = NoName
    SizeA = 2
    SizeB = 1
    Scale = 6
    Cap = 2
    Width = 2
    MaxCandidates = 3
    MinQuality = 14
    Tolerance = 3
    Unrated = 2
    Worlds <- SomeWorlds
    Queues <- SomeQueues
    Regions = {"na", "eu"}
    AllowedPairs <- SomePairs
    RoleRequirements <- SomeRoles
    Player = {0, 1, 2}
    SizeLimits <- TwoOrAny
    MaxParties = 3
    InitialPlayers = 2
    MaxPlayers = 3
    MaxTicks = 2
    PartyIds = {7}
    MatchSize = 2
    AgentKinds = {"threshold", "own"}
    MaxQueueTime = 60
    MaxConsecutiveLosses = 2
    LatencyThreshold = 100
    PatternWindow = 3
    TargetRating = 20
    IdealQueueTime = 60
    TargetPartySize = 2
    TargetWinRate = 50
    ObservationSet <- SomeObservations
    MaxHistory = 4
    Adapters = {"rating", "game", "matchmaking", "detection", "metrics", "adversarial", "utility", "ranking"}
    Scripts <- SomeScripts
    Places <- SomePlaces
    SampleEvery = 2
    MaxCalls = 2
    Ids = {1, 2}
    Results = {"json", "other json"}
    Keys = {1, 2}
    BufferSizes = {0, 2, 3}
    MaxWrites = 4
    Batches <- SomeBatches
    NameLength <- SomeNames
    Pools = {0, 1, 2}
    MaxRetries = 2
    Arguments <- SomeArguments
    Numbers = {"3"}
    Formats <- SomeFormats
INVARIANTS
    GroundTruthHidden
\* A script is called a bounded number of times.
CHECK_DEADLOCK FALSE
