\* Every part beside the loop, the asynchronous optimizer and the studies.
SPECIFICATION AllSpec
CONSTANTS
    None = None
    NoName = NoName
\* MatchSearch: two against one, five players in two regions.
    SizeA = 2
    SizeB = 1
    Scale = 6
    Cap = 2
    Width = 2
    MaxCandidates = 3
    MinQuality = 14
    Tolerance = 3
    Unrated = 2
    Worlds <- SomeWorlds
    Queues <- SomeQueues
    Regions = {"na", "eu"}
    AllowedPairs <- SomePairs
    RoleRequirements <- SomeRoles
\* Parties of three players, at most three that take an id of the counter.
    Player = {0, 1, 2}
    SizeLimits <- TwoOrAny
    MaxParties = 3
\* Ecosystem: two players of three ids, for two ticks.
    InitialPlayers = 2
    MaxPlayers = 3
    MaxTicks = 2
    PartyIds = {7}
    MatchSize = 2
    AgentKinds = {"threshold", "own"}
\* AgentPolicies: up to four outcomes, of which the last two or three count.
    MaxQueueTime = 60
    MaxConsecutiveLosses = 2
    LatencyThreshold = 100
    PatternWindow = 3
    TargetRating = 20
    IdealQueueTime = 60
    TargetPartySize = 2
    TargetWinRate = 50
    ObservationSet <- SomeObservations
    MaxHistory = 4
\* Plugins: two calls of a script.
    Adapters = {"rating", "game", "matchmaking", "detection", "metrics", "adversarial", "utility", "ranking"}
    Scripts <- SomeScripts
    Places <- SomePlaces
    SampleEvery = 2
    MaxCalls = 2
\* Persistence: four writes.
    Ids = {1, 2}
    Results = {"json", "other json"}
    Keys = {1, 2}
    BufferSizes = {0, 2, 3}
    MaxWrites = 4
\* Scheduler: two or three jobs, at most two workers, up to two retries.
    Batches <- SomeBatches
    NameLength <- SomeNames
    Pools = {0, 1, 2}
    MaxRetries = 2
\* Cli.
    Arguments <- SomeArguments
    Numbers = {"3"}
    Formats <- SomeFormats
INVARIANTS
    ProposalsSound
    NoMatchLeftUnformed
    SelectionSound
    OnlySolosCollide
    IdsStayFresh
    ActsOnEvidence
    BudgetKept
    CallsAreDefined
    ContextRoundTrips
    PersistedIsWhatWasWritten
    RetriesExhausted
    StudiesAsPlanned
    ExitIsHonest
    AnalysesAgree
\* Each part stops: an algorithm is run once, the others reach their bounds.
CHECK_DEADLOCK FALSE
