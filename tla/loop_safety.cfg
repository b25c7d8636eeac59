\* Four players in 1v1 matches; every optional subsystem but detection is on.
SPECIFICATION Spec
CONSTANTS
    p1 = p1
    p2 = p2
    p3 = p3
    p4 = p4
    Players = {p1, p2, p3, p4}
    SizeA = 1
    SizeB = 1
    MaxMatches = 3
    IntervalParam = 2
    TicksPerSec = 1
    RejoinDelay = 1
    SkillInterval = 0
    Durations = {3, 4}
    Until = 11
    Features = {"satisfaction", "ranking", "completed", "history"}
    Eager = FALSE
SYMMETRY PlayerSymmetry
INVARIANTS
    TypeOK
    InOnePlace
    Lifecycle
    MatchmakerScheduled
    CopiesCurrent
    QueueTimeIsWait
    ShownOnce
    HistoryChain
    QuitIsFinal
PROPERTIES
    ClockMonotone
    ImplementsPool
