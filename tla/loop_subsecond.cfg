\* A batch_interval of half a second.
SPECIFICATION FairSpec
CONSTANTS
    p1 = p1
    p2 = p2
    p3 = p3
    p4 = p4
    Players = {p1, p2, p3, p4}
    SizeA = 1
    SizeB = 1
    MaxMatches = 3
    IntervalParam = 1
    TicksPerSec = 2
    RejoinDelay = 1
    SkillInterval = 0
    Durations = {3, 4}
    Until = 12
    Features = {}
    Eager = TRUE
PROPERTIES
    StopsAtEitherBound
