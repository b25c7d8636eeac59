\* A detector that may ban: does the banned player leave?
SPECIFICATION Spec
CONSTANTS
    p1 = p1
    p2 = p2
    p3 = p3
    p4 = p4
    Players = {p1, p2, p3, p4}
    SizeA = 1
    SizeB = 1
    MaxMatches = 3
    IntervalParam = 2
    TicksPerSec = 1
    RejoinDelay = 1
    SkillInterval = 0
    Durations = {3, 4}
    Until = 12
    Features = {"detection"}
    Eager = TRUE
INVARIANTS
    BannedLeaves
