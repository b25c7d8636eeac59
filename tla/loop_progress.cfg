\* 2v1 matches of three players, detection on and skills changing, over a horizon that leaves time for the budget.
SPECIFICATION FairSpec
CONSTANTS
    p1 = p1
    p2 = p2
    p3 = p3
    Players = {p1, p2, p3}
    SizeA = 2
    SizeB = 1
    MaxMatches = 2
    IntervalParam = 2
    TicksPerSec = 1
    RejoinDelay = 1
    SkillInterval = 5
    Durations = {0, 3}
    Until = 11
    Features = {"detection"}
    Eager = TRUE
INVARIANTS
    CheckedBeforeRequeue
PROPERTIES
    RunReturns
    BudgetReached
