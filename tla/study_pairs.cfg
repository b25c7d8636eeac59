\* Two arms and two replicates with common random numbers; runs may lack the metric.
SPECIFICATION Spec
CONSTANTS
    ArmCount = 2
    MaxCount = 2
    Strategies = {"crn"}
    Threads = 2
    MaxExtra = 0
    MaxExtensions = 0
INVARIANTS
    PairsMatched
