SPECIFICATION FairSpec
CONSTANTS
    t1 = t1
    t2 = t2
    t3 = t3
    Tasks = {t1, t2, t3}
    Workers = {w1, w2}
    NoTask = NoTask
    DependsOn <- Join
    Idempotent <- OnlyT3
    Gated <- None
    Cached <- OnlyT3
    MaxAttempts = 2
    MaxFaults = 0
INVARIANTS
    AttemptsCountRuns
    NoTaskStranded
PROPERTIES
    LegalTransitions
    
CHECK_DEADLOCK FALSE
