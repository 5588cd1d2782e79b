SPECIFICATION Spec
CONSTANTS
    t1 = t1
    t2 = t2
    t3 = t3
    Tasks = {t1, t2}
    Workers = {w1}
    NoTask = NoTask
    DependsOn <- Chain
    Idempotent <- None
    Gated <- OnlyT1
    Cached <- None
    MaxAttempts = 2
    MaxFaults = 0
INVARIANTS
    DeniedCancelsDependents
CHECK_DEADLOCK FALSE
