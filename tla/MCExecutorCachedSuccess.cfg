SPECIFICATION Spec
CONSTANTS
    t1 = t1
    t2 = t2
    t3 = t3
    Tasks = {t1, t2}
    Workers = {w1}
    NoTask = NoTask
    DependsOn <- Chain
    Idempotent <- OnlyT1
    Gated <- None
    Cached <- OnlyT1
    MaxAttempts = 2
    MaxFaults = 0
INVARIANTS
    ReadyDependentsQueued
CHECK_DEADLOCK FALSE
