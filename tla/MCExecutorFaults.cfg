SPECIFICATION Spec
CONSTANTS
    t1 = t1
    t2 = t2
    t3 = t3
    Tasks = {t1, t2, t3}
    Workers = {w1, w2}
    NoTask = NoTask
    DependsOn <- Join
    Idempotent <- OnlyT3
    Gated <- OnlyT1
    Cached <- None
    MaxAttempts = 2
    MaxFaults = 1
SYMMETRY WorkerSymmetry
INVARIANTS
    
    DependenciesFirst
    SuccessMeansRun
CHECK_DEADLOCK FALSE
