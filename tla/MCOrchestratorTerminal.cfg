SPECIFICATION OSpec
CONSTANTS
    s1 = s1
    s2 = s2
    s3 = s3
    s4 = s4
    key = key
    NoKey = NoKey
    Submissions <- FourSubmissions
    DedupeKey <- TwoOfOneKey
    Route <- Routes
    Proposals <- TwoRoots
    Scenarios <- ThreeScenarios
    MaxBacklog = 1
    MaxEvents = 1
    MaxFaults = 1
    DebounceMs = 2
    IntervalMs = 2
    MaxTriggers = 4
PROPERTIES
    RunningIsNotQueued
CHECK_DEADLOCK FALSE
