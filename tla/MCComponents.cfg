SPECIFICATION CSpec
CONSTANTS
    c1 = c1
    c2 = c2
    c3 = c3
    Callers <- ThreeCallers
    Call <- ThreeCalls
    FailureThreshold = 2
    Window = 1
    OpenCooldown = 1
    HalfOpenMaxCalls = 1
    SuccessThreshold = 2
    BreakerMaxKeys = 1
    BreakerTtl = 1
    RateLimitsEnabled = TRUE
    PerTool <- ToolSpecs
    PerDestination <- HostSpecs
    PerRun <- RunSpec
    DefaultSpec <- NoneSpec
    Cost = 1
    LimiterMaxKeys = 6
    LimiterTtl = 1
    MaxGlobal = 2
    ToolLimit <- OneHttp
    MaxClock = 2
    Observers = {o1, o2, o3}
    Operators = {op}
    WindowMs = 2
    Threshold = 1
    TtlMs = 2
    MaxNow = 4
    Consumers = {c1, c2}
    QueuedEnvelopes = {e1, e2}
    e1 = e1
    e2 = e2
    Undecodable <- OldVersion
    WorkerSlots = 1
    Lag <- OneLate
    MaxLag = 1
    ClaimBatch = 2
    PromoteBatch = 1
    ClaimIdle = 1
    RedisDelays = {0, 2}
    MaxMessages = 3
    Padding <- Blanks
    MaxRulesBytes = 2
    Classified <- NoClassifier
    Registry <- TwoTools
    EnabledScopes = {"net"}
    ApprovalScopes = {"net"}
    LimitChoices <- SomeLimits
    RuleFiles <- SomeFiles
    PlanningEvents <- SomeEvents
    BackendReplies <- SomeReplies
    ElapsedTimes = {9, 10}
    HostLabels <- Hosts
    IpLiterals = {"10.0.0.1"}
    Localhost = {"localhost"}
    PolicyCalls <- SomeCalls
    FirstContext <- Loose
    Stricter <- OneStepStricter
    MaxExecutions = 2
    StoredTasks <- TwoStored
    Prerequisites <- SecondAfterFirst
    NeedsApproval <- GatedSecond
    StoreWorkers = {"wa", "wb"}
    ClockSkew <- TwoAhead
    CompactAfter = 0
    Retention = 0
    ArchiveAfter = 0
    MaintenanceBatch = 1
    MaxStoreTime = 2
    MaxEnded = 3
    MaxAttempts = 2
    MaxItems = 2
    MarkerBytes = 2
    MaxDepth = 4
    MaxListed = 5
    AuditLimits <- Budgets
    PacketTasks <- TwoAudited
    Outputs <- ToolOutputs
    Payloads <- EventPayloads
    SandboxScenarios <- SomeScenarios
    BuiltinTools = {"fs", "http"}
    MaxRequest = 3
    PipeBytes = 2
    StdoutOverhead = 1
    StdoutCap = 3
    MaxStderr = 1
    RawOutputs = {3}
    Wrappings = {1, 2}
    MaxPrinted <- FewPrinted
    ExportedPackets <- SomePackets
    MaxPacketBytes = 2
    KnownScopes = {"fs.read", "net.http", "webhook.emit"}
    RetryableCodes = {"TIMEOUT", "TOOL_ERROR"}
    RetryableStatuses = {429, 503}
    RetryBase = 2
    RetryMax = 4
    PolicyAttempts = 3
    DependencyDelay = 2
    RecordedDelay = 1
    Runners = {1, 2, 3}
    GivenChoices <- SomeGiven
    Writers = {"pa", "pb"}
    LedgerTools = {"ta", "tb"}
    LedgerResults = {"ok", "refused", "unavailable"}
    RunChoices <- OneRunOrTwo
    MaxUnits = 4
    q1 = q1
    q2 = q2
    TQEnvelopes = {q1, q2}
    TQPriority <- OneUrgent
    TQTimes = {0, 1}
    TQTimeouts = {1}
    TQDelays = {0, 1}
    MaxTQTime = 2
    MaxTQLeases = 3
    DedupeKeys = {k1, nokey}
    NoDedupe = nokey
    BackendDelays = {0, 1}
    LeaseTimes = {1}
    MaxBackendTime = 2
    MaxQueued = 2
    MaxReserved = 3
    NetCalls <- SomeNetCalls
    NetLocations <- SomeLocations
    NetSettings <- SomeNetSettings
    MaxBodyBytes = 1
    MaxRedirects = 2
    FileWriters = {fa, fb}
    FileReaders = {fr}
    WriteCalls <- SomeWrites
INVARIANTS
    SlotsAccounted
    RateBound
    
    LuaMatchesMemory
    SuppressionEnds
    StoredOnce
    AcceptedIffRunnable
    RefusedStaysRefused
    StoredRowsLoad
    
    
    SecretsNeverStored
    ReturnsWhenChildEnded
    ChildAgreesWithHost
    ReplayFollowsRecord
    ShutdownIsOrderly
    LedgerKeepsSuccess
    LegacyQueuesDeliver
    NetRequestsConfined
    
PROPERTIES
    BreakerTrips
    NotLeasedEarly
    FreshMemoryKept
CHECK_DEADLOCK FALSE
