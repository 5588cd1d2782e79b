SPECIFICATION StorageSpec
CONSTANTS
    StoredTasks <- TwoStored
    Prerequisites <- SecondAfterFirst
    NeedsApproval <- GatedSecond
    StoreWorkers = {"wa", "wb"}
    ClockSkew <- AllInStep
    CompactAfter = 0
    Retention = 0
    ArchiveAfter = 0
    MaintenanceBatch = 1
    MaxStoreTime = 2
    MaxEnded = 3
    MaxAttempts = 2
    MaxItems = 2
INVARIANTS
    AttemptsAreRecorded
CHECK_DEADLOCK FALSE
