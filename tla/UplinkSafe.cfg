SPECIFICATION Spec
CONSTANTS
    StoreEvery = 1
    PublishEvery = 2
    Capacity <- MCCapacity
    BatchSize = 2
    ResumeSize = 2
    CleanEvery = 2
    MaxDelay = 6
    Faults = {"begin", "insert", "commit", "select", "update", "malloc"}
    MaxCycle = 2
    MaxRestart = 1
INVARIANTS
    TypeOK
    NoOverrun
    StoredOnce
    SyncedWasSent
    DelaysInStep
PROPERTIES
    OutboxSafe
CHECK_DEADLOCK FALSE
