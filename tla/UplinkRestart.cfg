SPECIFICATION FairSpec
CONSTANTS
    StoreEvery = 1
    PublishEvery = 2
    Capacity <- MCCapacity
    BatchSize = 2
    ResumeSize = 2
    CleanEvery = 3
    MaxDelay = 6
    Faults = {}
    MaxCycle = 1
    MaxRestart = 1
PROPERTIES
    OwedResumed
