SPECIFICATION FairSpec
CONSTANTS
    StoreEvery = 1
    PublishEvery = 2
    Capacity <- MCCapacity
    BatchSize = 2
    ResumeSize = 1
    CleanEvery = 3
    MaxDelay = 6
    Faults = {}
    MaxCycle = 2
    MaxRestart = 0
PROPERTIES
    BacklogAdvances
    FlagHeals
    BacklogResumed
