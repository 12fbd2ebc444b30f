SPECIFICATION FairSpec
CONSTANTS
    Points <- MCPoints
    Values <- MCValues
    Samples <- MCSamples
    Settings <- MCSettings
    Default <- MCDefault
    DedupSlots = 1
    MaxRecords = 2
    Cooldown = 2
    NoSample = NoSample
    MaxRestart = 1
INVARIANTS
    TypeOK
    RepeatOnlyWithoutSlot
    DrawnIsCurrent
    ThresholdsKept
PROPERTIES
    NoMissedAlarm
    AlarmRepeats
