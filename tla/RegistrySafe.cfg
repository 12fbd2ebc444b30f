SPECIFICATION Spec
CONSTANTS
    Ids <- MCIds
    MaxDev = 2
    Readings <- MCReadings
    Ignored = Ignored
INVARIANTS
    TypeOK
    AtMostTwice
    MissingOnlyWhenCrowded
    LatestIsShown
    OneLateReading
