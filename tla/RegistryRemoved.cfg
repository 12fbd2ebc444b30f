SPECIFICATION Spec
CONSTANTS
    Ids <- MCIds
    MaxDev = 2
    Readings <- MCReadings
    Ignored = Ignored
INVARIANTS
    RemovedIsGone
