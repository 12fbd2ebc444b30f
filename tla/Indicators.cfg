SPECIFICATION FairSpec
CONSTANTS
    Points <- MCPoints
    Sensors <- MCSensors
    SensorOf <- MCSensorOf
    Values <- MCValues
    Readings <- MCReadings
    Settings <- MCSettings
    Order <- MCOrder
    SpinLocks = TRUE
    MaxDown = 1
INVARIANTS
    TypeOK
    Justified
PROPERTIES
    IndicatorsFollow
