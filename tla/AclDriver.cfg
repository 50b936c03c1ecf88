SPECIFICATION Spec
CONSTANTS
    Readings <- MCReadings
    Presets <- MCPresets
INVARIANTS
    TypeOK
    SensorInStep
    ConfiguresAsSpecified
    ScaleAgrees
    SampleWhole
PROPERTIES
    EventsNotLost
CHECK_DEADLOCK FALSE
