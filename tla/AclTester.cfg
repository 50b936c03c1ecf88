SPECIFICATION Spec
CONSTANTS
    NoByte = NoByte
    Presets = {"LM0", "LM1"}
    BootTime = 3
    SwitchValues <- MCSwitches
    SlowSwitches = FALSE
INVARIANTS
    TypeOK
    ModeMatchesSensor
    TransfersAligned
    MeasurementWhole
