SPECIFICATION FairSpec
CONSTANTS
    NoByte = NoByte
    Presets = {"LM0"}
    BootTime = 3
    SwitchValues <- MCSwitches
    SlowSwitches = TRUE
PROPERTIES
    ModeFollowsSwitch
    EventsReported
