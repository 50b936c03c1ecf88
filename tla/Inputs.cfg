SPECIFICATION MCSpec
CONSTANTS
    Lines = {0, 1}
    ButtonLines = {0, 1}
    Tdeb = 5
    Presets = 3
    Stages = 2
    Tint = 5
    Hold = 4
INVARIANTS
    SettlesOnLines
    OneStepPerPress
PROPERTIES
    BouncesStopped
    NeverSwapped
    InterruptFiltered
    StretchExact
