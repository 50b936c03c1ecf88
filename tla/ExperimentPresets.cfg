SPECIFICATION Spec
CONSTANTS
    Board = "MB"
    DigitMax = 1
    CntDone = 2
    Polls = 2
    SwitchInputs <- MCSwitches
    ButtonInputs <- MCButtons
INVARIANT PresetsMatchDisplay
