SPECIFICATION Spec
CONSTANTS
    Board = "MB"
    DigitMax = 0
    CntDone = 2
    Polls = 1
    SwitchInputs <- MCSwitches
    ButtonInputs <- MCNoButtons
INVARIANT ModeFollowsSwitches
