SPECIFICATION FairSpec
CONSTANTS
    Board = "Zynq"
    DigitMax = 0
    CntDone = 5
    Polls = 2
    SwitchInputs <- MCSwitches
    ButtonInputs <- MCNoButtons
PROPERTIES
    ActivityIsShown
    IndicationEnds
    SelectionTakesEffect
