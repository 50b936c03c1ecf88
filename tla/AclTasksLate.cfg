SPECIFICATION Spec
CONSTANTS
    TaskBoards = {"MB", "S7", "Zynq"}
    Looks <- MCLooks
    Off = Off
    LedQueueLen = 2
    ClsQueueLen = 1
    PrintQueueLen = 1
    Polls = 1
    LedRate = 0
    TextRate = 0
INVARIANTS
    NoTornLed
    NoTornText
