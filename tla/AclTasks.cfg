SPECIFICATION Spec
CONSTANTS
    TaskBoards = {"MB", "S7", "Zynq"}
    Looks <- MCLooks4
    Off = Off
    LedQueueLen = 10
    ClsQueueLen = 2
    PrintQueueLen = 4
    Polls = 4
    LedRate = 2
    TextRate = 1
INVARIANTS
    NothingDropped
PROPERTIES
    OutputsConverge
    DisplayAlwaysRefreshed
