\* One or two bytes out, none to two in, with and without a wait.
SPECIFICATION Spec
CONSTANTS
    Bytes <- MCBytes
    Answers <- MCAnswers
    TxLens = {1, 2}
    RxLens = {0, 1, 2}
    WaitCycs = {0, 1}
    Depth = 2
    TMax = 17
INVARIANTS
    ClocksCounted
PROPERTIES
    Implements
    BusProtocol
    TransferEnds
