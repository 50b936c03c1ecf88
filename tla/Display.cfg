\* Short delays and lines; the UART queue holds a line. One measurement comes
\* after the start, in any clock.
SPECIFICATION FairSpec
CONSTANTS
    NoByte <- MCNoByte
    Values = {"m1"}
    OneMs = 2
    SubSecond = 3
    BootTime = 1
    ClearLen = 2
    CursorLen = 2
    TextLen = 1
    AlmostFull = 2
    UartDepth = 5
INVARIANTS
    TypeOK
    OneMeasurement
    FramesWhole
    LineWhole
PROPERTIES
    OneLinePerRefresh
    KeepsShowing
