CONSTANTS
    a = a
    d = d
    LF = LF
    CR = CR
    Byte = {a, d, LF, CR}
    Disconnect <- MCDisconnect
    Typed <- MCTyped
    LineSize = 3
    ReceivedSize = 2
    InputSize = 5
SPECIFICATION FairSpec
INVARIANTS PiecesDoNotMatter SocketsAreClosed AgreeOnTheEnd
PROPERTIES ImplementsLineServer ServerStops
CHECK_DEADLOCK FALSE
