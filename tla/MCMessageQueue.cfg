SPECIFICATION Spec
CONSTANTS
    MsgSizes = {1, 2}
    BufSize = 1
    MaxReceives = 4
    MaxOutstanding = 2
    MaxSends = 1
    MaxMessages = 3
    MaxCloses = 2
INVARIANTS EachHandlerOnce StreamInOrder CompletesInCallOrder
PROPERTIES ReceiveEnds
CHECK_DEADLOCK FALSE
