SPECIFICATION Spec
CONSTANTS
    MsgSizes = {1}
    BufSize = 1
    MaxReceives = 1
    MaxOutstanding = 1
    MaxSends = 1
    MaxMessages = 1
    MaxCloses = 1
INVARIANTS DestroyedIsFreed
CHECK_DEADLOCK FALSE
