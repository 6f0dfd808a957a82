SPECIFICATION Spec
CONSTANTS
    Connections = {c1, c2}
    MaxAccepts = 3
    MaxCloses = 2
INVARIANTS EachAcceptOnce ConnectionsInOrder CloseLeavesOnlyLate
PROPERTIES CloseEndsAccepts
CHECK_DEADLOCK FALSE
