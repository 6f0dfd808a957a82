SPECIFICATION Spec
CONSTANTS
    Connections = {c1, c2}
    Conn = c1
    MaxAccepts = 2
    MaxCloses = 1
    MaxReceives = 3
    MaxMessages = 2
INVARIANTS ReadsFromTheFirst
PROPERTIES ReadInTheEnd
CHECK_DEADLOCK FALSE
