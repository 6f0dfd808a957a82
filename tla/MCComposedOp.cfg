SPECIFICATION Spec
CONSTANTS
    Threads = {t1, t2}
    MaxTasks = 3
    MaxWaits = 5
INVARIANTS OneOwner
PROPERTIES HandlerCalledLast OpEnds
CHECK_DEADLOCK FALSE
