SPECIFICATION Spec
CONSTANTS
    Branches = {main, b1, b2}
    Main = main
    Results = {r1, r2}
    Default = aborted
    MaxYields = 4
INVARIANTS RefsCountHandles HandlerCalledLast
PROPERTIES HandlerCalled
CHECK_DEADLOCK FALSE
