SPECIFICATION Spec
CONSTANTS
    MaxConnects = 3
    MaxCloses = 2
INVARIANTS EachConnectOnce VerdictIsTrue
PROPERTIES HandlersDestroyed ConnectEnds
CHECK_DEADLOCK FALSE
