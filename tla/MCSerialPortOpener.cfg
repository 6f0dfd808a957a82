SPECIFICATION SpecOpener
CONSTANTS
    MaxOps = 3
    MaxCloses = 3
    MaxAttempts = 2
INVARIANTS AbortedByOwnClose
PROPERTIES SuccessMeansReady CloseEnds UntilSuccessEnds
CHECK_DEADLOCK FALSE
