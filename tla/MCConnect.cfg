SPECIFICATION LiveSpec
CONSTANTS
    Tokens <- MCTokens
    MaxAttempts = 3
    MaxFailed = 2
    Modes <- MCModes
    Requests <- MCRequests
    Displays <- MCDisplays
    Capacity = 2
    History = 1
    SurfaceQueue = 2
    MaxVideo = 2
    MaxReports = 2
INVARIANTS
    PairingIsExact
    HandoverIsExact
    ConfigFits
    NeverOutOfTurn
PROPERTIES
    EveryWaitEnds
CHECK_DEADLOCK FALSE
