CONSTANTS
    f1 = f1
    f2 = f2
    a = a
    b = b
    n = n
    denied = denied
    Files <- MCFiles
    Names <- MCNames
    Bare <- MCBare
    Codes <- MCCodes
    Options <- MCOptions
    InitialName <- MCInitialName
    Touches <- MCTouches
    Batch = 2
    MaxUsn = 4
SPECIFICATION FairSpec
INVARIANT DeletesReported
CHECK_DEADLOCK FALSE
