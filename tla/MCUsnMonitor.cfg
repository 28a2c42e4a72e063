CONSTANTS
    f1 = f1
    f2 = f2
    a = a
    b = b
    n = n
    denied = denied
    Files <- MCFiles
    Names <- MCNames
    Bare <- MCBare
    Codes <- MCCodes
    Options <- MCOptions
    InitialName <- MCInitialName
    Touches <- MCTouches
    Batch = 2
    MaxUsn = 4
SPECIFICATION FairSpec
INVARIANTS
    TypeOK
    RangeExact
    PlainFilesExact
    SettledPathsExact
PROPERTIES
    ImplementsMonitor
    CallReturns
\* The journal is bounded and the last answer may stand forever.
CHECK_DEADLOCK FALSE
