CONSTANTS
    file = file
    directory = directory
    Paths <- MCPaths
    Events <- MCEvents
SPECIFICATION FairSpec
INVARIANT StopNeverFails
CHECK_DEADLOCK FALSE
