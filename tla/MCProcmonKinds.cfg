CONSTANTS
    target = target
    other = other
    old = old
    new = new
    Nothing = Nothing
    Paths <- MCPaths
    Tables <- MCTables
    Events <- MCEvents
    Settings <- MCSettings
    MaxEvents = 3
SPECIFICATION FairSpec
INVARIANT DeletionOrRenameTold
CHECK_DEADLOCK FALSE
