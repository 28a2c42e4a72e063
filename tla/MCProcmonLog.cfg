CONSTANTS
    target = target
    other = other
    old = old
    new = new
    Nothing = Nothing
    Paths <- MCPaths
    Tables <- MCTables
    Events <- MCEvents
    Settings <- MCSettings
    MaxEvents = 3
SPECIFICATION FairSpec
INVARIANTS
    TypeOK
    MapsExact
PROPERTIES
    WalkEnds
\* The analysis ends.
CHECK_DEADLOCK FALSE
