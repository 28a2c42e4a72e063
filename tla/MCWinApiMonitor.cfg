CONSTANTS
    file = file
    directory = directory
    Paths <- MCPaths
    Events <- MCEvents
SPECIFICATION FairSpec
INVARIANTS
    TypeOK
    KernelOwnership
    Conservation
    StoppedIsComplete
PROPERTIES
    ImplementsMonitor
    StopReturnsUnlessReadWon
\* A stopped monitor does nothing more, and a stop() that waits for a read
\* nobody cancels is a state the program really rests in.
CHECK_DEADLOCK FALSE
