SPECIFICATION FairSpec
INVARIANTS
    TypeOK
    StartedMeansCapturing
    ExportsEndedCapture
    NoLitter
PROPERTIES
    ImplementsMonitor
    StartReturnsUnlessTaskEnds
    StopReturnsUnlessTerminateFails
\* A start() whose task failed, and a stop() whose /Terminate failed, wait
\* for ever; and a stopped monitor does nothing more.
CHECK_DEADLOCK FALSE
