CONSTANTS
    MaxRuns = 2
SPECIFICATION Spec
INVARIANTS
    TypeOK
    RunsMonitored
    OkMeansArchive
    HostOkMeansArchive
    GuestStarts
    
PROPERTIES
    ResumedUnlessFailed
    HostEnds
\* Sessions end, and some of their calls wait for ever.
CHECK_DEADLOCK FALSE
