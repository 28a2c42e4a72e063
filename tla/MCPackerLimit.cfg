CONSTANTS
    Drives <- MCDrives
    Reserved <- MCReserved
    ZipName <- MCZipName
    Canonical <- MCCanonical
    Base <- theBase
    Reports <- MCReports
    Answers <- MCAnswers
    SizeLimit = 1
    InitialSizes <- MCInitialSizes
    MaxSize = 2
    MaxChanges = 3
SPECIFICATION Spec
INVARIANT NoLargerEntry
CHECK_DEADLOCK FALSE
