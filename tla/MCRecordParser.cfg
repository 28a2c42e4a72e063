CONSTANTS
    NotificationSize = 88
    NameOffset = 84
    HeaderSize = 8
    RecordSize <- MCRecordSize
    ExtentsOffset = 64
    CharSize = 2
    ExtentSize = 16
    Width = 1024
    Layouts <- MCLayouts
    Lengths <- MCLengths
    Headers <- MCHeaders
SPECIFICATION Spec
INVARIANTS
    TypeOK
    ReadsInside
    LayoutsParsed
PROPERTIES
    ParsingEnds
\* Parsing ends.
CHECK_DEADLOCK FALSE
