SPECIFICATION FairSpec
CONSTANTS
    End = End
    NoNext = End
    Images <- MCImages
    TocOffset = 1
    EntrySize = 1
    MinDescriptor = 1
    MaxVisits = 10
    HeaderSize = 1
    ChunkSize = 2
    TocBlockSize = 2
    Packages <- MCPackages
CHECK_DEADLOCK FALSE
INVARIANTS
    ReadingIsRight
    ReadsWhatWasWritten
PROPERTIES
    ReaderEnds
