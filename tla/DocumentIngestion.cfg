SPECIFICATION Spec
CONSTANTS
    Uploads = {u1}
    Inputs <- MCInputs
    Target = 6
    HardLimit = 8
    MaxEntries = 2
    MaxUncompressed = 5
    MaxRatio = 2
    BoldWords = 3
    Introduction <- Intro
    MaxParagraphs = 3
    MaxItems = 3
INVARIANTS
    TypeOK
    BookHasFile
    FilesAccounted
    WordsKept
    SegmentsUsable
    ParsedInOrder
CHECK_DEADLOCK FALSE
