\* Files that are empty, shorter than a part, and of two and three parts.
CONSTANTS
    Sizes = {0, 2, 5, 7}
    ChunkSize = 2
    MinPart = 3
    Window = 2
    Faults = TRUE
SPECIFICATION FairSpec
INVARIANTS
    TypeOK
    UploadsAreWhole
    SuccessIsStored
    RefusalsAreEmpty
    DownloadsAreWhole
PROPERTIES
    TransfersEnd
    HandlersEnd
