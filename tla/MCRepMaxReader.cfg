\* Files of up to 15 bytes, whose horizon holds several batches of chunks or one
\* of three or four, with one Peeker error.
SPECIFICATION Spec
CONSTANTS
    MinSize = 2
    Horizon = 8
    Files <- ReaderFiles
    MaxFaults = 1
INVARIANTS
    TypeOK
    NothingLost
    FrontierIsExact
PROPERTIES
    ScanNeverGoesBack
    RefinesChunkStream
