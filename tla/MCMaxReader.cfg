\* Every file of at most 11 bytes, with one Peeker error.
SPECIFICATION Spec
CONSTANTS
    MinSize = 2
    MaxSize = 7
    Files <- ShortFiles
    MaxFaults = 1
INVARIANTS
    TypeOK
    NothingLost
    StackIsExact
    StackFits
PROPERTIES
    ScanNeverGoesBack
    RefinesChunkStream
