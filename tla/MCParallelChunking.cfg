\* Every file of 9 bytes with three scores and of 11 bytes with two, in up to
\* three pieces.
SPECIFICATION Spec
CONSTANTS
    MinSize = 2
    Horizon = 2
    Window = 1
    MaxHash = 2
    Files <- SomeFiles
    Seeks = {1, 4}
    Truncate = FALSE
INVARIANTS
    ChunksAreOfWholeFile
CHECK_DEADLOCK FALSE
