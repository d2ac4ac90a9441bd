\* The same with readers whose streams end where their pieces end.
SPECIFICATION Spec
CONSTANTS
    MinSize = 2
    Horizon = 2
    Window = 1
    MaxHash = 3
    Files <- Peak
    Seeks = {3}
    Truncate = TRUE
INVARIANTS
    ChunksAreOfWholeFile
CHECK_DEADLOCK FALSE
