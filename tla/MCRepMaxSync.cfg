\* Regions of two points, which have a trailing and a leading portion, and
\* horizons around the one from which a guaranteed chunk can be searched.  Where
\* the horizon is too small no call is made, and the system stops at once.
SPECIFICATION FairSpec
CONSTANTS
    MinSize = 3
    Horizons = {3, 4, 5}
    Window = 2
    MaxHash = 2
    Files <- SyncFiles
    MaxFaults = 1
INVARIANTS
    TypeOK
    HashIsAligned
    FoundIsLocalMaximum
    FoundIsBoundary
PROPERTIES
    SearchEnds
CHECK_DEADLOCK FALSE
