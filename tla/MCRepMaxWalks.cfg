\* Forced cuts whose frontier is recomputed, and lists of candidates less than
\* the minimum size apart, of which a walk has to skip some.
SPECIFICATION Spec
CONSTANTS
    MinSize = 5
    Horizon = 10
    Files <- WalkFiles
    MaxFaults = 0
INVARIANTS
    FrontierIsTight
    IndicesInRange
    PlansAreBounded
PROPERTIES
    ChunksAreBounded
    RefinesChunkStream
