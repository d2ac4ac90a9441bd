\* What an error drops after a block was consumed.
SPECIFICATION ReadersSpec
CONSTANTS
    PeekSize = 4
    Top = 2
    MaxFaults = 1
    RegionSizes = {1, 2}
    WindowSize = 2
    Files <- AEFiles
    RAMPeekSize = 3
    MaximumChunkSizes = {0, 8}
    RAMFiles <- TwoValueFiles
INVARIANTS
    NothingDropped
