\* AE: every file of at most 8 bytes of three values, read in blocks of 4, as
\* bytes and as numbers of two bytes.  RAM: files of up to 10 bytes of two values,
\* read in blocks of 3, with and without a limit of 8 bytes.  One Peeker error.
SPECIFICATION ReadersSpec
CONSTANTS
    PeekSize = 4
    Top = 2
    MaxFaults = 1
    RegionSizes = {1, 2}
    WindowSize = 2
    Files <- AEFiles
    RAMPeekSize = 3
    MaximumChunkSizes = {0, 8}
    RAMFiles <- TwoValueFiles
INVARIANTS
    ReadersTypeOK
    BlocksAreAligned
PROPERTIES
    ChunksFollowRule
