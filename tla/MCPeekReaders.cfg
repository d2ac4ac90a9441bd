\* SeqCDC: files of up to 10 bytes of three values; a chunk has 4 to 9 bytes and
\* ends after 3 increasing ones; the second fall skips one byte.  FastCDC: hashes of
\* 3 bits; a chunk has 2 to 32 bytes, 8 normally, in blocks of 3; files of up to 11
\* bytes of two values and patterns of up to 35 bytes.  One Peeker error.
SPECIFICATION ReadersSpec
CONSTANTS
    PeekSize = 9
    Top = 2
    MaxFaults = 1
    SequenceLength = 3
    SkipTrigger = 2
    SkipSize = 1
    MinimumChunkSize = 4
    Files <- SeqFiles
    FastPeekSize = 32
    FastFiles <- TwoValueFiles
    Width = 3
    Gear <- GearValues
    NormalSize = 8
    MaskS = {0, 1}
    MaskL = {0}
    Unroll = 3
INVARIANTS
    NothingLost
    HashIsContinuous
PROPERTIES
    ChunksAreBounded
    RefinesChunkStream
