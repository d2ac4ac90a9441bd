\* Integers of 4 bits and bytes of one: 4 of them fill a prefix.  Files of 16
\* bytes, of which any 8 or more are in the data at first; lexicographic windows
\* of 2, 4 and 6 bytes; loads of 4 bytes for blocks of 2, and 2 candidates in
\* the buffer.  Streams of up to 7 bytes, in scans of up to 6, with a ring of 5.
\* The last call of a reader and the last byte of a stream have no successor.
SPECIFICATION HashesSpec
CONSTANTS
    Width = 4
    Gear <- GearValues
    Top = 1
    Base = 7
    PolynomialWindow = 5
    PrefixSize = 4
    MinSize = 7
    Scanners <- AllScanners
    Unroll = 2
    PortableLanes = 2
    LoadSize = 4
    ArchLanes = 2
    BufferSize = 2
    Files <- ShortFiles
    Thresholds = {0, 6, 11, 15}
    MaxData = 6
    MaxFed = 7
INVARIANTS
    HashesTypeOK
    FrontierHashesAreExact
    ScannersAgree
    HashIsOfLastBytes
    RingHoldsWindow
    ScanIsExact
PROPERTIES
    ScanEnds
CHECK_DEADLOCK FALSE
