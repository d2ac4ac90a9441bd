\* Progress: every call returns and the end of the file is reached.  The horizon
\* is odd, so that a plan can end at a stability point and the next one begin with
\* a region that is empty.
SPECIFICATION FairSpec
CONSTANTS
    MinSize = 2
    Horizon = 3
    Files <- LiveFiles
    MaxFaults = 2
PROPERTIES
    ReaderIsLive
