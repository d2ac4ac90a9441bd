\* Two sizes on two processors; one interruption or failing
\* write, and one failing read.
SPECIFICATION Spec
CONSTANTS
    a = a
    b = b
    Sizes = {a, b}
    NumCPU = 2
    MaxDispatched = 4
    MaxStops = 1
    MaxReadFaults = 1
    MaxRestarts = 1
    Short = Short
INVARIANTS
    TypeOK
    CountsAreExact
PROPERTIES
    AllSizesSimulated
CHECK_DEADLOCK FALSE
