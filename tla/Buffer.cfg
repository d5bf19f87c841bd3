CONSTANTS
    Bytes = {0, 1}
    Fill = 0
    InitSize = 2
    ExtraBufSize = 2
    MaxLength = 3
    MaxReadable = 4
SPECIFICATION Spec
INVARIANT CapacityBound
PROPERTY ImplementsFifo
