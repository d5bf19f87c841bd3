CONSTANTS
    Garbage = garbage
    HighWaterMark = 2
    Room = 1
    MaxBytes = 4
    MaxMessage = 2
    ForeignLengths = {0, 1, 2}
    MaxFunctors = 2
    MaxInput = 1
SPECIFICATION Spec
INVARIANT EchoIntact
CHECK_DEADLOCK FALSE
