CONSTANTS
    Garbage = garbage
    HighWaterMark = 1
    Room = 1
    MaxBytes = 3
    MaxMessage = 2
    ForeignLengths = {2}
    MaxFunctors = 1
    MaxInput = 1
SPECIFICATION FairSpec
INVARIANTS WriteInterest FinAfterData StreamIntact HighWaterOnce NoAssertFails
PROPERTIES BufferDrains CloseGoesThrough PeerGoneDestroys
CHECK_DEADLOCK FALSE
