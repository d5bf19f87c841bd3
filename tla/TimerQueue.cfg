CONSTANTS
    MaxTimers = 2
    Delays = {1, 2}
    MaxTime = 4
    Start = 1
    Wrap = 64
SPECIFICATION FairSpec
INVARIANTS PlacesInv ArmedInTime CancelIsFinal
PROPERTY Fires
CHECK_DEADLOCK FALSE
