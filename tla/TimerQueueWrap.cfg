CONSTANTS
    MaxTimers = 2
    Delays = {1, 2}
    MaxTime = 8
    Start = 4
    Wrap = 8
SPECIFICATION Spec
INVARIANT ArmedWhenWaiting
CHECK_DEADLOCK FALSE
