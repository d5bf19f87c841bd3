CONSTANTS
    Fds = {3, 4, 5}
    MaxDisabled = 2
SPECIFICATION Spec
INVARIANT NoAssertFails
CHECK_DEADLOCK FALSE
