CONSTANTS
    kInitRetryDelayMs = 1
    kMaxRetryDelayMs = 3
    MaxConns = 3
SPECIFICATION FairSpec
INVARIANTS AttemptInv NoAssertFails DisconnectIsFinal
PROPERTIES ConnectsAgain
CHECK_DEADLOCK FALSE
