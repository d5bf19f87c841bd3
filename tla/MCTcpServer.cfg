CONSTANTS
    io1 = io1
    io2 = io2
    BaseLoop = base
    MaxConns = 2
    ThreadPools <- MCThreadPools
    FdLimits = {1, 2}
    MaxFunctors = 1
SPECIFICATION FairSpec
INVARIANTS LoopsPublished DescriptorInv MapInv CallbacksPaired NoAssertFails RawFunctorsSafe
PROPERTIES ClosedIsDestroyed Served
CHECK_DEADLOCK FALSE
