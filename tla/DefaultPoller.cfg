CONSTANTS
    Fds = {3, 4, 5}
    InitialSlots = 1
    MaxDisabled = 1
SPECIFICATION PollerSpec
INVARIANTS EpollStatusInv PollIndexInv NoAssertFails
PROPERTIES ImplementsEitherPoller
