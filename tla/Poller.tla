-------------------------------- MODULE Poller --------------------------------
(* What a channel expects of the poller behind net/Poller.h, whichever of     *)
(* EpollPoller and PollPoller it is: the kernel watches the descriptor for    *)
(* exactly the channel's events of interest, and reports no other channel.    *)
CONSTANTS
    Fds,        \* socket descriptors, each with at most one channel at a time
    Interests   \* events a channel may be interested in

VARIABLES
    events,         \* what each descriptor's channel is interested in
    registered,     \* descriptors whose channel the poller knows (HasChannel)
    watch,          \* what the kernel watches each descriptor for
    reported        \* the active channels of the last poll

vars == <<events, registered, watch, reported>>

Init == /\ events = [fd \in Fds |-> {}]
        /\ registered = {}
        /\ watch = [fd \in Fds |-> {}]
        /\ reported = {}

UpdateChannel(fd, interest) ==
    /\ events' = [events EXCEPT ![fd] = interest]
    /\ registered' = registered \cup {fd}
    /\ watch' = [watch EXCEPT ![fd] = interest]
    /\ UNCHANGED reported

RemoveChannel(fd) ==
    /\ fd \in registered
    /\ events[fd] = {}
    /\ registered' = registered \ {fd}
    /\ UNCHANGED <<events, watch, reported>>

Poll ==
    /\ reported' \in SUBSET {fd \in registered : watch[fd] # {}}
    /\ UNCHANGED <<events, registered, watch>>

Next ==
    \/ \E fd \in Fds, interest \in SUBSET Interests : UpdateChannel(fd, interest)
    \/ \E fd \in Fds : RemoveChannel(fd)
    \/ Poll

Spec == Init /\ [][Next]_vars
=============================================================================
