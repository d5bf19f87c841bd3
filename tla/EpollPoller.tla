----------------------------- MODULE EpollPoller -----------------------------
(* net/poller/EpollPoller.cpp: channels keep their status with the poller     *)
(* themselves, and a channel without interest is taken out of the epoll set   *)
(* but stays in channels_.                                                    *)
EXTENDS Channel, Naturals, FiniteSets

CONSTANTS
    Fds,            \* socket descriptors, each with at most one channel at a time
    InitialSlots    \* events_.size() at the start

ASSUME EpollAssumption == InitialSlots \in Nat \ {0}

VARIABLES
    events,     \* each channel's events_
    status,     \* each channel's inPollerStatus
    channels,   \* the keys of channels_
    epoll,      \* the kernel's epoll set: descriptor -> events watched
    slots,      \* events_.size(), the most events that one poll returns
    reported,   \* activeChannels of the last poll
    aborted     \* an assert failed or epoll_ctl refused an operation

vars == <<events, status, channels, epoll, slots, reported, aborted>>

TypeOK ==
    /\ events \in [Fds -> SUBSET Events]
    /\ status \in [Fds -> {"KInit", "KAdded", "KDeleted"}]
    /\ channels \subseteq Fds
    /\ DOMAIN epoll \subseteq Fds /\ \A fd \in DOMAIN epoll : epoll[fd] \subseteq Events
    /\ slots \in Nat
    /\ reported \subseteq Fds
    /\ aborted \in BOOLEAN

Init ==
    /\ events = [fd \in Fds |-> {}]
    /\ status = [fd \in Fds |-> "KInit"]
    /\ channels = {}
    /\ epoll = [fd \in {} |-> {}]
    /\ slots = InitialSlots
    /\ reported = {}
    /\ aborted = FALSE

(* epoll_ctl adds only what is absent, changes and deletes only what is       *)
(* present; updateOperator2Poller logs an error and goes on.                  *)
EpollCtl(op, fd, interest) ==
    /\ epoll' = CASE op = "ADD" /\ fd \notin DOMAIN epoll ->
                       [g \in DOMAIN epoll \cup {fd} |-> IF g = fd THEN interest ELSE epoll[g]]
                  [] op = "MOD" /\ fd \in DOMAIN epoll -> [epoll EXCEPT ![fd] = interest]
                  [] op = "DEL" /\ fd \in DOMAIN epoll ->
                       [g \in DOMAIN epoll \ {fd} |-> epoll[g]]
                  [] OTHER -> epoll

Refused(op, fd) == (op = "ADD") <=> (fd \in DOMAIN epoll)

(* Mutants: a channel taken out of the epoll set is changed in place of       *)
(* added; a channel without interest stays in the set with an empty mask.     *)
UpdateOperationNoReAdd(fd, interest) ==
    IF status[fd] = "KInit" THEN "ADD"
    ELSE IF IsNoneEvent(interest) THEN "DEL" ELSE "MOD"

UpdateOperationNoDelete(fd, interest) ==
    IF status[fd] \in {"KInit", "KDeleted"} THEN "ADD" ELSE "MOD"

(* The operation updateChannel asks of the kernel and the status it leaves.   *)
UpdateOperation(fd, interest) ==
    IF status[fd] \in {"KInit", "KDeleted"} THEN "ADD"
    ELSE IF IsNoneEvent(interest) THEN "DEL" ELSE "MOD"

(* Mutant: the status of a channel taken out of the epoll set stays KAdded.   *)
StatusAfterAlways(op) == "KAdded"

StatusAfter(op) == IF op = "DEL" THEN "KDeleted" ELSE "KAdded"

UpdateChannel(fd, interest) ==
    LET op == UpdateOperation(fd, interest) IN
    /\ ~aborted
    /\ interest \in Updates(events[fd])
    /\ events' = [events EXCEPT ![fd] = interest]
    /\ status' = [status EXCEPT ![fd] = StatusAfter(op)]
    /\ channels' = channels \cup IF status[fd] = "KInit" THEN {fd} ELSE {}
    /\ EpollCtl(op, fd, interest)
    /\ aborted' = (Refused(op, fd) \/ (status[fd] # "KInit" /\ fd \notin channels))
    /\ UNCHANGED <<slots, reported>>

RemoveChannel(fd) ==
    /\ ~aborted
    /\ fd \in channels /\ IsNoneEvent(events[fd])
    /\ aborted' = (status[fd] = "KInit" \/ (status[fd] = "KAdded" /\ Refused("DEL", fd)))
    /\ channels' = channels \ {fd}
    /\ IF status[fd] = "KAdded" THEN EpollCtl("DEL", fd, {}) ELSE UNCHANGED epoll
    /\ status' = [status EXCEPT ![fd] = "KInit"]
    /\ UNCHANGED <<events, slots, reported>>

(* epoll_wait returns at most as many ready descriptors as events_ has slots; *)
(* a poll that fills them all doubles the vector.                             *)
Poll ==
    /\ ~aborted
    /\ \E ready \in SUBSET DOMAIN epoll :
          /\ Cardinality(ready) <= slots
          /\ reported' = ready
          /\ slots' = IF Cardinality(ready) = slots THEN 2 * slots ELSE slots
    /\ UNCHANGED <<events, status, channels, epoll, aborted>>

Next ==
    \/ \E fd \in Fds : \E interest \in Updates(events[fd]) : UpdateChannel(fd, interest)
    \/ \E fd \in Fds : RemoveChannel(fd)
    \/ Poll

Spec == Init /\ [][Next]_vars

-----------------------------------------------------------------------------
(* Properties                                                                 *)

(* A channel's status says whether its descriptor is in the epoll set and     *)
(* whether channels_ has it; the epoll set holds its current interest.        *)
StatusInv ==
    /\ TypeOK
    /\ \A fd \in Fds :
         /\ fd \in channels <=> status[fd] # "KInit"
         /\ fd \in DOMAIN epoll <=> status[fd] = "KAdded"
         /\ fd \in DOMAIN epoll => epoll[fd] = events[fd]
         /\ status[fd] = "KAdded" <=> events[fd] # {}

(* No sequence of enable, disable and remove makes an assert fail or asks the *)
(* kernel for an operation it refuses.                                        *)
NoAssertFails == ~aborted

Watch == [fd \in Fds |-> IF fd \in DOMAIN epoll THEN epoll[fd] ELSE {}]

P == INSTANCE Poller WITH Interests <- Events, registered <- channels, watch <- Watch

(* The epoll set is what the channels are interested in, at every moment.     *)
ImplementsPoller == P!Spec
=============================================================================
