------------------------------ MODULE PollPoller ------------------------------
(* net/poller/PollPoller.cpp: an array of pollfd entries, and an index from   *)
(* descriptor to place in the array.  The entry of a channel without interest *)
(* stays in the array with the descriptor stored as -(fd + 1), which poll(2)  *)
(* skips.  Places count from 1 here and from 0 in the code.                   *)
EXTENDS Channel, Integers, Sequences, FiniteSets

CONSTANTS
    Fds,            \* socket descriptors, each with at most one channel at a time
    MaxDisabled     \* bound: channels registered without interest at one time

VARIABLES
    events,     \* each channel's events_
    channels,   \* the keys of channels_
    pollfds,    \* pollfds_: what poll(2) is given
    fdIdx,      \* fdInpollfdsIdx_
    reported,   \* activeChannels of the last poll
    aborted     \* an assert failed

vars == <<events, channels, pollfds, fdIdx, reported, aborted>>

Ignored(fd) == -(fd + 1)
Keys == Fds \cup {Ignored(fd) : fd \in Fds}

TypeOK ==
    /\ events \in [Fds -> SUBSET Events]
    /\ channels \subseteq Fds
    /\ pollfds \in Seq([fd : Keys, events : SUBSET Events])
    /\ DOMAIN fdIdx \subseteq Keys /\ \A key \in DOMAIN fdIdx : fdIdx[key] \in Nat
    /\ reported \subseteq Fds
    /\ aborted \in BOOLEAN

Init ==
    /\ events = [fd \in Fds |-> {}]
    /\ channels = {}
    /\ pollfds = << >>
    /\ fdIdx = [key \in {} |-> 0]
    /\ reported = {}
    /\ aborted = FALSE

(* std::map's operator[] = and erase.                                         *)
Assign(map, key, value) ==
    [k \in DOMAIN map \cup {key} |-> IF k = key THEN value ELSE map[k]]
Erase(map, key) == [k \in DOMAIN map \ {key} |-> map[k]]

(* An entry found through the index: in range and of the right descriptor.    *)
(* The memory behind the array's end holds entries of other descriptors.      *)
EntryIs(idx, keys) == idx \in DOMAIN pollfds /\ pollfds[idx].fd \in keys

Disabled == {fd \in channels : IsNoneEvent(events[fd])}

AddEntry(fd, interest) ==
    /\ fd \notin DOMAIN fdIdx
    /\ aborted' = (fd \in channels)
    /\ pollfds' = Append(pollfds, [fd |-> fd, events |-> interest])
    /\ channels' = channels \cup {fd}
    /\ fdIdx' = Assign(fdIdx, fd, Len(pollfds) + 1)

(* Mutants: the entry of a channel without interest keeps its descriptor, or  *)
(* does not get it back with a new interest.                                  *)
ChangeEntryPositive(fd, interest) ==
    /\ fd \in DOMAIN fdIdx
    /\ pollfds' = [pollfds EXCEPT ![fdIdx[fd]] = [fd |-> fd, events |-> interest]]
    /\ UNCHANGED <<channels, fdIdx, aborted>>

ChangeEntryKeepsIgnored(fd, interest) ==
    /\ fd \in DOMAIN fdIdx
    /\ pollfds' = [pollfds EXCEPT ![fdIdx[fd]] =
                      [fd |-> IF IsNoneEvent(interest) THEN Ignored(fd) ELSE @.fd,
                       events |-> interest]]
    /\ UNCHANGED <<channels, fdIdx, aborted>>

ChangeEntry(fd, interest) ==
    /\ fd \in DOMAIN fdIdx
    /\ IF fd \in channels /\ EntryIs(fdIdx[fd], {fd, Ignored(fd)})
       THEN /\ pollfds' = [pollfds EXCEPT ![fdIdx[fd]] =
                              [fd |-> IF IsNoneEvent(interest) THEN Ignored(fd) ELSE fd,
                               events |-> interest]]
            /\ UNCHANGED aborted
       ELSE aborted' = TRUE /\ UNCHANGED pollfds
    /\ UNCHANGED <<channels, fdIdx>>

UpdateChannel(fd, interest) ==
    /\ ~aborted
    /\ interest \in Updates(events[fd])
    /\ IsNoneEvent(interest) => Cardinality(Disabled \ {fd}) < MaxDisabled
    /\ events' = [events EXCEPT ![fd] = interest]
    /\ AddEntry(fd, interest) \/ ChangeEntry(fd, interest)
    /\ UNCHANGED reported

(* The descriptor whose place in the index changes when the last entry takes  *)
(* the place of a removed one: the code reads it from the entry as stored.    *)
MovedKey(entry) == entry.fd

(* Mutant: the index of the entry that was moved is not updated.              *)
RemoveEntryStaleIndex(fd) ==
    LET size == Len(pollfds)
    IN  /\ pollfds' = SubSeq([pollfds EXCEPT ![fdIdx[fd]] = pollfds[size]], 1, size - 1)
        /\ fdIdx' = Erase(fdIdx, fd)
        /\ channels' = channels \ {fd}

RemoveEntry(fd) ==
    LET idx  == fdIdx[fd]
        size == Len(pollfds)
        last == pollfds[size]
    IN  /\ pollfds' = SubSeq([pollfds EXCEPT ![idx] = last], 1, size - 1)
        /\ fdIdx' = Erase(IF idx = size THEN fdIdx ELSE Assign(fdIdx, MovedKey(last), idx), fd)
        /\ channels' = channels \ {fd}

RemoveChannel(fd) ==
    /\ ~aborted
    /\ fd \in channels /\ IsNoneEvent(events[fd])
    /\ IF fd \in DOMAIN fdIdx /\ EntryIs(fdIdx[fd], {Ignored(fd)})
       THEN RemoveEntry(fd) /\ UNCHANGED aborted
       ELSE aborted' = TRUE /\ UNCHANGED <<pollfds, fdIdx, channels>>
    /\ UNCHANGED <<events, reported>>

(* poll(2) sets revents in entries with a descriptor that is not negative;    *)
(* fillActiveChannels looks each of them up in channels_.                     *)
Poll ==
    /\ ~aborted
    /\ \E ready \in SUBSET {i \in DOMAIN pollfds : pollfds[i].fd >= 0} :
          LET fds == {pollfds[i].fd : i \in ready} IN
          IF fds \subseteq channels
          THEN reported' = fds /\ UNCHANGED aborted
          ELSE aborted' = TRUE /\ UNCHANGED reported
    /\ UNCHANGED <<events, channels, pollfds, fdIdx>>

Next ==
    \/ \E fd \in Fds : \E interest \in Updates(events[fd]) : UpdateChannel(fd, interest)
    \/ \E fd \in Fds : RemoveChannel(fd)
    \/ Poll

Spec == Init /\ [][Next]_vars

-----------------------------------------------------------------------------
(* Properties                                                                 *)

(* The index leads to each channel's own entry, which holds its interest, and *)
(* the array has no other entries.                                            *)
IndexInv ==
    /\ TypeOK
    /\ DOMAIN fdIdx = channels
    /\ Len(pollfds) = Cardinality(channels)
    /\ \A fd \in channels :
         /\ EntryIs(fdIdx[fd], {IF IsNoneEvent(events[fd]) THEN Ignored(fd) ELSE fd})
         /\ pollfds[fdIdx[fd]].events = events[fd]

(* No sequence of enable, disable and remove makes an assert fail.            *)
NoAssertFails == ~aborted

Watch == [fd \in Fds |->
            LET entries == {i \in DOMAIN pollfds : pollfds[i].fd = fd}
            IN  UNION {pollfds[i].events : i \in entries}]

P == INSTANCE Poller WITH Interests <- Events, registered <- channels, watch <- Watch

(* The array is what the channels are interested in, at every moment.         *)
ImplementsPoller == P!Spec
=============================================================================
