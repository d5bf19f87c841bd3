------------------------- MODULE DefaultPoller_proofs -------------------------
(* Theorems of DefaultPoller, and so of the two pollers, for any set of       *)
(* descriptors.                                                               *)
EXTENDS DefaultPoller, FiniteSetTheorems, SequenceTheorems, TLAPS

(* A user's next interest is a set of events, and never empty for a channel   *)
(* that had none.                                                             *)
LEMMA UpdatesType ==
    ASSUME NEW old \in SUBSET Events, NEW new \in Updates(old)
    PROVE  /\ new \in SUBSET Events
           /\ old = {} => new # {}
  BY DEF Updates, Events, EnableReadEvent, EnableWriteEvent, DisableReadEvent,
     DisableWriteEvent, DisableAllEvent, IsNoneEvent

-----------------------------------------------------------------------------
(* EpollPoller                                                                *)

(* What one channel's status promises, in a form that is easy to step.        *)
Agrees(fd) ==
    /\ fd \in channels <=> status[fd] # "KInit"
    /\ fd \in DOMAIN epoll <=> status[fd] = "KAdded"
    /\ fd \in DOMAIN epoll => epoll[fd] = events[fd]
    /\ status[fd] = "KAdded" <=> events[fd] # {}

LEMMA StatusInvParts == StatusInv <=> TypeOK /\ \A fd \in Fds : Agrees(fd)
  BY DEF StatusInv, Agrees

(* A status that agrees with the epoll set never asks for what the kernel     *)
(* refuses, so the update does what its operation says.                       *)
LEMMA UpdateEffect ==
    ASSUME StatusInv, NEW fd \in Fds, NEW interest \in Updates(events[fd]),
           UpdateChannel(fd, interest)
    PROVE  /\ interest \in SUBSET Events
           /\ events' = [events EXCEPT ![fd] = interest]
           /\ channels' = channels \cup {fd}
           /\ status' = [status EXCEPT ![fd] = IF interest = {} THEN "KDeleted" ELSE "KAdded"]
           /\ DOMAIN epoll' = IF interest = {} THEN DOMAIN epoll \ {fd} ELSE DOMAIN epoll \cup {fd}
           /\ \A g \in DOMAIN epoll' : epoll'[g] = IF g = fd THEN interest ELSE epoll[g]
           /\ aborted' = FALSE
  <1> DEFINE op == UpdateOperation(fd, interest)
  <1>1. events[fd] \in SUBSET Events /\ status[fd] \in {"KInit", "KAdded", "KDeleted"}
    BY DEF StatusInv, TypeOK
  <1>2. interest \in SUBSET Events /\ (events[fd] = {} => interest # {})
    BY <1>1, UpdatesType
  <1>3. Agrees(fd)
    BY StatusInvParts
  <1>4. CASE status[fd] = "KAdded" /\ interest = {}
    <2>1. op = "DEL" /\ fd \in DOMAIN epoll /\ fd \in channels
      BY <1>3, <1>4 DEF UpdateOperation, IsNoneEvent, Agrees
    <2>2. epoll' = [g \in DOMAIN epoll \ {fd} |-> epoll[g]]
      BY <2>1 DEF UpdateChannel, EpollCtl
    <2>3. aborted' = FALSE
      BY <2>1 DEF UpdateChannel, Refused
    <2> QED
      BY <1>2, <1>4, <2>1, <2>2, <2>3 DEF UpdateChannel, StatusAfter
  <1>5. CASE status[fd] = "KAdded" /\ interest # {}
    <2>1. op = "MOD" /\ fd \in DOMAIN epoll /\ fd \in channels
      BY <1>3, <1>5 DEF UpdateOperation, IsNoneEvent, Agrees
    <2>2. epoll' = [epoll EXCEPT ![fd] = interest]
      BY <2>1 DEF UpdateChannel, EpollCtl
    <2>3. aborted' = FALSE
      BY <2>1 DEF UpdateChannel, Refused
    <2> QED
      BY <1>2, <1>5, <2>1, <2>2, <2>3 DEF UpdateChannel, StatusAfter
  <1>6. CASE status[fd] \in {"KInit", "KDeleted"}
    <2>1. op = "ADD" /\ fd \notin DOMAIN epoll /\ interest # {}
      BY <1>2, <1>3, <1>6 DEF UpdateOperation, Agrees
    <2>2. epoll' = [g \in DOMAIN epoll \cup {fd} |-> IF g = fd THEN interest ELSE epoll[g]]
      BY <2>1 DEF UpdateChannel, EpollCtl
    <2>3. status[fd] # "KInit" => fd \in channels
      BY <1>3 DEF Agrees
    <2>4. aborted' = FALSE
      BY <2>1, <2>3 DEF UpdateChannel, Refused
    <2> QED
      BY <1>2, <2>1, <2>2, <2>3, <2>4 DEF UpdateChannel, StatusAfter
  <1> QED
    BY <1>1, <1>4, <1>5, <1>6

LEMMA EpollUpdateStep ==
    ASSUME StatusInv, NEW fd \in Fds, NEW interest \in Updates(events[fd]),
           UpdateChannel(fd, interest)
    PROVE  StatusInv' /\ ~aborted'
  <1>1. TypeOK /\ \A g \in Fds : Agrees(g)
    BY StatusInvParts
  <1>2. /\ interest \in SUBSET Events
        /\ events' = [events EXCEPT ![fd] = interest]
        /\ channels' = channels \cup {fd}
        /\ status' = [status EXCEPT ![fd] = IF interest = {} THEN "KDeleted" ELSE "KAdded"]
        /\ DOMAIN epoll' = IF interest = {} THEN DOMAIN epoll \ {fd} ELSE DOMAIN epoll \cup {fd}
        /\ \A g \in DOMAIN epoll' : epoll'[g] = IF g = fd THEN interest ELSE epoll[g]
        /\ aborted' = FALSE
    BY UpdateEffect
  <1>3. UNCHANGED <<slots, reported>>
    BY DEF UpdateChannel
  <1>4. TypeOK'
    BY <1>1, <1>2, <1>3 DEF TypeOK
  <1>5. ASSUME NEW g \in Fds PROVE Agrees(g)'
    BY <1>1, <1>2 DEF Agrees, TypeOK
  <1> QED
    BY <1>2, <1>4, <1>5 DEF StatusInv, Agrees

LEMMA EpollRemoveStep ==
    ASSUME StatusInv, NEW fd \in Fds, RemoveChannel(fd)
    PROVE  StatusInv' /\ ~aborted'
  <1>1. TypeOK /\ \A g \in Fds : Agrees(g)
    BY StatusInvParts
  (* A channel is removed when it has no interest: it is out of the epoll set *)
  (* already.                                                                 *)
  <1>2. status[fd] = "KDeleted" /\ fd \notin DOMAIN epoll
    BY <1>1 DEF RemoveChannel, IsNoneEvent, Agrees, TypeOK
  <1>3. UNCHANGED <<epoll, events, slots, reported>> /\ aborted' = FALSE
    BY <1>2 DEF RemoveChannel
  <1>4. channels' = channels \ {fd} /\ status' = [status EXCEPT ![fd] = "KInit"]
    BY DEF RemoveChannel
  <1>5. TypeOK'
    BY <1>1, <1>3, <1>4 DEF TypeOK
  <1>6. ASSUME NEW g \in Fds PROVE Agrees(g)'
    BY <1>1, <1>2, <1>3, <1>4 DEF Agrees, TypeOK
  <1> QED
    BY <1>3, <1>5, <1>6 DEF StatusInv, Agrees

LEMMA EpollPollStep ==
    ASSUME StatusInv, ~aborted, Poll
    PROVE  StatusInv' /\ ~aborted'
  BY DEF StatusInv, TypeOK, Poll

-----------------------------------------------------------------------------
(* PollPoller, while no two channels are without interest at one time         *)

(* The instance of PollPoller brings operators of its own, equal to those of  *)
(* the modules that both pollers extend.                                      *)
LEMMA SameOperators ==
    /\ PP!Events = Events
    /\ \A old : PP!Updates(old) = Updates(old)
    /\ \A interest : PP!IsNoneEvent(interest) <=> interest = {}
    /\ \A S : PP!Cardinality(S) = Cardinality(S)
  <1>1. PP!Events = Events /\ \A interest : PP!IsNoneEvent(interest) <=> interest = {}
    BY DEF PP!Events, Events, PP!IsNoneEvent
  <1>2. \A old : PP!Updates(old) = Updates(old)
    BY DEF PP!Updates, Updates, PP!EnableReadEvent, EnableReadEvent, PP!EnableWriteEvent,
       EnableWriteEvent, PP!DisableReadEvent, DisableReadEvent, PP!DisableWriteEvent,
       DisableWriteEvent, PP!DisableAllEvent, DisableAllEvent, PP!IsNoneEvent, IsNoneEvent
  <1>3. \A S : PP!Cardinality(S) = Cardinality(S)
    BY DEF PP!Cardinality, Cardinality, PP!IsFiniteSet, IsFiniteSet
  <1> QED
    BY <1>1, <1>2, <1>3

(* IndexInv says that every channel has its entry; the converse, and that two *)
(* descriptors do not share a negative key, is what removal needs: the last   *)
(* entry, which it moves, then stores its descriptor as it is.                *)
Owned == \A i \in DOMAIN pollfds : \E fd \in channels : fdIdx[fd] = i
OneDisabled == \A f, g \in PP!Disabled : f = g
NoInterestLeft == \A fd \in Fds \ channels : events[fd] = {}

PollInv ==
    /\ PP!IndexInv
    /\ IsFiniteSet(channels)
    /\ Owned
    /\ OneDisabled
    /\ NoInterestLeft
    /\ ~aborted

Entry == [fd : PP!Keys, events : SUBSET Events]
KeyOf(fd) == IF events[fd] = {} THEN PP!Ignored(fd) ELSE fd

LEMMA FdType ==
    ASSUME NEW fd \in Fds
    PROVE  /\ fd \in Nat /\ PP!Ignored(fd) \in Int /\ PP!Ignored(fd) < 0
           /\ fd \in PP!Keys /\ PP!Ignored(fd) \in PP!Keys
           /\ \A g \in Fds : PP!Ignored(fd) = PP!Ignored(g) => fd = g
  BY PollAssumption DEF PollAssumption, PP!Keys, PP!Ignored

(* IndexInv, taken apart.                                                     *)
HasEntry(g) ==
    /\ fdIdx[g] \in DOMAIN pollfds
    /\ pollfds[fdIdx[g]].fd = KeyOf(g)
    /\ pollfds[fdIdx[g]].events = events[g]

IndexParts ==
    /\ pollfds \in Seq(Entry)
    /\ events \in [Fds -> SUBSET Events]
    /\ channels \subseteq Fds /\ reported \subseteq Fds /\ aborted \in BOOLEAN
    /\ DOMAIN fdIdx = channels
    /\ Len(pollfds) = Cardinality(channels)
    /\ \A g \in channels : HasEntry(g)

LEMMA IndexInvParts == PP!IndexInv <=> IndexParts
  <1>1. \A g \in channels :
           HasEntry(g) <=>
              /\ PP!EntryIs(fdIdx[g], {IF PP!IsNoneEvent(events[g]) THEN PP!Ignored(g) ELSE g})
              /\ pollfds[fdIdx[g]].events = events[g]
    BY SameOperators DEF HasEntry, PP!EntryIs, KeyOf
  <1>2. ASSUME PP!TypeOK, DOMAIN fdIdx = channels
        PROVE  /\ pollfds \in Seq(Entry) /\ events \in [Fds -> SUBSET Events]
               /\ channels \subseteq Fds /\ reported \subseteq Fds /\ aborted \in BOOLEAN
    BY <1>2, SameOperators DEF PP!TypeOK, Entry
  <1>3. ASSUME pollfds \in Seq(Entry), events \in [Fds -> SUBSET Events],
               channels \subseteq Fds, reported \subseteq Fds, aborted \in BOOLEAN,
               DOMAIN fdIdx = channels, \A g \in channels : HasEntry(g)
        PROVE  PP!TypeOK
    <2>1. channels \subseteq PP!Keys
      BY <1>3, FdType
    <2>2. DOMAIN pollfds \subseteq Nat
      BY <1>3, LenProperties
    <2> QED
      BY <1>3, <2>1, <2>2, SameOperators DEF PP!TypeOK, Entry, HasEntry
  <1> QED
    BY <1>1, <1>2, <1>3, SameOperators DEF PP!IndexInv, IndexParts

LEMMA IndexInvPartsNext == PP!IndexInv' <=> IndexParts'
  BY IndexInvParts, PTL

(* Two channels do not share an entry.                                        *)
LEMMA OwnEntry ==
    ASSUME channels \subseteq Fds, NEW f \in channels, NEW g \in channels,
           HasEntry(f), HasEntry(g), fdIdx[f] = fdIdx[g]
    PROVE  f = g
  <1>1. KeyOf(f) = KeyOf(g)
    BY DEF HasEntry
  <1> QED
    BY <1>1, FdType DEF KeyOf

(* A channel that the poller does not know gets an entry at the end.          *)
LEMMA AddEffect ==
    ASSUME PollInv, NEW fd \in Fds, NEW interest \in SUBSET Events, interest # {},
           events' = [events EXCEPT ![fd] = interest], PP!AddEntry(fd, interest)
    PROVE  /\ channels' = channels \cup {fd} /\ aborted' = FALSE
           /\ pollfds' \in Seq(Entry) /\ Len(pollfds') = Cardinality(channels')
           /\ DOMAIN fdIdx' = channels' /\ IsFiniteSet(channels')
           /\ \A g \in channels' : HasEntry(g)'
           /\ Owned'
  <1> DEFINE e == [fd |-> fd, events |-> interest]
             n == Len(pollfds) + 1
  <1>1. /\ pollfds \in Seq(Entry) /\ events \in [Fds -> SUBSET Events] /\ channels \subseteq Fds
        /\ DOMAIN fdIdx = channels /\ Len(pollfds) = Cardinality(channels)
        /\ \A g \in channels : HasEntry(g)
        /\ IsFiniteSet(channels) /\ Owned
    BY IndexInvParts DEF PollInv, IndexParts
  <1>2. fd \notin channels /\ channels' = channels \cup {fd} /\ aborted' = FALSE
    <2>1. fd \notin channels /\ channels' = channels \cup {fd}
      BY <1>1 DEF PP!AddEntry
    <2>2. (fd \in channels) = FALSE
      BY <2>1
    <2>3. aborted' = FALSE
      BY <2>2, Zenon DEF PP!AddEntry
    <2> QED
      BY <2>1, <2>3
  <1>3. e \in Entry
    BY FdType DEF Entry
  <1>4. /\ pollfds' = Append(pollfds, e) /\ pollfds' \in Seq(Entry)
        /\ Len(pollfds) \in Nat /\ Len(pollfds') = n /\ pollfds'[n] = e
        /\ \A i \in 1..Len(pollfds) : pollfds'[i] = pollfds[i]
        /\ DOMAIN pollfds = 1..Len(pollfds) /\ DOMAIN pollfds' = 1..n
    BY <1>1, <1>3, AppendProperties, LenProperties DEF PP!AddEntry
  <1>5. IsFiniteSet(channels') /\ Cardinality(channels') = n
    BY <1>1, <1>2, FS_AddElement
  <1>6. /\ DOMAIN fdIdx' = channels' /\ fdIdx'[fd] = n
        /\ \A g \in channels : fdIdx'[g] = fdIdx[g]
    BY <1>1, <1>2 DEF PP!AddEntry, PP!Assign
  <1>7. HasEntry(fd)'
    BY <1>1, <1>4, <1>6 DEF HasEntry, KeyOf
  <1>8. ASSUME NEW g \in channels PROVE HasEntry(g)'
    <2>1. events'[g] = events[g] /\ g # fd
      BY <1>1, <1>2
    <2> QED
      BY <1>1, <1>4, <1>6, <2>1 DEF HasEntry, KeyOf
  <1>9. Owned'
    BY <1>1, <1>2, <1>4, <1>6 DEF Owned
  <1> QED
    BY <1>2, <1>4, <1>5, <1>6, <1>7, <1>8, <1>9

(* A channel that it knows keeps its place.                                   *)
LEMMA ChangeEffect ==
    ASSUME PollInv, NEW fd \in Fds, NEW interest \in SUBSET Events,
           events' = [events EXCEPT ![fd] = interest], PP!ChangeEntry(fd, interest)
    PROVE  /\ channels' = channels \cup {fd} /\ aborted' = FALSE
           /\ pollfds' \in Seq(Entry) /\ Len(pollfds') = Cardinality(channels')
           /\ DOMAIN fdIdx' = channels' /\ IsFiniteSet(channels')
           /\ \A g \in channels' : HasEntry(g)'
           /\ Owned'
  <1> DEFINE idx == fdIdx[fd]
             e   == [fd |-> IF interest = {} THEN PP!Ignored(fd) ELSE fd, events |-> interest]
  <1>1. /\ pollfds \in Seq(Entry) /\ events \in [Fds -> SUBSET Events] /\ channels \subseteq Fds
        /\ DOMAIN fdIdx = channels /\ Len(pollfds) = Cardinality(channels)
        /\ \A g \in channels : HasEntry(g)
        /\ IsFiniteSet(channels) /\ Owned /\ aborted = FALSE
    BY IndexInvParts DEF PollInv, IndexParts
  <1>2. fd \in channels /\ HasEntry(fd) /\ UNCHANGED <<channels, fdIdx>>
    BY <1>1 DEF PP!ChangeEntry
  <1>3. PP!EntryIs(idx, {fd, PP!Ignored(fd)})
    BY <1>2 DEF HasEntry, KeyOf, PP!EntryIs
  <1>4. pollfds' = [pollfds EXCEPT ![idx] = e] /\ aborted' = FALSE
    BY <1>1, <1>2, <1>3, SameOperators DEF PP!ChangeEntry
  <1>5. e \in Entry
    BY FdType DEF Entry
  <1>6. DOMAIN pollfds = 1..Len(pollfds) /\ idx \in 1..Len(pollfds)
    BY <1>1, <1>2, LenProperties DEF HasEntry
  <1>7. /\ pollfds' \in Seq(Entry) /\ Len(pollfds') = Len(pollfds)
        /\ DOMAIN pollfds' = DOMAIN pollfds /\ pollfds'[idx] = e
        /\ \A i \in DOMAIN pollfds : i # idx => pollfds'[i] = pollfds[i]
    BY <1>1, <1>4, <1>5, <1>6, ExceptSeq
  <1>8. HasEntry(fd)'
    BY <1>1, <1>2, <1>6, <1>7 DEF HasEntry, KeyOf
  <1>9. ASSUME NEW g \in channels, g # fd PROVE HasEntry(g)'
    <2>1. events'[g] = events[g]
      BY <1>1, <1>9
    <2>2. fdIdx[g] # idx
      BY <1>1, <1>2, <1>9, OwnEntry
    <2> QED
      BY <1>1, <1>2, <1>7, <2>1, <2>2 DEF HasEntry, KeyOf
  <1>10. Owned'
    BY <1>1, <1>2, <1>7 DEF Owned
  <1> QED
    BY <1>1, <1>2, <1>4, <1>7, <1>8, <1>9, <1>10

(* A bound of one channel without interest, as the guard of the update counts *)
(* them.                                                                      *)
LEMMA NoOtherDisabled ==
    ASSUME PollInv, MaxDisabled <= 1, NEW fd \in Fds,
           PP!Cardinality(PP!Disabled \ {fd}) < MaxDisabled
    PROVE  PP!Disabled \subseteq {fd}
  <1>1. IsFiniteSet(PP!Disabled \ {fd})
    BY FS_Subset DEF PollInv, PP!Disabled
  <1>2. Cardinality(PP!Disabled \ {fd}) = 0
    BY <1>1, FS_CardinalityType, SameOperators, PollAssumption DEF PollAssumption
  <1> QED
    BY <1>1, <1>2, FS_EmptySet

LEMMA PollUpdateEffect ==
    ASSUME PollInv, NEW fd \in Fds, NEW interest \in Updates(events[fd]),
           PP!UpdateChannel(fd, interest)
    PROVE  /\ interest \in SUBSET Events
           /\ events' = [events EXCEPT ![fd] = interest] /\ UNCHANGED reported
           /\ channels' = channels \cup {fd} /\ aborted' = FALSE
           /\ pollfds' \in Seq(Entry) /\ Len(pollfds') = Cardinality(channels')
           /\ DOMAIN fdIdx' = channels' /\ IsFiniteSet(channels')
           /\ \A g \in channels' : HasEntry(g)'
           /\ Owned'
  <1>1. events \in [Fds -> SUBSET Events] /\ DOMAIN fdIdx = channels
    BY IndexInvParts DEF PollInv, IndexParts
  <1>2. interest \in SUBSET Events /\ (events[fd] = {} => interest # {})
    BY <1>1, UpdatesType
  <1>3. events' = [events EXCEPT ![fd] = interest] /\ UNCHANGED reported
    BY DEF PP!UpdateChannel
  <1>4. PP!AddEntry(fd, interest) => interest # {}
    BY <1>1, <1>2 DEF PP!AddEntry, PollInv, NoInterestLeft
  <1> QED
    BY <1>2, <1>3, <1>4, AddEffect, ChangeEffect DEF PP!UpdateChannel

LEMMA PollUpdateStep ==
    ASSUME PollInv, MaxDisabled <= 1, NEW fd \in Fds, NEW interest \in Updates(events[fd]),
           PP!UpdateChannel(fd, interest)
    PROVE  PollInv'
  <1>1. /\ events \in [Fds -> SUBSET Events] /\ channels \subseteq Fds /\ reported \subseteq Fds
        /\ DOMAIN fdIdx = channels
    BY IndexInvParts DEF PollInv, IndexParts
  <1>2. interest \in SUBSET Events
    BY PollUpdateEffect
  <1>3. events' = [events EXCEPT ![fd] = interest] /\ UNCHANGED reported
    BY DEF PP!UpdateChannel
  <1>5. /\ channels' = channels \cup {fd} /\ aborted' = FALSE
        /\ pollfds' \in Seq(Entry) /\ Len(pollfds') = Cardinality(channels')
        /\ DOMAIN fdIdx' = channels' /\ IsFiniteSet(channels')
        /\ \A g \in channels' : HasEntry(g)'
        /\ Owned'
    BY PollUpdateEffect
  <1>6. PP!IndexInv'
    BY <1>1, <1>2, <1>3, <1>5, IndexInvPartsNext DEF IndexParts
  <1>7. OneDisabled'
    <2>1. interest = {} => PP!Disabled \subseteq {fd}
      BY NoOtherDisabled, SameOperators DEF PP!UpdateChannel
    <2>2. \A g \in PP!Disabled' : g = fd \/ g \in PP!Disabled
      BY <1>1, <1>3, <1>5, SameOperators DEF PP!Disabled
    <2>3. interest # {} => fd \notin PP!Disabled'
      BY <1>1, <1>3, SameOperators DEF PP!Disabled
    <2> QED
      BY <2>1, <2>2, <2>3 DEF OneDisabled, PollInv
  <1>8. NoInterestLeft'
    BY <1>1, <1>3, <1>5 DEF NoInterestLeft, PollInv
  <1> QED
    BY <1>2, <1>5, <1>6, <1>7, <1>8 DEF PollInv

(* The last entry takes the place of the removed one, and the index follows:  *)
(* the channel that owns the last entry has interest, so it is found by the   *)
(* descriptor that the entry stores.                                          *)
LEMMA RemoveEffect ==
    ASSUME PollInv, NEW fd \in Fds, PP!RemoveChannel(fd)
    PROVE  LET idx  == fdIdx[fd]
               size == Len(pollfds)
           IN  /\ fd \in channels /\ events[fd] = {} /\ channels' = channels \ {fd}
               /\ UNCHANGED <<events, reported>> /\ aborted' = FALSE
               /\ pollfds' \in Seq(Entry) /\ Len(pollfds') = size - 1
               /\ DOMAIN pollfds' = 1..(size - 1)
               /\ \A i \in 1..(size - 1) :
                     pollfds'[i] = IF i = idx THEN pollfds[size] ELSE pollfds[i]
               /\ DOMAIN fdIdx' = channels'
               /\ \A g \in channels' : fdIdx'[g] = IF fdIdx[g] = size THEN idx ELSE fdIdx[g]
  <1> DEFINE idx    == fdIdx[fd]
             size   == Len(pollfds)
             last   == pollfds[size]
             filled == [pollfds EXCEPT ![idx] = last]
  <1>1. /\ pollfds \in Seq(Entry) /\ channels \subseteq Fds /\ aborted = FALSE
        /\ DOMAIN fdIdx = channels /\ Owned
        /\ \A g \in channels : HasEntry(g)
    BY IndexInvParts DEF PollInv, IndexParts
  <1>2. fd \in channels /\ events[fd] = {} /\ HasEntry(fd)
    BY <1>1, SameOperators DEF PP!RemoveChannel
  <1>3. PP!EntryIs(idx, {PP!Ignored(fd)})
    BY <1>2 DEF HasEntry, KeyOf, PP!EntryIs
  <1>4. PP!RemoveEntry(fd) /\ UNCHANGED <<events, reported, aborted>>
    BY <1>1, <1>2, <1>3 DEF PP!RemoveChannel
  <1>5. DOMAIN pollfds = 1..size /\ size \in Nat /\ idx \in 1..size /\ size \in 1..size
    BY <1>1, <1>2, LenProperties DEF HasEntry
  <1>6. last \in Entry
    BY <1>1, <1>5, ElementOfSeq
  <1>7. /\ filled \in Seq(Entry) /\ Len(filled) = size
        /\ \A i \in 1..size : filled[i] = IF i = idx THEN last ELSE pollfds[i]
    BY <1>1, <1>5, <1>6, ExceptSeq
  <1>8. pollfds' = SubSeq(filled, 1, size - 1)
    BY <1>4 DEF PP!RemoveEntry
  <1>9. \A i \in 1..(size - 1) : filled[i] \in Entry
    BY <1>5, <1>7, ElementOfSeq
  <1>10. /\ pollfds' \in Seq(Entry) /\ Len(pollfds') = size - 1
         /\ \A i \in 1..(size - 1) : pollfds'[i] = filled[i]
    BY <1>5, <1>8, <1>9, SubSeqProperties
  <1>11. DOMAIN pollfds' = 1..(size - 1)
    BY <1>10, LenProperties
  <1>12. PICK own \in channels : fdIdx[own] = size
    BY <1>1, <1>5 DEF Owned
  <1>13. /\ DOMAIN fdIdx' = channels \ {fd}
         /\ \A g \in channels \ {fd} : fdIdx'[g] = IF fdIdx[g] = size THEN idx ELSE fdIdx[g]
    <2>1. CASE idx = size
      <3>1. fdIdx' = PP!Erase(fdIdx, fd)
        BY <1>4, <2>1 DEF PP!RemoveEntry
      <3> QED
        BY <1>1, <2>1, <3>1 DEF PP!Erase
    <2>2. CASE idx # size
      <3>1. own # fd /\ own \in Fds
        BY <1>1, <1>12, <2>2
      <3>2. events[own] # {}
        BY <1>2, <1>12, <3>1, SameOperators DEF PollInv, OneDisabled, PP!Disabled
      <3>3. last.fd = own
        BY <1>1, <1>12, <3>2 DEF HasEntry, KeyOf
      <3>4. fdIdx' = PP!Erase(PP!Assign(fdIdx, own, idx), fd)
        BY <1>4, <2>2, <3>3 DEF PP!RemoveEntry, PP!MovedKey
      <3>5. \A g \in channels : fdIdx[g] = size <=> g = own
        BY <1>1, <1>12, OwnEntry
      <3> QED
        BY <1>1, <3>1, <3>4, <3>5 DEF PP!Erase, PP!Assign
    <2> QED
      BY <2>1, <2>2
  <1>14. channels' = channels \ {fd}
    BY <1>4 DEF PP!RemoveEntry
  <1> QED
    BY <1>1, <1>2, <1>4, <1>5, <1>7, <1>10, <1>11, <1>13, <1>14

LEMMA PollRemoveStep ==
    ASSUME PollInv, NEW fd \in Fds, PP!RemoveChannel(fd)
    PROVE  PollInv'
  <1> DEFINE idx  == fdIdx[fd]
             size == Len(pollfds)
  <1>1. /\ fd \in channels /\ events[fd] = {} /\ channels' = channels \ {fd}
        /\ UNCHANGED <<events, reported>> /\ aborted' = FALSE
        /\ pollfds' \in Seq(Entry) /\ Len(pollfds') = size - 1
        /\ DOMAIN pollfds' = 1..(size - 1)
        /\ \A i \in 1..(size - 1) : pollfds'[i] = IF i = idx THEN pollfds[size] ELSE pollfds[i]
        /\ DOMAIN fdIdx' = channels'
        /\ \A g \in channels' : fdIdx'[g] = IF fdIdx[g] = size THEN idx ELSE fdIdx[g]
    BY RemoveEffect
  <1>2. /\ pollfds \in Seq(Entry) /\ channels \subseteq Fds /\ DOMAIN fdIdx = channels
        /\ events \in [Fds -> SUBSET Events] /\ reported \subseteq Fds
        /\ \A g \in channels : HasEntry(g)
        /\ IsFiniteSet(channels) /\ Owned /\ size = Cardinality(channels)
    BY IndexInvParts DEF PollInv, IndexParts
  <1>3. DOMAIN pollfds = 1..size /\ size \in Nat
    BY <1>2, LenProperties
  <1>4. \A g \in channels : fdIdx[g] \in 1..size
    BY <1>2, <1>3 DEF HasEntry
  <1>5. \A g \in channels' : fdIdx[g] # idx
    BY <1>1, <1>2, OwnEntry
  <1>6. ASSUME NEW g \in channels' PROVE HasEntry(g)'
    <2>1. fdIdx'[g] \in 1..(size - 1)
      BY <1>1, <1>3, <1>4, <1>5
    <2>2. pollfds'[fdIdx'[g]] = pollfds[fdIdx[g]]
      BY <1>1, <1>4, <1>5, <2>1
    <2> QED
      BY <1>1, <1>2, <2>1, <2>2 DEF HasEntry, KeyOf
  <1>7. IsFiniteSet(channels') /\ Cardinality(channels') = size - 1
    BY <1>1, <1>2, FS_RemoveElement
  <1>8. PP!IndexInv'
    BY <1>1, <1>2, <1>6, <1>7, IndexInvPartsNext DEF IndexParts
  <1>9. Owned'
    <2>1. ASSUME NEW i \in 1..(size - 1) PROVE \E g \in channels' : fdIdx'[g] = i
      <3>0. i \in DOMAIN pollfds /\ size \in DOMAIN pollfds
        BY <1>3
      <3>1. PICK g \in channels : fdIdx[g] = IF i = idx THEN size ELSE i
        BY <1>2, <3>0 DEF Owned
      <3>2. g # fd
        BY <1>3, <1>4, <3>1
      <3> QED
        BY <1>1, <1>3, <3>1, <3>2
    <2> QED
      BY <1>1, <2>1 DEF Owned
  <1>10. OneDisabled' /\ NoInterestLeft'
    BY <1>1, <1>2, SameOperators DEF PollInv, OneDisabled, NoInterestLeft, PP!Disabled
  <1> QED
    BY <1>1, <1>7, <1>8, <1>9, <1>10 DEF PollInv

(* poll(2) skips the entries without interest, and every other entry names a  *)
(* channel of channels_.                                                      *)
LEMMA PollPollStep ==
    ASSUME PollInv, PP!Poll
    PROVE  /\ PollInv'
           /\ UNCHANGED <<events, channels>>
           /\ \A fd \in reported' : fd \in channels /\ events[fd] # {}
  <1>1. /\ pollfds \in Seq(Entry) /\ channels \subseteq Fds /\ DOMAIN fdIdx = channels
        /\ events \in [Fds -> SUBSET Events] /\ reported \subseteq Fds
        /\ Len(pollfds) = Cardinality(channels) /\ aborted = FALSE
        /\ \A g \in channels : HasEntry(g)
        /\ IsFiniteSet(channels) /\ Owned
    BY IndexInvParts DEF PollInv, IndexParts
  <1>2. PICK ready \in SUBSET {i \in DOMAIN pollfds : pollfds[i].fd >= 0} :
           LET fds == {pollfds[i].fd : i \in ready} IN
           IF fds \subseteq channels
           THEN reported' = fds /\ UNCHANGED aborted
           ELSE aborted' = TRUE /\ UNCHANGED reported
    BY DEF PP!Poll
  <1>3. ASSUME NEW i \in ready
        PROVE  pollfds[i].fd \in channels /\ events[pollfds[i].fd] # {}
    <2>1. i \in DOMAIN pollfds /\ pollfds[i].fd >= 0
      BY <1>2
    <2>2. PICK g \in channels : fdIdx[g] = i
      BY <1>1, <2>1 DEF Owned
    <2>3. pollfds[i].fd = KeyOf(g)
      BY <1>1, <2>2 DEF HasEntry
    <2>4. PP!Ignored(g) \in Int /\ PP!Ignored(g) < 0
      BY <1>1, FdType
    <2>5. events[g] # {}
      BY <2>1, <2>3, <2>4 DEF KeyOf
    <2> QED
      BY <2>2, <2>3, <2>5 DEF KeyOf
  <1>4. reported' = {pollfds[i].fd : i \in ready} /\ aborted' = FALSE
    BY <1>1, <1>2, <1>3
  <1>5. UNCHANGED <<events, channels, pollfds, fdIdx>>
    BY DEF PP!Poll
  <1>6. reported' \subseteq Fds
    BY <1>1, <1>3, <1>4
  <1>7. \A g \in channels : HasEntry(g)'
    BY <1>1, <1>5 DEF HasEntry, KeyOf
  <1>8. PP!IndexInv'
    BY <1>1, <1>4, <1>5, <1>6, <1>7, IndexInvPartsNext DEF IndexParts
  <1>9. Owned' /\ OneDisabled' /\ NoInterestLeft'
    BY <1>5 DEF PollInv, Owned, OneDisabled, NoInterestLeft, PP!Disabled
  <1> QED
    BY <1>1, <1>3, <1>4, <1>5, <1>8, <1>9 DEF PollInv

-----------------------------------------------------------------------------
(* Both pollers                                                               *)

EpollInv == pollerType = "EpollPoller" => StatusInv /\ ~aborted

LEMMA EpollInvInit == NewDefaultPoller => EpollInv
  <1> SUFFICES ASSUME Init PROVE StatusInv /\ ~aborted
    BY DEF NewDefaultPoller, EpollInv
  <1>1. TypeOK
    BY EpollAssumption DEF Init, TypeOK, EpollAssumption
  <1>2. ASSUME NEW fd \in Fds PROVE Agrees(fd)
    BY <1>2 DEF Init, Agrees
  <1> QED
    BY <1>1, <1>2, StatusInvParts DEF Init

LEMMA EpollInvStep == EpollInv /\ [PollerNext]_pollerVars => EpollInv'
  <1> SUFFICES ASSUME EpollInv, [PollerNext]_pollerVars, pollerType' = "EpollPoller"
               PROVE  StatusInv' /\ ~aborted'
    BY DEF EpollInv
  <1>1. pollerType = "EpollPoller" /\ StatusInv /\ ~aborted
    BY DEF EpollInv, PollerNext, pollerVars
  <1>2. ASSUME NEW fd \in Fds, NEW interest \in Updates(events[fd]), UpdateChannel(fd, interest)
        PROVE  StatusInv' /\ ~aborted'
    BY <1>1, <1>2, EpollUpdateStep
  <1>3. ASSUME NEW fd \in Fds, RemoveChannel(fd) PROVE StatusInv' /\ ~aborted'
    BY <1>1, <1>3, EpollRemoveStep
  <1>4. CASE Poll
    BY <1>1, <1>4, EpollPollStep
  <1>5. CASE UNCHANGED pollerVars
    BY <1>1, <1>5 DEF pollerVars, vars, StatusInv, TypeOK
  <1> QED
    BY <1>1, <1>2, <1>3, <1>4, <1>5 DEF PollerNext, EpollNext, PollNext, Next

LEMMA EpollInvariant == PollerSpec => []EpollInv
  BY EpollInvInit, EpollInvStep, PTL DEF PollerSpec

(* EpollPoller: a channel's status_ tells, after every updateChannel and      *)
(* removeChannel, whether the descriptor is in the epoll set and the channel  *)
(* in channels_, and the set holds the channel's events_.                     *)
THEOREM EpollKeepsStatus == PollerSpec => []EpollStatusInv
  <1>1. EpollInv => EpollStatusInv
    BY DEF EpollInv, EpollStatusInv
  <1> QED
    BY <1>1, EpollInvariant, PTL

(* EpollPoller: no assert of updateChannel or removeChannel fails, and        *)
(* epoll_ctl refuses no operation that updateOperator2Poller asks for.        *)
THEOREM EpollNeverAborts == PollerSpec => [](pollerType = "EpollPoller" => NoAssertFails)
  <1>1. EpollInv => (pollerType = "EpollPoller" => NoAssertFails)
    BY DEF EpollInv, NoAssertFails
  <1> QED
    BY <1>1, EpollInvariant, PTL

-----------------------------------------------------------------------------
PollerInv ==
    /\ pollerType \in {"EpollPoller", "PollPoller"}
    /\ EpollInv
    /\ pollerType = "PollPoller" => PollInv

LEMMA PollInvInit == PP!Init => PollInv
  <1> SUFFICES ASSUME PP!Init PROVE PollInv
    OBVIOUS
  <1>1. /\ events = [fd \in Fds |-> {}] /\ channels = {} /\ pollfds = << >>
        /\ fdIdx = [key \in {} |-> 0] /\ reported = {} /\ aborted = FALSE
    BY DEF PP!Init
  <1>2. pollfds \in Seq(Entry) /\ Len(pollfds) = 0 /\ DOMAIN pollfds = {}
    BY <1>1
  <1>3. IsFiniteSet(channels) /\ Cardinality(channels) = 0
    BY <1>1, FS_EmptySet
  <1>4. PP!IndexInv
    BY <1>1, <1>2, <1>3, IndexInvParts DEF IndexParts
  <1>5. Owned /\ OneDisabled /\ NoInterestLeft
    BY <1>1, <1>2 DEF Owned, OneDisabled, NoInterestLeft, PP!Disabled
  <1> QED
    BY <1>1, <1>3, <1>4, <1>5 DEF PollInv

LEMMA PollInvUnchanged == PollInv /\ UNCHANGED pollerVars => PollInv'
  <1> SUFFICES ASSUME PollInv, UNCHANGED pollerVars PROVE PollInv'
    OBVIOUS
  <1>1. UNCHANGED <<events, channels, pollfds, fdIdx, reported, aborted>>
    BY DEF pollerVars, vars, pollVars
  <1>2. IndexParts'
    BY <1>1, IndexInvParts DEF PollInv, IndexParts, HasEntry, KeyOf
  <1>3. PP!IndexInv'
    BY <1>2, IndexInvPartsNext
  <1> QED
    BY <1>1, <1>3 DEF PollInv, Owned, OneDisabled, NoInterestLeft, PP!Disabled

LEMMA PollerInvInit == NewDefaultPoller => PollerInv
  BY EpollInvInit, PollInvInit DEF NewDefaultPoller, PollerInv

LEMMA PollerInvStep ==
    ASSUME MaxDisabled <= 1
    PROVE  PollerInv /\ [PollerNext]_pollerVars => PollerInv'
  <1> SUFFICES ASSUME PollerInv, [PollerNext]_pollerVars PROVE PollerInv'
    OBVIOUS
  <1>1. UNCHANGED pollerType
    BY DEF PollerNext, pollerVars
  <1>2. EpollInv'
    BY EpollInvStep DEF PollerInv
  <1>3. ASSUME pollerType = "PollPoller" PROVE PollInv'
    <2>1. PollInv
      BY <1>3 DEF PollerInv
    <2>2. CASE PP!Next
      <3>1. \/ \E fd \in Fds : \E interest \in Updates(events[fd]) : PP!UpdateChannel(fd, interest)
            \/ \E fd \in Fds : PP!RemoveChannel(fd)
            \/ PP!Poll
        BY <2>2, SameOperators DEF PP!Next
      <3> QED
        BY <2>1, <3>1, PollUpdateStep, PollRemoveStep, PollPollStep
    <2>3. CASE UNCHANGED pollerVars
      BY <2>1, <2>3, PollInvUnchanged
    <2> QED
      BY <1>3, <2>2, <2>3 DEF PollerNext, EpollNext, PollNext
  <1> QED
    BY <1>1, <1>2, <1>3 DEF PollerInv

LEMMA PollerInvariant ==
    ASSUME MaxDisabled <= 1
    PROVE  PollerSpec => []PollerInv
  BY PollerInvInit, PollerInvStep, PTL DEF PollerSpec

(* PollPoller: fdInpollfdsIdx_ leads to each channel's entry of pollfds_      *)
(* through every append, change of interest and removal by swapping, while at *)
(* most one channel at a time is without interest.  With two of them it does  *)
(* not: removeChannel takes the negative descriptor of the last entry for a   *)
(* key.                                                                       *)
THEOREM PollKeepsIndex ==
    ASSUME MaxDisabled <= 1
    PROVE  PollerSpec => []PollIndexInv
  <1>1. PollerInv => PollIndexInv
    BY DEF PollerInv, PollInv, PollIndexInv
  <1> QED
    BY <1>1, PollerInvariant, PTL

(* No assert of either poller fails, under the same condition.                *)
THEOREM PollersNeverAbort ==
    ASSUME MaxDisabled <= 1
    PROVE  PollerSpec => []NoAssertFails
  <1>1. PollerInv => NoAssertFails
    BY DEF PollerInv, PollInv, EpollInv, NoAssertFails
  <1> QED
    BY <1>1, PollerInvariant, PTL

-----------------------------------------------------------------------------
(* The abstract poller                                                        *)

(* What the array tells the kernel to watch is each channel's events_.        *)
LEMMA PollWatch ==
    ASSUME PollInv
    PROVE  PP!Watch = events
  <1>1. /\ channels \subseteq Fds /\ events \in [Fds -> SUBSET Events]
        /\ \A g \in channels : HasEntry(g)
        /\ Owned /\ NoInterestLeft
    BY IndexInvParts DEF PollInv, IndexParts
  <1>2. ASSUME NEW fd \in Fds PROVE PP!Watch[fd] = events[fd]
    <2> DEFINE entries == {i \in DOMAIN pollfds : pollfds[i].fd = fd}
    <2>1. PP!Watch[fd] = UNION {pollfds[i].events : i \in entries}
      BY DEF PP!Watch
    <2>2. \A i \in entries : /\ fd \in channels /\ events[fd] # {}
                             /\ i = fdIdx[fd] /\ pollfds[i].events = events[fd]
      <3> SUFFICES ASSUME NEW i \in entries
                   PROVE  /\ fd \in channels /\ events[fd] # {}
                          /\ i = fdIdx[fd] /\ pollfds[i].events = events[fd]
        OBVIOUS
      <3>1. PICK g \in channels : fdIdx[g] = i
        BY <1>1 DEF Owned
      <3>2. KeyOf(g) = fd /\ pollfds[i].events = events[g]
        BY <1>1, <3>1 DEF HasEntry
      <3>3. g = fd /\ events[g] # {}
        BY <1>1, <3>2, FdType DEF KeyOf
      <3> QED
        BY <3>1, <3>2, <3>3
    <2>3. CASE fd \in channels /\ events[fd] # {}
      <3>1. fdIdx[fd] \in entries
        BY <1>1, <2>3 DEF HasEntry, KeyOf
      <3>2. {pollfds[i].events : i \in entries} = {events[fd]}
        BY <2>2, <3>1
      <3> QED
        BY <2>1, <3>2
    <2>4. CASE ~(fd \in channels /\ events[fd] # {})
      <3>1. entries = {} /\ events[fd] = {}
        BY <1>1, <2>2, <2>4 DEF NoInterestLeft
      <3> QED
        BY <2>1, <3>1
    <2> QED
      BY <2>3, <2>4
  <1> QED
    BY <1>1, <1>2 DEF PP!Watch

LEMMA EpollWatch ==
    ASSUME StatusInv
    PROVE  Watch = events
  <1>1. events \in [Fds -> SUBSET Events]
    BY DEF StatusInv, TypeOK
  <1>2. \A fd \in Fds : (IF fd \in DOMAIN epoll THEN epoll[fd] ELSE {}) = events[fd]
    BY StatusInvParts DEF Agrees
  <1> QED
    BY <1>1, <1>2 DEF Watch

LEMMA KernelWatches == PollerInv => KernelWatch = events
  BY PollWatch, EpollWatch DEF PollerInv, EpollInv, KernelWatch

LEMMA KernelWatchesNext == (PollerInv => KernelWatch = events)'
  BY KernelWatches, PTL

(* A step of either poller is a step of the abstract one.                     *)
LEMMA PollerSimulation ==
    PollerInv /\ PollerInv' /\ [PollerNext]_pollerVars => [DP!Next]_DP!vars
  <1> SUFFICES ASSUME PollerInv, PollerInv', [PollerNext]_pollerVars
               PROVE  DP!Next \/ UNCHANGED DP!vars
    OBVIOUS
  <1>1. KernelWatch = events /\ KernelWatch' = events'
    BY KernelWatches, KernelWatchesNext
  <1>2. ASSUME NEW fd \in Fds, NEW interest \in SUBSET Events,
               events' = [events EXCEPT ![fd] = interest],
               channels' = channels \cup {fd}, UNCHANGED reported
        PROVE  DP!Next
    <2>1. DP!UpdateChannel(fd, interest)
      BY <1>1, <1>2 DEF DP!UpdateChannel
    <2> QED
      BY <2>1 DEF DP!Next
  <1>3. ASSUME NEW fd \in Fds, fd \in channels, events[fd] = {},
               channels' = channels \ {fd}, UNCHANGED <<events, reported>>
        PROVE  DP!Next
    <2>1. DP!RemoveChannel(fd)
      BY <1>1, <1>3 DEF DP!RemoveChannel
    <2> QED
      BY <2>1 DEF DP!Next
  <1>4. ASSUME UNCHANGED <<events, channels>>,
               \A fd \in reported' : fd \in channels /\ events[fd] # {}
        PROVE  DP!Next
    <2>1. DP!Poll
      BY <1>1, <1>4 DEF DP!Poll
    <2> QED
      BY <2>1 DEF DP!Next
  <1>5. CASE EpollNext
    <2>1. StatusInv /\ ~aborted
      BY <1>5 DEF EpollNext, PollerInv, EpollInv
    <2>2. ASSUME NEW fd \in Fds, NEW interest \in Updates(events[fd]), UpdateChannel(fd, interest)
          PROVE  DP!Next
      <3>1. /\ interest \in SUBSET Events /\ events' = [events EXCEPT ![fd] = interest]
            /\ channels' = channels \cup {fd}
        BY <2>1, <2>2, UpdateEffect
      <3>2. UNCHANGED reported
        BY <2>2 DEF UpdateChannel
      <3> QED
        BY <1>2, <3>1, <3>2
    <2>3. ASSUME NEW fd \in Fds, RemoveChannel(fd) PROVE DP!Next
      BY <1>3, <2>3 DEF RemoveChannel, IsNoneEvent
    <2>4. CASE Poll
      <3>1. \A fd \in DOMAIN epoll : fd \in Fds /\ fd \in channels /\ events[fd] # {}
        BY <2>1, StatusInvParts DEF Agrees, TypeOK
      <3>2. reported' \subseteq DOMAIN epoll /\ UNCHANGED <<events, channels>>
        BY <2>4 DEF Poll
      <3> QED
        BY <1>4, <3>1, <3>2
    <2> QED
      BY <1>5, <2>2, <2>3, <2>4 DEF EpollNext, Next
  <1>6. CASE PollNext
    <2>1. PollInv
      BY <1>6 DEF PollNext, PollerInv
    <2>2. ASSUME NEW fd \in Fds, NEW interest \in Updates(events[fd]), PP!UpdateChannel(fd, interest)
          PROVE  DP!Next
      <3>1. interest \in SUBSET Events /\ channels' = channels \cup {fd}
        BY <2>1, <2>2, PollUpdateEffect
      <3>2. events' = [events EXCEPT ![fd] = interest] /\ UNCHANGED reported
        BY <2>2 DEF PP!UpdateChannel
      <3> QED
        BY <1>2, <3>1, <3>2
    <2>3. ASSUME NEW fd \in Fds, PP!RemoveChannel(fd) PROVE DP!Next
      <3>1. /\ fd \in channels /\ events[fd] = {} /\ channels' = channels \ {fd}
            /\ UNCHANGED <<events, reported>>
        BY <2>1, <2>3, RemoveEffect
      <3> QED
        BY <1>3, <3>1
    <2>4. CASE PP!Poll
      BY <1>4, <2>1, <2>4, PollPollStep
    <2> QED
      BY <1>6, <2>2, <2>3, <2>4, SameOperators DEF PollNext, PP!Next
  <1>7. CASE UNCHANGED pollerVars
    BY <1>1, <1>7 DEF pollerVars, vars, DP!vars
  <1> QED
    BY <1>5, <1>6, <1>7 DEF PollerNext

LEMMA PollerInitSimulation == NewDefaultPoller => DP!Init
  <1> SUFFICES ASSUME NewDefaultPoller PROVE DP!Init
    OBVIOUS
  <1>1. KernelWatch = events
    BY PollerInvInit, KernelWatches
  <1> QED
    BY <1>1 DEF NewDefaultPoller, Init, DP!Init

(* Whichever poller a loop got, the kernel watches each descriptor for        *)
(* exactly its channel's events_ and reports only channels with interest.     *)
THEOREM PollersImplementPoller ==
    ASSUME MaxDisabled <= 1
    PROVE  PollerSpec => ImplementsEitherPoller
  BY PollerInitSimulation, PollerInvariant, PollerSimulation, PTL
     DEF PollerSpec, ImplementsEitherPoller, DP!Spec

(* EpollPoller does so however many channels are without interest.            *)
THEOREM EpollImplementsPoller ==
    PollerSpec /\ pollerType = "EpollPoller" => ImplementsEitherPoller
  <1> DEFINE Made == pollerType = "EpollPoller"
             MadeInv == Made /\ EpollInv
  <1>1. NewDefaultPoller /\ Made => MadeInv
    BY EpollInvInit
  <1>2. MadeInv /\ [PollerNext]_pollerVars => MadeInv'
    <2>1. Made /\ [PollerNext]_pollerVars => Made'
      BY DEF PollerNext, pollerVars
    <2> QED
      BY <2>1, EpollInvStep
  <1>3. MadeInv => PollerInv
    BY DEF PollerInv
  <1> QED
    BY <1>1, <1>2, <1>3, PollerInitSimulation, PollerSimulation, PTL
       DEF PollerSpec, ImplementsEitherPoller, DP!Spec
=============================================================================
