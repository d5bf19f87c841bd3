---------------------------- MODULE TcpConnection ----------------------------
(* net/TcpConnection.cpp: one connection, from ConnectEstablished to its      *)
(* destructor, used from callbacks in its own loop thread; other threads may  *)
(* also send.  Actions are atomic up to the calls into user callbacks, which  *)
(* may call back into the connection, and up to the turns of the loop: a      *)
(* channel's events are read once by the poller and handled later, functors   *)
(* wait in the loop's queue.                                                  *)
(*                                                                            *)
(* Bytes are numbered in the order send accepted them; the socket is its send *)
(* buffer's free room, what the peer did, and what is left to read.           *)
EXTENDS Integers, Sequences, FiniteSets

CONSTANTS
    HighWaterMark,      \* highWaterMark_
    Garbage,            \* the byte that lies before a caller's data in memory
    Room,               \* bound: free bytes in the socket's send buffer
    MaxBytes,           \* bound: bytes accepted by send
    MaxMessage,         \* bound: bytes of one send
    ForeignLengths,     \* bound: bytes of one send of another thread
    MaxFunctors,        \* bound: functors waiting in the loop
    MaxInput            \* bound: bytes the peer sends

ASSUME ConnAssumption ==
    /\ {HighWaterMark, Room, MaxBytes, MaxMessage, MaxFunctors, MaxInput} \subseteq Nat
    /\ HighWaterMark > 0
    /\ ForeignLengths \subseteq 0..MaxMessage
    /\ Garbage \notin Int

VARIABLES
    state,          \* state_
    channel,        \* interest in reads and writes; known to the poller
    revents,        \* events the poller reported and the channel has not handled
    handling,       \* HandleEvent has begun on revents and has not come to the end
    callback,       \* the loop thread is in a user callback, which may use the connection
    outputBuffer,
    inputBuffer,    \* number of bytes in inputBuffer_
    functors,       \* functors of this connection in the loop's queue
    timers,         \* forceCloseWithDelay timers running
    owner,          \* the server's or client's reference: see OwnerRemoves
    foreign,        \* length of another thread's send until it has run, or -1
    socket,         \* the kernel's side of the socket
    wire,           \* history: bytes given to the kernel, in order
    accepted,       \* history: bytes taken by sendInLoop, written or buffered
    mangled,        \* history: a buffered message was copied from before its start
    alarms,         \* history: high water callbacks since outputBuffer was last below the mark
    overtaken,      \* history: a delayed close ran while a reported HUP or IN waited
    aborted         \* an assert failed

vars == <<state, channel, revents, handling, callback, outputBuffer, inputBuffer, functors,
          timers, owner, foreign, socket, wire, accepted, mangled, alarms, overtaken, aborted>>

States == {"KConnecting", "KConnected", "KDisconnecting", "KDisconnected"}

(* "callback" is the write complete callback or the high water mark callback. *)
Functors == {"ConnectEstablished", "sendInLoop", "callback", "forceCloseInLoop",
             "ConnectDestoryed"}

Up == state \in {"KConnected", "KDisconnecting"}
Queued(f) == \E i \in DOMAIN functors : functors[i] = f

TypeOK ==
    /\ state \in States
    /\ channel \in [read : BOOLEAN, write : BOOLEAN, added : BOOLEAN]
    /\ revents \subseteq {"HUP", "IN", "OUT"}
    /\ handling \in BOOLEAN
    /\ callback \in BOOLEAN
    /\ outputBuffer \in Seq((1..MaxBytes) \cup {Garbage})
    /\ inputBuffer \in 0..MaxInput
    /\ functors \in Seq(Functors)
    /\ timers \in 0..1
    /\ owner \in {"holds", "removes", "released", "destroyed"}
    /\ foreign \in -1..MaxMessage
    /\ socket \in [room : 0..Room, peer : {"open", "eof", "reset"}, error : BOOLEAN,
                   input : 0..MaxInput, shutWr : BOOLEAN]
    /\ wire \in Seq((1..MaxBytes) \cup {Garbage})
    /\ accepted \in 0..MaxBytes
    /\ mangled \in BOOLEAN
    /\ alarms \in Nat
    /\ overtaken \in BOOLEAN
    /\ aborted \in BOOLEAN

Init ==
    /\ state = "KConnecting"
    /\ channel = [read |-> FALSE, write |-> FALSE, added |-> FALSE]
    /\ revents = {}
    /\ handling = FALSE
    /\ callback = FALSE
    /\ outputBuffer = << >>
    /\ inputBuffer = 0
    /\ functors = <<"ConnectEstablished">>
    /\ timers = 0
    /\ owner = "holds"
    /\ foreign = -1
    /\ socket = [room |-> Room, peer |-> "open", error |-> FALSE, input |-> 0, shutWr |-> FALSE]
    /\ wire = << >>
    /\ accepted = 0
    /\ mangled = FALSE
    /\ alarms = 0
    /\ overtaken = FALSE
    /\ aborted = FALSE

(* Where the loop thread is.  The timers' channel is one of the active ones:  *)
(* between the poll and HandleEvent of this connection, timers may run.       *)
Running == ~aborted /\ owner # "destroyed"
InCallback == Running /\ callback
Dispatching == Running /\ ~callback /\ revents # {}
InTimers == Running /\ ~callback /\ ~handling
Idle == Running /\ ~callback /\ revents = {}

-----------------------------------------------------------------------------
(* Sending.                                                                   *)

(* What ::write of n bytes returns: -1 when the connection is broken or the   *)
(* send buffer is full (EWOULDBLOCK; errors other than EPIPE and ECONNRESET   *)
(* take the same path), otherwise what fits.                                  *)
Broken == socket.shutWr \/ socket.peer = "reset"
WriteReturns(n) ==
    IF Broken \/ (n > 0 /\ socket.room = 0) THEN -1
    ELSE IF n <= socket.room THEN n ELSE socket.room

(* The bytes at data + offset, for a message whose first byte gets the number *)
(* accepted + 1.  The offset -1 is one byte before the message.               *)
BytesAt(offset, n) ==
    [i \in 1..n |-> IF offset + i = 0 THEN Garbage ELSE accepted + offset + i]

(* Mutant: the alarm is raised whenever the buffer is over the mark.          *)
CrossesMarkAtLevel(old, remaining) == old + remaining >= HighWaterMark

(* Only the rising edge of the mark raises the alarm.                         *)
CrossesMark(old, remaining) == old + remaining >= HighWaterMark /\ old < HighWaterMark

(* Mutant: a message is written without a look at what is buffered.           *)
CanWriteDirectAlways == TRUE

(* Nothing may overtake what is buffered.                                     *)
CanWriteDirect == ~channel.write /\ outputBuffer = << >>

(* sendInLoop(data, len), with the functors it leaves in the loop after rest. *)
SendInLoop(len, rest) ==
    IF state = "KDisconnected"
    THEN /\ functors' = rest
         /\ UNCHANGED <<channel, outputBuffer, socket, wire, accepted, mangled, alarms>>
    ELSE LET direct    == CanWriteDirect
             nWrote    == IF direct THEN WriteReturns(len) ELSE 0
             sent      == IF nWrote > 0 THEN nWrote ELSE 0
             remaining == len - sent
             error     == direct /\ Broken
             buffered  == IF error THEN 0 ELSE remaining
             alarm     == buffered > 0 /\ CrossesMark(Len(outputBuffer), remaining)
         IN  /\ outputBuffer' = outputBuffer \o BytesAt(nWrote, buffered)
             /\ channel' = [channel EXCEPT !.write = @ \/ buffered > 0]
             /\ socket' = [socket EXCEPT !.room = @ - sent]
             /\ wire' = wire \o BytesAt(0, sent)
             /\ accepted' = IF error THEN accepted ELSE accepted + len
             /\ mangled' = (mangled \/ (nWrote < 0 /\ buffered > 0))
             /\ alarms' = IF alarm THEN alarms + 1 ELSE alarms
             /\ functors' = rest \o (IF direct /\ nWrote >= 0 /\ remaining = 0
                                     THEN <<"callback">> ELSE << >>)
                                 \o (IF alarm THEN <<"callback">> ELSE << >>)

CanAccept(len) == accepted + len + (IF foreign > 0 THEN foreign ELSE 0) <= MaxBytes

(* send, in the loop thread.                                                  *)
Send(len) ==
    /\ InCallback
    /\ state = "KConnected"
    /\ CanAccept(len) /\ Len(functors) < MaxFunctors
    /\ SendInLoop(len, functors)
    /\ UNCHANGED <<state, revents, handling, overtaken, callback, inputBuffer, timers,
                   owner, foreign, aborted>>

(* send, in another thread: state_ is read first, sendInLoop queued later.    *)
(* The caller keeps its reference and its data until the functor has run.     *)
ForeignSend(len) ==
    /\ Running /\ foreign = -1
    /\ CanAccept(len)
    /\ state = "KConnected"
    /\ foreign' = len
    /\ UNCHANGED <<state, channel, revents, handling, overtaken, callback,
                   outputBuffer, inputBuffer, functors, timers, owner, socket, wire,
                   accepted, mangled, alarms, aborted>>

ForeignSendQueues ==
    /\ Running /\ foreign >= 0
    /\ ~Queued("sendInLoop")
    /\ functors' = Append(functors, "sendInLoop")
    /\ UNCHANGED <<state, channel, revents, handling, overtaken, callback,
                   outputBuffer, inputBuffer, timers, owner, foreign, socket, wire,
                   accepted, mangled, alarms, aborted>>

-----------------------------------------------------------------------------
(* Closing, by the user.                                                      *)

(* Mutant: the write side is shut down although bytes wait for it.            *)
ShutdownInLoopAtOnce == socket' = [socket EXCEPT !.shutWr = TRUE]

(* shutdownInLoop, which the write handler repeats once the buffer is empty.  *)
ShutdownInLoop == socket' = [socket EXCEPT !.shutWr = @ \/ ~channel.write]

Shutdown ==
    /\ InCallback
    /\ state = "KConnected"
    /\ state' = "KDisconnecting"
    /\ ShutdownInLoop
    /\ UNCHANGED <<channel, revents, handling, overtaken, callback, outputBuffer,
                   inputBuffer, functors, timers, owner, foreign, wire, accepted,
                   mangled, alarms, aborted>>

ForceClose ==
    /\ InCallback
    /\ state \in {"KConnected", "KDisconnecting"}
    /\ Len(functors) < MaxFunctors
    /\ state' = "KDisconnecting"
    /\ functors' = Append(functors, "forceCloseInLoop")
    /\ UNCHANGED <<channel, revents, handling, overtaken, callback, outputBuffer,
                   inputBuffer, timers, owner, foreign, socket, wire, accepted,
                   mangled, alarms, aborted>>

ForceCloseWithDelay ==
    /\ InCallback
    /\ state \in {"KConnected", "KDisconnecting"}
    /\ timers = 0
    /\ state' = "KDisconnecting"
    /\ timers' = 1
    /\ UNCHANGED <<channel, revents, handling, overtaken, callback, outputBuffer,
                   inputBuffer, functors, owner, foreign, socket, wire, accepted,
                   mangled, alarms, aborted>>

CallbackReturns ==
    /\ InCallback
    /\ callback' = FALSE
    /\ UNCHANGED <<state, channel, revents, handling, overtaken, outputBuffer,
                   inputBuffer, functors, timers, owner, foreign, socket, wire,
                   accepted, mangled, alarms, aborted>>

(* A timer of the user's own runs in the loop thread and uses the connection. *)
UserTimer ==
    /\ InTimers /\ owner = "holds"
    /\ callback' = TRUE
    /\ UNCHANGED <<state, channel, revents, handling, overtaken, outputBuffer,
                   inputBuffer, functors, timers, owner, foreign, socket, wire,
                   accepted, mangled, alarms, aborted>>

(* handleClose.  The connection callback it makes finds the state             *)
(* KDisconnected, in which every call of this module's user returns at once,  *)
(* so the close callback that follows it is taken in the same step.           *)
HandleClose ==
    IF state \in {"KConnected", "KDisconnecting"}
    THEN /\ state' = "KDisconnected"
         /\ channel' = [channel EXCEPT !.read = FALSE, !.write = FALSE]
         /\ callback' = TRUE
         /\ owner' = "removes"
         /\ UNCHANGED aborted
    ELSE /\ aborted' = TRUE
         /\ UNCHANGED <<state, channel, callback, owner>>

(* Mutant: the state is not tested again when the functor runs.               *)
ForceCloseInLoopUnchecked == HandleClose

ForceCloseInLoop ==
    IF state \in {"KConnected", "KDisconnecting"}
    THEN HandleClose
    ELSE UNCHANGED <<state, channel, callback, owner, aborted>>

(* The timer of forceCloseWithDelay expires, perhaps with events of this      *)
(* connection reported and not handled: they stay in revents.                 *)
ForceCloseTimer ==
    /\ InTimers /\ timers = 1
    /\ timers' = 0
    /\ ForceCloseInLoop
    /\ overtaken' = (overtaken \/ (Up /\ {"HUP", "IN"} \cap revents # {}))
    /\ UNCHANGED <<revents, handling, outputBuffer, inputBuffer, functors, foreign, socket,
                   wire, accepted, mangled, alarms>>

-----------------------------------------------------------------------------
(* Events of the channel.                                                     *)

Readable == socket.input > 0 \/ socket.peer # "open"

(* The poller reports what is ready among the events of interest, and in any  *)
(* case a hang-up: a reset, perhaps before the readability that comes with    *)
(* it, or both directions shut down.                                          *)
PollChannel ==
    /\ Idle /\ channel.added /\ (channel.read \/ channel.write)
    /\ revents' \in
        LET ready == {e \in {"HUP", "IN", "OUT"} :
                        \/ e = "HUP" /\ \/ socket.peer = "reset"
                                        \/ socket.shutWr /\ socket.peer = "eof"
                        \/ e = "IN"  /\ channel.read /\ Readable
                        \/ e = "OUT" /\ channel.write /\ (socket.room > 0 \/ Broken)}
        IN  {ready} \cup IF socket.peer = "reset" THEN {ready \ {"IN"}} ELSE {}
    /\ revents' # {}
    /\ UNCHANGED <<state, channel, handling, callback, outputBuffer, inputBuffer, functors,
                   timers, owner, foreign, socket, wire, accepted, mangled, alarms, overtaken,
                   aborted>>

(* Channel::HandleEvent tests what was reported in this order, whatever the   *)
(* callback before has done.                                                  *)
EventOrder == <<"HUP", "IN", "OUT">>
HandleEvent(i) ==
    /\ Dispatching
    /\ EventOrder[i] \in revents
    /\ \A j \in 1..(i - 1) : EventOrder[j] \notin revents
    /\ revents' = revents \ {EventOrder[i]}
    /\ handling' = (revents' # {})
    /\ UNCHANGED overtaken

(* POLLHUP without POLLIN.                                                    *)
HandleHup ==
    /\ HandleEvent(1)
    /\ IF "IN" \notin revents THEN HandleClose
       ELSE UNCHANGED <<state, channel, callback, owner, aborted>>
    /\ UNCHANGED <<outputBuffer, inputBuffer, functors, timers, foreign, socket, wire,
                   accepted, mangled, alarms>>

(* What readv returns: the data, then the error of a reset once, then 0.      *)
ReadReturns == IF socket.input > 0 THEN socket.input ELSE IF socket.error THEN -1 ELSE 0

(* Buffer::readFd, by the number of bytes in the buffer.                      *)
ReadFd(n) == IF n < 0 THEN inputBuffer ELSE inputBuffer + n

(* Mutant: end of file counts as data.                                        *)
CountsAsDataAlways(n) == n >= -1

(* handleRead keeps readFd's result in a size_t: -1 is greater than 0, and    *)
(* the error branch is never taken.                                           *)
CountsAsData(n) == n # 0

HandleRead ==
    /\ HandleEvent(2)
    /\ inputBuffer' = ReadFd(ReadReturns)
    /\ socket' = [socket EXCEPT !.input = 0, !.error = @ /\ socket.input > 0]
    /\ IF CountsAsData(ReadReturns)
       THEN callback' = TRUE /\ UNCHANGED <<state, channel, owner, aborted>>
       ELSE HandleClose
    /\ UNCHANGED <<outputBuffer, functors, timers, foreign, wire, accepted, mangled, alarms>>

(* Mutants: the interest in writing is dropped after any write, or kept after *)
(* the last one.                                                              *)
StillWritingNever(rest) == FALSE
StillWritingAlways(rest) == TRUE

(* What the write handler does once the buffer is empty: the interest goes,   *)
(* and a shutdown that waited for the buffer is carried out.                  *)
StillWriting(rest) == rest # << >>

(* Mutant: the write handler forgets the shutdown that waited for it.         *)
ShutdownForgotten == FALSE

ShutdownWaited == state = "KDisconnecting"

(* handleWirte, when the write takes some bytes.                              *)
HandleWriteSome ==
    /\ HandleEvent(3)
    /\ channel.write /\ WriteReturns(Len(outputBuffer)) > 0
    /\ LET n    == WriteReturns(Len(outputBuffer))
           rest == SubSeq(outputBuffer, n + 1, Len(outputBuffer))
           last == ~StillWriting(rest)
       IN  /\ wire' = wire \o SubSeq(outputBuffer, 1, n)
           /\ outputBuffer' = rest
           /\ channel' = [channel EXCEPT !.write = StillWriting(rest)]
           /\ functors' = IF last THEN Append(functors, "callback") ELSE functors
           /\ socket' = [socket EXCEPT !.room = @ - n,
                                       !.shutWr = @ \/ (last /\ ShutdownWaited)]
           /\ alarms' = IF Len(rest) < HighWaterMark THEN 0 ELSE alarms
    /\ UNCHANGED <<state, callback, inputBuffer, timers, owner, foreign, accepted, mangled,
                   aborted>>

(* handleWirte, when the interest in writing is gone since the poll, or the   *)
(* write fails.                                                               *)
HandleWriteNone ==
    /\ HandleEvent(3)
    /\ ~channel.write \/ WriteReturns(Len(outputBuffer)) <= 0
    /\ UNCHANGED <<state, channel, callback, outputBuffer, inputBuffer, functors, timers,
                   owner, foreign, socket, wire, accepted, mangled, alarms, aborted>>

-----------------------------------------------------------------------------
(* Functors of the loop.                                                      *)

ConnectEstablished ==
    /\ IF state = "KConnecting"
       THEN /\ state' = "KConnected"
            /\ channel' = [channel EXCEPT !.read = TRUE, !.added = TRUE]
            /\ callback' = TRUE
            /\ UNCHANGED aborted
       ELSE aborted' = TRUE /\ UNCHANGED <<state, channel, callback>>
    /\ UNCHANGED owner

(* The channel leaves the poller, which insists that it has no interest left. *)
ConnectDestoryed ==
    /\ IF state = "KConnected"
       THEN /\ state' = "KDisconnected"
            /\ callback' = TRUE
            /\ channel' = [read |-> FALSE, write |-> FALSE, added |-> FALSE]
            /\ UNCHANGED aborted
       ELSE /\ aborted' = (channel.read \/ channel.write)
            /\ channel' = [channel EXCEPT !.added = FALSE]
            /\ UNCHANGED <<state, callback>>
    /\ owner' = "released"

RunFunctor ==
    /\ Idle /\ functors # << >>
    /\ \/ /\ Head(functors) = "sendInLoop"
          /\ SendInLoop(foreign, Tail(functors))
          /\ foreign' = -1
          /\ UNCHANGED <<state, callback, owner, aborted>>
       \/ /\ Head(functors) = "callback"
          /\ callback' = TRUE
          /\ functors' = Tail(functors)
          /\ UNCHANGED <<state, channel, outputBuffer, owner, foreign, socket, wire, accepted,
                         mangled, alarms, aborted>>
       \/ /\ \/ Head(functors) = "ConnectEstablished" /\ ConnectEstablished
             \/ Head(functors) = "forceCloseInLoop" /\ ForceCloseInLoop
             \/ Head(functors) = "ConnectDestoryed" /\ ConnectDestoryed
          /\ functors' = Tail(functors)
          /\ UNCHANGED <<outputBuffer, foreign, socket, wire, accepted, mangled, alarms>>
    /\ UNCHANGED <<revents, handling, overtaken, inputBuffer, timers>>

-----------------------------------------------------------------------------
(* The connection's owner and the last reference.                             *)

(* The close callback makes TcpServer or TcpClient forget the connection and  *)
(* queue ConnectDestoryed in the loop, at once or through another loop.       *)
OwnerRemoves ==
    /\ Running /\ owner = "removes"
    /\ ~Queued("ConnectDestoryed")
    /\ functors' = Append(functors, "ConnectDestoryed")
    /\ UNCHANGED <<state, channel, revents, handling, overtaken, callback,
                   outputBuffer, inputBuffer, timers, owner, foreign, socket, wire,
                   accepted, mangled, alarms, aborted>>

(* ~TcpConnection, once no functor, timer or thread refers to the connection. *)
Destructor ==
    /\ Idle /\ owner = "released"
    /\ functors = << >> /\ timers = 0 /\ foreign = -1
    /\ owner' = "destroyed"
    /\ aborted' = (state # "KDisconnected")
    /\ UNCHANGED <<state, channel, revents, handling, overtaken, callback,
                   outputBuffer, inputBuffer, functors, timers, foreign, socket, wire,
                   accepted, mangled, alarms>>

-----------------------------------------------------------------------------
(* The peer and the kernel.                                                   *)

Peer(s) ==
    /\ Running
    /\ socket' = s
    /\ UNCHANGED <<state, channel, revents, handling, overtaken, callback,
                   outputBuffer, inputBuffer, functors, timers, owner, foreign, wire,
                   accepted, mangled, alarms, aborted>>

PeerReads == socket.room < Room /\ Peer([socket EXCEPT !.room = Room])
PeerSends == /\ socket.peer = "open" /\ socket.input + inputBuffer < MaxInput
             /\ Peer([socket EXCEPT !.input = @ + 1])
PeerCloses == socket.peer = "open" /\ Peer([socket EXCEPT !.peer = "eof"])
PeerResets == socket.peer # "reset"
              /\ Peer([socket EXCEPT !.peer = "reset", !.error = (socket.peer = "open")])

-----------------------------------------------------------------------------
Next ==
    \/ \E len \in 0..MaxMessage : Send(len)
    \/ \E len \in ForeignLengths : ForeignSend(len)
    \/ ForeignSendQueues
    \/ Shutdown
    \/ ForceClose
    \/ ForceCloseWithDelay
    \/ CallbackReturns
    \/ UserTimer
    \/ ForceCloseTimer
    \/ PollChannel
    \/ HandleHup
    \/ HandleRead
    \/ HandleWriteSome
    \/ HandleWriteNone
    \/ RunFunctor
    \/ OwnerRemoves
    \/ Destructor
    \/ PeerReads
    \/ PeerSends
    \/ PeerCloses
    \/ PeerResets

Spec == Init /\ [][Next]_vars

(* The loop turns, callbacks return, timers expire, the owner does its part   *)
(* and the peer takes what it is sent.  Nothing makes it send or close.       *)
FairSpec ==
    /\ Spec
    /\ WF_vars(ForeignSendQueues)
    /\ WF_vars(CallbackReturns)
    /\ WF_vars(OwnerRemoves)
    /\ WF_vars(PeerReads)
    /\ SF_vars(HandleHup \/ HandleRead \/ HandleWriteSome \/ HandleWriteNone)
    /\ SF_vars(PollChannel)
    /\ SF_vars(ForceCloseTimer)
    /\ SF_vars(RunFunctor)
    /\ WF_vars(Destructor)

-----------------------------------------------------------------------------
(* Properties                                                                 *)

(* While the connection is up, it asks for write events exactly when bytes    *)
(* wait in outputBuffer_: one interest too few and they wait for ever, one    *)
(* too many and the level-triggered loop spins.                               *)
WriteInterest == TypeOK /\ (Up => (channel.write <=> outputBuffer # << >>))

(* The write side is shut down only after every accepted byte is with the     *)
(* kernel, whichever of shutdown, the write handler and a late sendInLoop     *)
(* comes first, and no byte is buffered after that.                           *)
FinAfterData == socket.shutWr /\ state # "KDisconnected" => outputBuffer = << >>

(* The kernel gets the bytes in the order they were sent, none missing and    *)
(* none twice, through direct writes, partial writes and the buffer, up to    *)
(* the first message that is buffered after a direct write returned -1.       *)
Sent == [i \in 1..accepted |-> i]
StreamIntact == ~mangled => wire \o outputBuffer = Sent

(* The same without the exception: what the peer of an echo server expects.   *)
EchoIntact == wire \o outputBuffer = Sent

(* The high water callback is queued once for each time the buffer climbs     *)
(* over the mark.                                                             *)
HighWaterOnce == alarms = IF Len(outputBuffer) >= HighWaterMark THEN 1 ELSE 0

(* handleClose runs once, the channel has no interest left when it leaves the *)
(* poller, and the destructor finds KDisconnected, in every order of events,  *)
(* functors, timers and calls but one: a delayed close that runs between the  *)
(* poll that reported a hang-up or something to read and its handler.         *)
NoAssertFails == aborted => overtaken

(* The same without the exception: the assert of handleClose.                 *)
HandleCloseFindsItOpen == ~aborted

(* Bytes in the buffer reach the kernel as long as the peer reads, or the     *)
(* connection goes down.                                                      *)
BufferDrains == outputBuffer # << >> ~> (outputBuffer = << >> \/ state = "KDisconnected")

(* A connection that is being closed by its user ends its stream or goes      *)
(* down, even when shutdown found bytes waiting and left the rest to the      *)
(* write handler.                                                             *)
CloseGoesThrough == state = "KDisconnecting" ~> (socket.shutWr \/ state = "KDisconnected")

(* When the peer is gone the connection is taken down and destroyed, unless   *)
(* the process has stopped at the assert of NoAssertFails.                    *)
PeerGoneDestroys == socket.peer # "open" ~> (owner = "destroyed" \/ aborted)
=============================================================================
