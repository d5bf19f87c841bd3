------------------------------ MODULE TcpClient ------------------------------
(* net/Connector.cpp and net/TcpClient.cpp: a client and its connector in one *)
(* loop.  The connector opens sockets, waits for one to become writable,      *)
(* hands it over or tries again after a delay that doubles; the client owns   *)
(* one connection at a time and may start the connector again when it closes. *)
(* Of a connection only its state is kept here: see TcpConnection.            *)
(*                                                                            *)
(* A handler or a functor is one step, and the turns of the loop are kept:    *)
(* what a poll reports is handled before the functors queued until then run,  *)
(* and a functor queued by a functor runs after another poll.                 *)
EXTENDS Naturals, Sequences, SequencesExt

CONSTANTS
    kInitRetryDelayMs,
    kMaxRetryDelayMs,
    MaxConns            \* bound: connections made, one after another

ASSUME ClientAssumption ==
    /\ {kInitRetryDelayMs, kMaxRetryDelayMs, MaxConns} \subseteq Nat
    /\ 0 < kInitRetryDelayMs /\ kInitRetryDelayMs <= kMaxRetryDelayMs

VARIABLES
    pc,             \* the loop: "poll", "dispatch" or "functors"
    revents,        \* what the poll reported and is not handled yet
    functors,       \* pendingFunctors_
    batch,          \* what is left of the functors swapped out of it
    connector,      \* see NewConnector
    client,         \* enableConnect_, retry_, connect() called, destroyed
    conns,          \* the state_ of each connection made; nextConnId_ is their number
    connection,     \* connection_, or 0
    delayed,        \* the connection that the timer of a forceCloseWithDelay closes, or 0
    final,          \* history: disconnect() found a connection
    early,          \* history: which of connect, destroy and a delayed close came too early
    aborted         \* an assert failed, or a functor ran with a deleted connector

vars == <<pc, revents, functors, batch, connector, client, conns, connection, delayed, final,
          early, aborted>>

(* The members of Connector; with them the sockets it has opened and neither  *)
(* closed nor handed over, its retry timers, whether connect() failed in a    *)
(* way that is not tried again, an assert failed, and it was deleted.         *)
NewConnector ==
    [state |-> "kDisconnected", enableConnect |-> FALSE, retryDelayMs |-> kInitRetryDelayMs,
     channel |-> "none", sockets |-> 0, timers |-> 0, gaveUp |-> FALSE, failed |-> FALSE,
     deleted |-> FALSE]

ConnectorFunctors == {"startInLoop", "stopInLoop", "resetChannel"}
Functors == (ConnectorFunctors \X {0})
                \cup ({"forceCloseInLoop", "ConnectDestoryed"} \X (1..MaxConns))

TypeOK ==
    /\ pc \in {"poll", "dispatch", "functors"}
    /\ revents \subseteq {"write", "timer", "close"}
    /\ functors \in Seq(Functors) /\ batch \in Seq(Functors)
    /\ connector \in [state : {"kDisconnected", "kConnecting", "kConnected"},
                      enableConnect : BOOLEAN, retryDelayMs : Nat,
                      channel : {"none", "polled", "removed"}, sockets : Nat, timers : Nat,
                      gaveUp : BOOLEAN, failed : BOOLEAN, deleted : BOOLEAN]
    /\ client \in [enableConnect : BOOLEAN, retry : BOOLEAN, started : BOOLEAN,
                   destroyed : BOOLEAN]
    /\ conns \in Seq({"KConnected", "KDisconnecting", "KDisconnected"})
    /\ connection \in 0..Len(conns) /\ delayed \in 0..Len(conns)
    /\ {final, aborted} \subseteq BOOLEAN
    /\ early \subseteq {"connect", "destroy", "close"}

Init ==
    /\ pc = "poll"
    /\ revents = {}
    /\ functors = << >> /\ batch = << >>
    /\ connector = NewConnector
    /\ client \in [enableConnect : {TRUE}, retry : BOOLEAN, started : {FALSE},
                   destroyed : {FALSE}]
    /\ conns = << >> /\ connection = 0 /\ delayed = 0
    /\ final = FALSE /\ early = {} /\ aborted = FALSE

Alive == ~client.destroyed
Up(id) == conns[id] \in {"KConnected", "KDisconnecting"}
Queued(f) == Contains(functors, f) \/ Contains(batch, f)

-----------------------------------------------------------------------------
(* What Connector's functions make of the connector c.                        *)

LongerDelay(delay) == IF 2 * delay < kMaxRetryDelayMs THEN 2 * delay ELSE kMaxRetryDelayMs

(* Mutants: the socket stays open; the longest delay ends the attempts.       *)
RetryLeaks(c) ==
    IF c.enableConnect
    THEN [c EXCEPT !.state = "kDisconnected", !.timers = @ + 1, !.retryDelayMs = LongerDelay(@)]
    ELSE [c EXCEPT !.state = "kDisconnected"]

RetryUpToMax(c) ==
    IF c.enableConnect /\ c.retryDelayMs < kMaxRetryDelayMs
    THEN [c EXCEPT !.state = "kDisconnected", !.sockets = @ - 1, !.timers = @ + 1,
                   !.retryDelayMs = LongerDelay(@)]
    ELSE [c EXCEPT !.state = "kDisconnected", !.sockets = @ - 1]

(* The socket is closed; a timer that holds the connector starts it again.    *)
Retry(c) ==
    IF c.enableConnect
    THEN [c EXCEPT !.state = "kDisconnected", !.sockets = @ - 1, !.timers = @ + 1,
                   !.retryDelayMs = LongerDelay(@)]
    ELSE [c EXCEPT !.state = "kDisconnected", !.sockets = @ - 1]

(* A channel watches the new socket; the one before it must be gone.          *)
Connecting(c) ==
    [c EXCEPT !.state = "kConnecting", !.channel = "polled", !.failed = (c.channel # "none")]

(* By the errno of ::connect the attempt is under way, comes later, or never. *)
Connect(c) ==
    LET opened == [c EXCEPT !.sockets = @ + 1]
    IN  {Connecting(opened), Retry(opened), [c EXCEPT !.gaveUp = TRUE]}

StartInLoop(c) ==
    IF c.state # "kDisconnected" THEN {[c EXCEPT !.failed = TRUE]}
    ELSE IF c.enableConnect THEN Connect(c) ELSE {c}

Restart(c) == StartInLoop([c EXCEPT !.state = "kDisconnected", !.enableConnect = TRUE,
                                    !.retryDelayMs = kInitRetryDelayMs])

(* removeAndResetChannel also queues resetChannel, as the channel is deleted  *)
(* only after its own handler.                                                *)
RemoveChannel(c) == [c EXCEPT !.channel = "removed"]

(* Mutant: the channel is not waited for.                                     *)
QueueResetChannelNever(queue) == queue
QueueResetChannel(queue) == Append(queue, <<"resetChannel", 0>>)

(* The client or a timer drops its reference.                                 *)
Release(c) ==
    IF client'.destroyed /\ c.timers = 0
    THEN [c EXCEPT !.deleted = TRUE, !.failed = @ \/ c.channel # "none"]
    ELSE c

-----------------------------------------------------------------------------
(* The user of the client, in the loop thread; connect() also in another.     *)

UserCode == ~aborted /\ pc = "dispatch" /\ Alive

(* What the first connect() finds; the connector is left kConnected later.    *)
AtRest == connector.state = "kDisconnected" /\ connector.timers = 0 /\ ~Queued(<<"startInLoop", 0>>)

(* connect().  Bound: not called again once it came amid the connector's work. *)
ClientConnect(inLoop) ==
    LET c == [connector EXCEPT !.enableConnect = TRUE, !.gaveUp = FALSE] IN
    /\ ~aborted /\ Alive /\ early = {}
    /\ early' = IF AtRest THEN {} ELSE {"connect"}
    /\ final' = FALSE
    /\ client' = [client EXCEPT !.enableConnect = TRUE, !.started = TRUE]
    /\ IF inLoop
       THEN pc = "dispatch" /\ connector' \in StartInLoop(c) /\ UNCHANGED functors
       ELSE connector' = c /\ functors' = Append(functors, <<"startInLoop", 0>>)
    /\ aborted' = connector'.failed
    /\ UNCHANGED <<pc, revents, batch, conns, connection, delayed>>

(* disconnect(): the connection, if there is one, is shut down.               *)
Disconnect ==
    /\ UserCode /\ client.enableConnect
    /\ client' = [client EXCEPT !.enableConnect = FALSE]
    /\ conns' = [id \in DOMAIN conns |-> IF id = connection /\ conns[id] = "KConnected"
                                         THEN "KDisconnecting" ELSE conns[id]]
    /\ final' = (connection # 0)
    /\ UNCHANGED <<pc, revents, functors, batch, connector, connection, delayed, early, aborted>>

(* TcpConnection::forceClose.  Bound: one close of a connection is queued at  *)
(* a time; a second one would find KDisconnected.                             *)
ForceClose(id) ==
    /\ Up(id)
    /\ ~Queued(<<"forceCloseInLoop", id>>)
    /\ conns' = [conns EXCEPT ![id] = "KDisconnecting"]
    /\ functors' = Append(functors, <<"forceCloseInLoop", id>>)

UserForceCloses ==
    /\ ~aborted /\ pc = "dispatch"
    /\ \E id \in DOMAIN conns : ForceClose(id)
    /\ UNCHANGED <<pc, revents, batch, connector, client, connection, delayed, final, early,
                   aborted>>

(* TcpConnection::forceCloseWithDelay.  Bound: one delayed close at a time;   *)
(* that of a connection which has closed finds KDisconnected.                 *)
UserForceClosesLater ==
    /\ ~aborted /\ pc = "dispatch" /\ delayed = 0
    /\ \E id \in DOMAIN conns :
          /\ Up(id)
          /\ conns' = [conns EXCEPT ![id] = "KDisconnecting"]
          /\ delayed' = id
    /\ UNCHANGED <<pc, revents, functors, batch, connector, client, connection, final, early,
                   aborted>>

(* ~TcpClient.  The connection outlives it, and is closed when nobody else    *)
(* has a reference.  Without a connection the connector is stopped by a       *)
(* functor that holds no reference to the connector, which is then deleted.   *)
Destructor ==
    /\ UserCode
    /\ client' = [client EXCEPT !.destroyed = TRUE]
    /\ connection' = 0
    /\ \/ /\ connection # 0
          /\ ForceClose(connection) \/ UNCHANGED <<conns, functors>>
          /\ connector' = Release(connector)
       \/ /\ connection = 0
          /\ functors' = Append(functors, <<"stopInLoop", 0>>)
          /\ connector' = Release([connector EXCEPT !.enableConnect = FALSE])
          /\ UNCHANGED conns
    /\ aborted' = connector'.failed
    /\ early' = IF connection = 0 \/ connector.channel # "none" THEN early \cup {"destroy"} ELSE early
    /\ UNCHANGED <<pc, revents, batch, delayed, final>>

-----------------------------------------------------------------------------
(* Closing of a connection.                                                   *)

(* Mutant: the connector starts again although disconnect() was called.       *)
ReconnectsAlways == client.retry
Reconnects == client.retry /\ client.enableConnect

(* handleClose and its close callback: TcpClient::removeConnection, or        *)
(* details::removeConnection once the client is destroyed.  A timer that      *)
(* would close the connection has nothing left to do.                         *)
HandleClose(id) ==
    /\ conns' = [conns EXCEPT ![id] = "KDisconnected"]
    /\ functors' = Append(functors, <<"ConnectDestoryed", id>>)
    /\ connector' \in IF Alive /\ Reconnects THEN Restart(connector) ELSE {connector}
    /\ connection' = 0
    /\ delayed' = IF delayed = id THEN 0 ELSE delayed
    /\ aborted' = (connector'.failed \/ (Alive /\ connection # id))

-----------------------------------------------------------------------------
(* A turn of the loop.                                                        *)

(* Which sockets are ready and which timers expired is up to the network and  *)
(* the clock, and the loop may turn for the sake of user code alone.          *)
Poll ==
    /\ ~aborted /\ pc = "poll"
    /\ pc' = "dispatch"
    /\ revents' \in SUBSET {e \in {"write", "timer", "close"} :
                              \/ e = "write" /\ connector.channel = "polled"
                              \/ e = "timer" /\ connector.timers > 0
                              \/ e = "close" /\ \E id \in DOMAIN conns : Up(id)}
    /\ UNCHANGED <<functors, batch, connector, client, conns, connection, delayed, final, early,
                   aborted>>

Handles(event) ==
    /\ ~aborted /\ pc = "dispatch" /\ event \in revents
    /\ revents' = revents \ {event}
    /\ UNCHANGED <<pc, batch, client, final, early>>

(* A retry timer, and with it a reference to the connector.                   *)
RetryTimer ==
    /\ Handles("timer")
    /\ \E c \in StartInLoop([connector EXCEPT !.timers = @ - 1]) : connector' = Release(c)
    /\ aborted' = connector'.failed
    /\ UNCHANGED <<functors, conns, connection, delayed>>

(* The timer of a delayed close runs forceCloseInLoop: at any moment of the   *)
(* round, since the timerfd's channel may be anywhere among the active ones.  *)
(* Too early is before the handler of an event that the poll reported for the *)
(* connection, or before resetChannel when the connector starts again.        *)
DelayedClose ==
    /\ ~aborted /\ pc = "dispatch" /\ delayed # 0
    /\ HandleClose(delayed)
    /\ early' = IF "close" \in revents \/ (Alive /\ Reconnects /\ connector.channel # "none")
                THEN early \cup {"close"} ELSE early
    /\ UNCHANGED <<pc, revents, batch, client, final>>

(* handleWrite: SO_ERROR is set, or the socket has connected to itself.       *)
HandleWriteFails ==
    /\ Handles("write")
    /\ connector.state = "kConnecting"
    /\ connector' = Retry(RemoveChannel(connector))
    /\ functors' = QueueResetChannel(functors)
    /\ UNCHANGED <<conns, connection, delayed, aborted>>

(* TcpClient::newConnection takes the socket.                                 *)
NewConnection ==
    /\ Len(conns) < MaxConns
    /\ conns' = Append(conns, "KConnected")
    /\ connection' = Len(conns) + 1

(* handleWrite: the socket is connected, and closed if stop() came first.     *)
HandleWriteConnects ==
    /\ Handles("write")
    /\ connector.state = "kConnecting"
    /\ connector' = [RemoveChannel(connector) EXCEPT !.state = "kConnected", !.sockets = @ - 1]
    /\ functors' = QueueResetChannel(functors)
    /\ IF connector.enableConnect THEN NewConnection ELSE UNCHANGED <<conns, connection>>
    /\ UNCHANGED <<delayed, aborted>>

(* The peer has closed the connection that was up.  When a timer of the same  *)
(* round has closed it first, the assert of handleClose fails.                *)
HandleConnectionClose ==
    /\ Handles("close")
    /\ \/ \E id \in DOMAIN conns : Up(id) /\ HandleClose(id)
       \/ /\ \A id \in DOMAIN conns : ~Up(id)
          /\ aborted' = TRUE
          /\ UNCHANGED <<functors, connector, conns, connection, delayed>>

HandlePendingFunctors ==
    /\ ~aborted /\ pc = "dispatch" /\ revents = {}
    /\ pc' = "functors"
    /\ batch' = functors /\ functors' = << >>
    /\ UNCHANGED <<revents, connector, client, conns, connection, delayed, final, early, aborted>>

StopInLoop ==
    \/ /\ connector.state = "kConnecting"
       /\ connector' = Retry(RemoveChannel(connector))
       /\ functors' = QueueResetChannel(functors)
    \/ connector.state # "kConnecting" /\ UNCHANGED <<connector, functors>>

ResetChannel == connector' = [connector EXCEPT !.channel = "none"] /\ UNCHANGED functors

RunFunctor ==
    /\ ~aborted /\ pc = "functors" /\ batch # << >>
    /\ batch' = Tail(batch)
    /\ LET f == Head(batch)[1]
           id == Head(batch)[2]
       IN  \/ /\ \/ /\ f = "startInLoop"
                    /\ connector' \in StartInLoop(connector) /\ UNCHANGED functors
                 \/ f = "stopInLoop" /\ StopInLoop
                 \/ f = "resetChannel" /\ ResetChannel
              /\ aborted' = (connector'.failed \/ connector.deleted)
              /\ UNCHANGED <<conns, connection, delayed>>
           \/ f = "forceCloseInLoop" /\ Up(id) /\ HandleClose(id)
           \/ /\ f = "ConnectDestoryed" \/ (f = "forceCloseInLoop" /\ ~Up(id))
              /\ UNCHANGED <<functors, connector, conns, connection, delayed, aborted>>
    /\ UNCHANGED <<pc, revents, client, final, early>>

EndOfFunctors ==
    /\ ~aborted /\ pc = "functors" /\ batch = << >>
    /\ pc' = "poll"
    /\ UNCHANGED <<revents, functors, batch, connector, client, conns, connection, delayed,
                   final, early, aborted>>

-----------------------------------------------------------------------------
Next ==
    \/ \E inLoop \in BOOLEAN : ClientConnect(inLoop)
    \/ Disconnect
    \/ UserForceCloses
    \/ UserForceClosesLater
    \/ Destructor
    \/ Poll
    \/ RetryTimer
    \/ DelayedClose
    \/ HandleWriteFails
    \/ HandleWriteConnects
    \/ HandleConnectionClose
    \/ HandlePendingFunctors
    \/ RunFunctor
    \/ EndOfFunctors

Spec == Init /\ [][Next]_vars

(* The loop turns; timers expire and attempts are decided; a server that is   *)
(* tried again and again is reachable at some time, and answers.  Nothing     *)
(* makes users call or peers close.                                           *)
FairSpec ==
    /\ Spec
    /\ WF_vars(Poll)
    /\ WF_vars(RetryTimer \/ HandleWriteFails \/ HandleWriteConnects \/ HandleConnectionClose)
    /\ WF_vars(HandlePendingFunctors)
    /\ WF_vars(RunFunctor)
    /\ WF_vars(EndOfFunctors)
    /\ SF_vars(Poll /\ {"timer", "write"} \cap revents' # {})
    /\ SF_vars(RetryTimer /\ connector'.state = "kConnecting")
    /\ SF_vars(HandleWriteConnects)

-----------------------------------------------------------------------------
(* Properties                                                                 *)

(* As long as connect() and the destructor come when the connector rests, and *)
(* no delayed close comes too early, at most one of these exists: a retry     *)
(* timer, an attempt, a connection.  The connector's one open socket is that  *)
(* of the attempt: each other is closed or handed over, whatever the errors   *)
(* and their order.                                                           *)
AttemptInv ==
    /\ TypeOK
    /\ early = {} =>
         /\ connector.state = "kConnecting" <=> connector.channel = "polled"
         /\ connector.sockets = IF connector.state = "kConnecting" THEN 1 ELSE 0
         /\ connector.timers = 1 => connector.state = "kDisconnected"
         /\ connector.timers <= 1
         /\ connection # 0 => connector.state = "kConnected" /\ Up(connection)
         /\ connector.retryDelayMs \in kInitRetryDelayMs..kMaxRetryDelayMs

(* No assert fails and no functor of the connector outlives it, as long as    *)
(* connect() finds the connector at rest, which it is not after a connection  *)
(* was made, and the client is destroyed with a connection whose connector    *)
(* has come to rest.  Without that startInLoop or ~Connector asserts, or      *)
(* stopInLoop runs with a connector that is gone.  And as long as the timer   *)
(* of a delayed close does not come before the handler of what the poll has   *)
(* reported for the connection, where handleClose asserts then, nor before    *)
(* resetChannel when the close starts the connector, where connecting does.   *)
NoAssertFails == aborted => early # {}

(* disconnect() of a connection is the end: the connector does not start      *)
(* again, whichever way the connection closes.                                *)
DisconnectIsFinal ==
    final /\ early \subseteq {"destroy"} => connector.state # "kConnecting" /\ connector.timers = 0

(* A client that was told to connect, or that lost a connection and retries,  *)
(* gets its next connection, unless it is told to disconnect, it is           *)
(* destroyed, or connect() failed in a way that is not tried again.           *)
Wants == Alive /\ client.started /\ client.enableConnect /\ connection = 0
ConnectsAgain ==
    \A n \in 0..(MaxConns - 1) :
        Wants /\ Len(conns) = n /\ (n > 0 => client.retry) ~>
            Len(conns) > n \/ ~Wants \/ connector.gaveUp \/ aborted
=============================================================================
