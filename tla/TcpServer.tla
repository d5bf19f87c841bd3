------------------------------ MODULE TcpServer ------------------------------
(* net/TcpServer.cpp, with the parts of TcpConnection.cpp it drives, over its *)
(* Acceptor and EventLoopThreadPool: connections are accepted, created and    *)
(* forgotten in the base loop, and live in the loop the round robin gave      *)
(* them.  Whatever one thread has for a loop travels as a functor in that     *)
(* loop's queue.  TcpConnection models what happens to one connection's data. *)
EXTENDS Naturals, Sequences, SequencesExt, FiniteSets

CONSTANTS
    BaseLoop,       \* eventloop_: acceptor and connections_
    ThreadPools,    \* what setThreadNum may ask for: no loops, or some in order
    FdLimits,       \* for how many connections the process may have descriptors
    MaxConns,       \* bound: connections that arrive
    MaxFunctors     \* bound: functors of one kind not yet run, for one connection

ASSUME ServerAssumption ==
    /\ \A pool \in ThreadPools :      \* every thread builds a loop of its own
         pool \in Seq(Range(pool)) /\ IsInjective(pool) /\ BaseLoop \notin Range(pool)
    /\ FdLimits \subseteq Nat
    /\ MaxConns \in Nat /\ MaxFunctors \in Nat

Conns == 1..MaxConns    \* by the name newConnection gives them, in the order they arrived
IoLoops == UNION {Range(pool) : pool \in ThreadPools}
Loops == {BaseLoop} \cup IoLoops

VARIABLES
    numThreads, loops, nextLoopIdx, starter, thread,    \* EventLoopThreadPool
    isListening, acceptable, backlog, fdLimit,          \* Acceptor
    connections,    \* connections_
    nextConnId,
    queue,          \* each loop's functors, as pairs of a function and a connection
    conn,           \* each connection: see NoConn
    peerClosed,     \* connections whose peer has closed
    call,           \* a worker thread's call on a connection: see Calls
    late,           \* connections with a functor queued after they were reported down
    overwritten,    \* a call's setState landed on KDisconnected
    aborted         \* an assert failed

Pool == INSTANCE EventLoopThreadPool
Acc == INSTANCE Acceptor

poolVars == <<numThreads, loops, nextLoopIdx, starter, thread>>
acceptorVars == <<isListening, acceptable, backlog, fdLimit>>
serverVars == <<connections, nextConnId, queue, conn, peerClosed, call, late, overwritten, aborted>>
vars == <<poolVars, acceptorVars, serverVars>>

States == {"KConnecting", "KConnected", "KDisconnecting", "KDisconnected"}
RawFunctors == {"sendInLoop", "shutdownInLoop"}     \* bound to this, the others to a reference
Functors == RawFunctors \cup
    {"ConnectEstablished", "ConnectDestoryed", "removeConnectionInLoop", "forceCloseInLoop"}

(* A call has tested state_; or it has set KDisconnecting and has yet to      *)
(* queue its functor.                                                         *)
Tested == {"send", "shutdown", "forceClose"}
Written == {"shutdownQueues", "forceCloseQueues"}
Calls == {"none"} \cup Tested \cup Written

(* state_, loop and descriptor; whether the channel is in the loop's poller   *)
(* and has interest in reads; and the history of the connection callback: how *)
(* often it reported the connection up and down.                              *)
NoConn == [state |-> "absent", loop |-> BaseLoop, fd |-> Acc!NoFd, added |-> FALSE,
           read |-> FALSE, ups |-> 0, downs |-> 0]

TypeOK ==
    /\ Pool!PoolTypeOK /\ Acc!AcceptorTypeOK
    /\ connections \subseteq Conns
    /\ nextConnId \in 1..(MaxConns + 1)
    /\ queue \in [Loops -> Seq(Functors \X Conns)]
    /\ conn \in [Conns -> [state : States \cup {"absent", "destroyed"}, loop : Loops,
                           fd : Nat, added : BOOLEAN, read : BOOLEAN, ups : Nat, downs : Nat]]
    /\ peerClosed \subseteq Conns /\ late \subseteq Conns
    /\ call \in [Conns -> Calls]
    /\ overwritten \in BOOLEAN /\ aborted \in BOOLEAN

Init ==
    /\ numThreads \in ThreadPools /\ Pool!PoolInit
    /\ fdLimit \in FdLimits /\ Acc!AcceptorInit
    /\ connections = {}
    /\ nextConnId = 1
    /\ queue = [l \in Loops |-> << >>]
    /\ conn = [c \in Conns |-> NoConn]
    /\ peerClosed = {} /\ late = {}
    /\ call = [c \in Conns |-> "none"]
    /\ overwritten = FALSE /\ aborted = FALSE

Up(c) == conn[c].state \in {"KConnected", "KDisconnecting"}
Pending(c) == nextConnId <= c /\ c < nextConnId + backlog
Exists(c) == conn[c].state \in States
Count(f, c) == Len(SelectSeq(queue[conn[c].loop], LAMBDA g : g = <<f, c>>))
Queued(f, c) == \E l \in Loops : Contains(queue[l], <<f, c>>)

(* Mutant: handleClose closes the descriptor.                                 *)
OpenDescriptorsUntilClosed == {conn[c].fd : c \in {d \in Conns : Exists(d) /\ ~(conn[d].state = "KDisconnected")}}

(* ~Socket, and so ~TcpConnection, is what closes a descriptor.               *)
OpenDescriptors == {conn[c].fd : c \in {d \in Conns : Exists(d)}}

(* The channels in one loop's poller.                                         *)
Registered(l) == {c \in Conns : conn[c].added /\ conn[c].loop = l}

(* Bound: once overwritten, nothing new is asked of the server; what it has   *)
(* to do is still carried out.                                                *)
MayAsk == ~aborted /\ ~overwritten

(* queueInLoop, when the queues are q otherwise.                              *)
Push(q, l, f, c) == [q EXCEPT ![l] = Append(@, <<f, c>>)]

-----------------------------------------------------------------------------
(* Starting, in the base thread.                                              *)

StartPool ==
    /\ Pool!CreateThread \/ Pool!StartLoop
    /\ UNCHANGED <<acceptorVars, serverVars>>

SpuriousWakeup ==
    /\ Pool!SpuriousWakeup
    /\ UNCHANGED <<acceptorVars, serverVars>>

ThreadFunc(l) ==
    /\ Pool!ThreadFunc(l)
    /\ UNCHANGED <<acceptorVars, serverVars>>

Listen ==
    /\ starter = "started"
    /\ Acc!Listen
    /\ UNCHANGED <<poolVars, serverVars>>

(* A loop runs handlers only once its thread is in loop().                    *)
Turning(l) == IF l = BaseLoop THEN starter = "started" ELSE thread[l] = "looping"

-----------------------------------------------------------------------------
(* New connections, in the base loop.                                         *)

Arrive ==
    /\ MayAsk
    /\ nextConnId + backlog <= MaxConns
    /\ Acc!Arrive
    /\ UNCHANGED <<poolVars, serverVars>>

(* EnableReadEvent puts the channel in the poller.                            *)
ConnectEstablished(r) ==
    [r EXCEPT !.state = "KConnected", !.added = TRUE, !.read = TRUE, !.ups = @ + 1]

(* What the poller asserts of a channel it does not know.                     *)
FdIsNew(l, fd) == \A c \in Registered(l) : conn[c].fd # fd

(* runInLoop establishes the connection at once when it stays in this loop.   *)
NewConnection(fd) ==
    LET c   == nextConnId
        io  == Pool!GetNextLoop
        new == [NoConn EXCEPT !.state = "KConnecting", !.loop = io, !.fd = fd]
    IN  /\ connections' = connections \cup {c}
        /\ nextConnId' = nextConnId + 1
        /\ Pool!AdvanceNextLoop
        /\ IF io = BaseLoop
           THEN /\ conn' = [conn EXCEPT ![c] = ConnectEstablished(new)]
                /\ aborted' = ~FdIsNew(io, fd)
                /\ UNCHANGED queue
           ELSE /\ conn' = [conn EXCEPT ![c] = new]
                /\ queue' = Push(queue, io, "ConnectEstablished", c)
                /\ UNCHANGED aborted
        /\ UNCHANGED <<numThreads, loops, starter, thread, peerClosed, call, late, overwritten>>

HandleAccept ==
    /\ ~aborted
    /\ \/ /\ Acc!HandleReadAccepts(OpenDescriptors)
          /\ NewConnection(Acc!Accept(OpenDescriptors))
       \/ Acc!HandleReadFails(OpenDescriptors) /\ UNCHANGED <<poolVars, serverVars>>

-----------------------------------------------------------------------------
(* Closing.                                                                   *)

(* Mutant: the connection stays in connections_.                              *)
RemoveConnectionInLoopKeeps(c, q) ==
    /\ UNCHANGED <<aborted, connections>>
    /\ queue' = Push(q, conn[c].loop, "ConnectDestoryed", c)

(* Mutant: the last functor is not queued in the connection's loop.           *)
RemoveConnectionInLoopForgets(c, q) ==
    /\ aborted' = (c \notin connections)
    /\ connections' = connections \ {c}
    /\ queue' = q

(* removeConnectionInLoop, in the base loop.                                  *)
RemoveConnectionInLoop(c, q) ==
    /\ aborted' = (c \notin connections)
    /\ connections' = connections \ {c}
    /\ queue' = Push(q, conn[c].loop, "ConnectDestoryed", c)

(* State, interest and callback of a connection that goes down.               *)
TakeDown(r) == [r EXCEPT !.state = "KDisconnected", !.read = FALSE, !.downs = @ + 1]

(* Mutant: without the close callback.                                        *)
HandleCloseSilent(c, q) ==
    /\ conn' = [conn EXCEPT ![c] = TakeDown(@)]
    /\ queue' = q
    /\ UNCHANGED <<connections, aborted>>

(* handleClose: the connection callback, then the close callback, which is    *)
(* TcpServer::removeConnection.                                               *)
HandleClose(c, q) ==
    IF Up(c)
    THEN /\ conn' = [conn EXCEPT ![c] = TakeDown(@)]
         /\ IF conn[c].loop = BaseLoop
            THEN RemoveConnectionInLoop(c, q)
            ELSE /\ queue' = Push(q, BaseLoop, "removeConnectionInLoop", c)
                 /\ UNCHANGED <<connections, aborted>>
    ELSE /\ aborted' = TRUE
         /\ queue' = q
         /\ UNCHANGED <<conn, connections>>

(* The connection's loop reads the end of the stream or a hang-up.            *)
HandleEvent(c) ==
    /\ ~aborted
    /\ conn[c].read /\ c \in peerClosed
    /\ HandleClose(c, queue)
    /\ UNCHANGED <<poolVars, acceptorVars, nextConnId, peerClosed, call, late, overwritten>>

(* User code in the connection's loop closes it.                              *)
Shutdown(c) ==
    /\ MayAsk
    /\ conn[c].state = "KConnected"
    /\ conn' = [conn EXCEPT ![c].state = "KDisconnecting"]
    /\ UNCHANGED <<poolVars, acceptorVars, connections, nextConnId, queue, peerClosed, call, late,
                   overwritten, aborted>>

ForceClose(c) ==
    /\ MayAsk
    /\ Up(c)
    /\ Count("forceCloseInLoop", c) < MaxFunctors
    /\ conn' = [conn EXCEPT ![c].state = "KDisconnecting"]
    /\ queue' = Push(queue, conn[c].loop, "forceCloseInLoop", c)
    /\ UNCHANGED <<poolVars, acceptorVars, connections, nextConnId, peerClosed, call, late,
                   overwritten, aborted>>

PeerCloses(c) ==
    /\ MayAsk
    /\ Exists(c) \/ Pending(c)
    /\ c \notin peerClosed
    /\ peerClosed' = peerClosed \cup {c}
    /\ UNCHANGED <<poolVars, acceptorVars, connections, nextConnId, queue, conn, call, late,
                   overwritten, aborted>>

-----------------------------------------------------------------------------
(* The same calls, and send, by a worker thread that has a reference to the   *)
(* connection while it calls.  state_ is atomic only in each access, so the   *)
(* connection's loop may act between the steps of a call.                     *)

FunctorOf(pc) == CASE pc = "send" -> "sendInLoop"
                   [] pc = "shutdownQueues" -> "shutdownInLoop"
                   [] pc = "forceCloseQueues" -> "forceCloseInLoop"
                   [] OTHER -> "none"

CallTests(c, op) ==
    /\ MayAsk
    /\ \A d \in Conns : call[d] = "none"
    /\ IF op = "forceClose" THEN Up(c) ELSE conn[c].state = "KConnected"
    /\ \A f \in RawFunctors \cup {"forceCloseInLoop"} : Count(f, c) < MaxFunctors
    /\ call' = [call EXCEPT ![c] = op]
    /\ UNCHANGED <<poolVars, acceptorVars, connections, nextConnId, queue, conn, peerClosed, late,
                   overwritten, aborted>>

CallSetsState(c) ==
    /\ ~aborted
    /\ call[c] \in {"shutdown", "forceClose"}
    /\ conn' = [conn EXCEPT ![c].state = "KDisconnecting"]
    /\ overwritten' = (overwritten \/ conn[c].state = "KDisconnected")
    /\ call' = [call EXCEPT ![c] = IF @ = "shutdown" THEN "shutdownQueues" ELSE "forceCloseQueues"]
    /\ UNCHANGED <<poolVars, acceptorVars, connections, nextConnId, queue, peerClosed, late, aborted>>

CallQueues(c) ==
    /\ ~aborted
    /\ call[c] \in {"send"} \cup Written
    /\ queue' = Push(queue, conn[c].loop, FunctorOf(call[c]), c)
    /\ late' = IF conn[c].downs > 0 THEN late \cup {c} ELSE late
    /\ call' = [call EXCEPT ![c] = "none"]
    /\ UNCHANGED <<poolVars, acceptorVars, connections, nextConnId, conn, peerClosed, overwritten, aborted>>

Call(c) == CallSetsState(c) \/ CallQueues(c)

-----------------------------------------------------------------------------
(* Functors of a loop.                                                        *)

EstablishFunctor(c, q) ==
    /\ aborted' = (conn[c].state # "KConnecting" \/ ~FdIsNew(conn[c].loop, conn[c].fd))
    /\ conn' = [conn EXCEPT ![c] = ConnectEstablished(@)]
    /\ queue' = q
    /\ UNCHANGED connections

(* Mutant: the state is not tested again.                                     *)
ForceCloseInLoopUnchecked(c, q) == HandleClose(c, q)

ForceCloseInLoop(c, q) ==
    IF Up(c) THEN HandleClose(c, q)
    ELSE queue' = q /\ UNCHANGED <<conn, connections, aborted>>

(* Mutant: a connection that is down is reported down again.                  *)
DestroyReportsAlways(c) == TRUE

(* A connection that is still up is reported down; then the channel leaves    *)
(* the poller, which knows it and insists that it has no interest left.       *)
DestroyReports(c) == conn[c].state = "KConnected"

ConnectDestoryed(c, q) ==
    LET r == IF DestroyReports(c) THEN TakeDown(conn[c]) ELSE conn[c]
    IN  /\ conn' = [conn EXCEPT ![c] = [r EXCEPT !.added = FALSE]]
        /\ aborted' = (r.read \/ ~r.added)
        /\ queue' = q
        /\ UNCHANGED connections

(* What reaches the socket or the buffer only is not part of this module.     *)
RunFunctor(l) ==
    /\ ~aborted
    /\ Turning(l) /\ queue[l] # << >>
    /\ LET f    == Head(queue[l])[1]
           c    == Head(queue[l])[2]
           rest == [queue EXCEPT ![l] = Tail(@)]
       IN  CASE f = "ConnectEstablished" -> EstablishFunctor(c, rest)
             [] f = "forceCloseInLoop" -> ForceCloseInLoop(c, rest)
             [] f = "ConnectDestoryed" -> ConnectDestoryed(c, rest)
             [] f = "removeConnectionInLoop" -> RemoveConnectionInLoop(c, rest) /\ UNCHANGED conn
             [] f \in RawFunctors -> queue' = rest /\ UNCHANGED <<conn, connections, aborted>>
    /\ UNCHANGED <<poolVars, acceptorVars, nextConnId, peerClosed, call, late, overwritten>>

(* ~TcpConnection, when no reference is left, closes the descriptor.          *)
Destructor(c) ==
    /\ ~aborted
    /\ Exists(c) /\ c \notin connections
    /\ call[c] = "none"
    /\ \A f \in Functors \ RawFunctors : ~Queued(f, c)
    /\ conn' = [conn EXCEPT ![c].state = "destroyed", ![c].fd = Acc!NoFd]
    /\ aborted' = (conn[c].state # "KDisconnected")
    /\ UNCHANGED <<poolVars, acceptorVars, connections, nextConnId, queue, peerClosed, call, late,
                   overwritten>>

-----------------------------------------------------------------------------
Next ==
    \/ StartPool
    \/ SpuriousWakeup
    \/ Listen
    \/ Arrive
    \/ HandleAccept
    \/ \E l \in IoLoops : ThreadFunc(l)
    \/ \E l \in Loops : RunFunctor(l)
    \/ \E c \in Conns : \/ HandleEvent(c)
                        \/ Shutdown(c)
                        \/ ForceClose(c)
                        \/ PeerCloses(c)
                        \/ \E op \in Tested : CallTests(c, op)
                        \/ Call(c)
                        \/ Destructor(c)

Spec == Init /\ [][Next]_vars

(* Threads run, loops turn, a call returns, and references are dropped when   *)
(* the code drops them.  Nothing makes a wait return but a notification.      *)
FairSpec ==
    /\ Spec
    /\ WF_vars(StartPool) /\ WF_vars(Listen) /\ WF_vars(HandleAccept)
    /\ \A l \in IoLoops : WF_vars(ThreadFunc(l))
    /\ \A l \in Loops : WF_vars(RunFunctor(l))
    /\ \A c \in Conns : WF_vars(HandleEvent(c)) /\ WF_vars(Call(c)) /\ WF_vars(Destructor(c))

-----------------------------------------------------------------------------
(* Properties                                                                 *)

(* The base thread takes a loop only when its thread has built and published  *)
(* it, whatever wakes the wait, and takes them in order; so no functor is     *)
(* queued in a loop that does not exist, and no two threads are in EventLoop's *)
(* constructor, which counts loopNextIdx_ without a lock, at once.            *)
LoopsPublished ==
    /\ IsPrefix(loops, numThreads)
    /\ \A l \in IoLoops : Contains(loops, l) \/ queue[l] # << >> => Pool!Published(l)
    /\ \A k, l \in IoLoops : thread[k] = "preparing" /\ thread[l] = "preparing" => k = l

(* Descriptors are numbers the kernel gives out again.  A registered channel's *)
(* is open and its own, so what a poller reports of a number is never meant   *)
(* for a connection that had it before.                                       *)
DescriptorInv ==
    \A c, d \in Conns :
        /\ conn[c].added => conn[c].fd \in OpenDescriptors
        /\ conn[c].added /\ Exists(d) /\ conn[c].fd = conn[d].fd => c = d

(* connections_ holds exactly the connections that are being established, are *)
(* up, or are down with their removal on its way to the base loop, which      *)
(* comes once; and a connection's last functor follows its removal.           *)
MapInv ==
    /\ TypeOK
    /\ ~overwritten => \A c \in Conns :
         /\ c \in connections <=>
              conn[c].state = "KConnecting" \/ Up(c) \/ Queued("removeConnectionInLoop", c)
         /\ Queued("ConnectDestoryed", c) =>
              conn[c].state = "KDisconnected" /\ c \notin connections

(* The user's connection callback says up once and down once, in this order,  *)
(* before the connection is destroyed, however many closes of however many    *)
(* threads come together.                                                     *)
CallbacksPaired ==
    ~overwritten => \A c \in Conns :
        /\ conn[c].downs <= conn[c].ups /\ conn[c].ups <= 1
        /\ Up(c) => conn[c].ups = 1 /\ conn[c].downs = 0
        /\ conn[c].state = "destroyed" => conn[c].downs = 1

(* Of the calls of this module, in every order of the threads' steps, only    *)
(* one makes an assert fail: a connection goes down between a call's test of  *)
(* state_ and its write.  forceCloseWithDelay is not among them: it and the   *)
(* assert its timer can break are in TcpConnection and TcpClient.             *)
NoAssertFails == aborted => overwritten

(* A functor that holds no reference finds its connection alive, because the  *)
(* functor that holds the last one is behind it in the same queue; unless the *)
(* connection went down between a call's test and its queueInLoop.            *)
RawFunctorsSafe ==
    \A c \in Conns : (\E f \in RawFunctors : Queued(f, c)) => Exists(c) \/ c \in late

(* A connection whose peer closed, or that is closed by force, is taken out   *)
(* of the server and destroyed, through both loops.                           *)
ClosedIsDestroyed ==
    \A c \in Conns :
        (c \in peerClosed /\ Exists(c)) \/ Queued("forceCloseInLoop", c)
            ~> conn[c].state = "destroyed" \/ overwritten

(* The server comes to listen, and a connection in the backlog is reported up *)
(* although its loop's thread may not have entered loop() yet; with no        *)
(* descriptor left it waits, and is not forgotten when one is closed.         *)
Served ==
    /\ <>isListening
    /\ \A c \in Conns :
         Pending(c)
            ~> conn[c].ups > 0 \/ Cardinality(OpenDescriptors) = fdLimit \/ overwritten
=============================================================================
