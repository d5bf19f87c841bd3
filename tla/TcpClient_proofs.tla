--------------------------- MODULE TcpClient_proofs ---------------------------
(* Theorems of TcpClient, for any delays and any number of connections.       *)
EXTENDS TcpClient, Integers, SequenceTheorems, TLAPS

-----------------------------------------------------------------------------
(* What a queue s holds, and in which order.                                  *)

In(s, x) == \E i \in 1..Len(s) : s[i] = x
AtMostOnce(s, x) == \A i, j \in 1..Len(s) : s[i] = x /\ s[j] = x => i = j
Before(s, x, y) == \E i, j \in 1..Len(s) : i < j /\ s[i] = x /\ s[j] = y

Start == <<"startInLoop", 0>>
Stop == <<"stopInLoop", 0>>
ResetC == <<"resetChannel", 0>>
Forced(id) == <<"forceCloseInLoop", id>>

Pending(f) == In(functors, f) \/ In(batch, f)

-----------------------------------------------------------------------------
(* The inductive invariant                                                    *)

(* The delayed close that waits is one of a connection that is up.            *)
DelayedUp == delayed # 0 => Up(delayed)

(* At all times, also when connect, the destructor or a delayed close came    *)
(* too early: what is closed or counted down is there.                        *)
AlwaysInv ==
    /\ TypeOK
    /\ Len(conns) <= MaxConns
    /\ connector.state = "kConnecting" => connector.sockets >= 1
    /\ "timer" \in revents => connector.timers >= 1
    /\ \A id \in 1..MaxConns : Pending(Forced(id)) => id <= Len(conns)
    /\ "destroy" \in early => ~Alive
    /\ DelayedUp

(* The connector's own functors.  resetChannel runs in the turn of the loop   *)
(* whose handler queued it, and before a close of the connection that the     *)
(* same handler made: until then the channel is "removed".                    *)
FunctorInv ==
    /\ batch # << >> => pc = "functors"
    /\ revents # {} => pc = "dispatch"
    /\ Pending(Start) => /\ connector.state = "kDisconnected" /\ connector.timers = 0
                         /\ connector.channel = "none"
    /\ AtMostOnce(functors, Start) /\ AtMostOnce(batch, Start)
    /\ ~(In(functors, Start) /\ In(batch, Start))
    /\ ~Pending(Stop)
    /\ connector.channel = "removed" <=> Pending(ResetC)
    /\ AtMostOnce(functors, ResetC) /\ AtMostOnce(batch, ResetC)
    /\ In(functors, ResetC) => pc = "dispatch"
    /\ \A id \in DOMAIN conns : Up(id) => /\ ~Before(functors, Forced(id), ResetC)
                                          /\ ~Before(batch, Forced(id), ResetC)

(* One attempt, timer or connection at a time.                                *)
StateInv ==
    /\ ~aborted /\ ~connector.failed
    /\ connector.state = "kConnecting" <=> connector.channel = "polled"
    /\ connector.sockets = IF connector.state = "kConnecting" THEN 1 ELSE 0
    /\ connector.timers = 1 => connector.state = "kDisconnected"
    /\ connector.timers <= 1
    /\ connection # 0 => connector.state = "kConnected" /\ Up(connection)
    /\ connector.retryDelayMs \in kInitRetryDelayMs..kMaxRetryDelayMs
    /\ connector.state = "kDisconnected" /\ connector.channel = "removed" => connector.timers = 1
    /\ "write" \in revents => connector.channel = "polled"
    /\ "timer" \in revents => connector.channel = "none"
    /\ "close" \in revents => connector.channel = "none" /\ connector.state = "kConnected"
    /\ "close" \in revents => \E id \in DOMAIN conns : Up(id)
    /\ Alive => /\ ~connector.deleted
                /\ connector.state = "kConnecting" \/ connector.timers = 1 => connector.enableConnect
                /\ \A id \in DOMAIN conns : Up(id) => id = connection
    /\ ~Alive => /\ connector.state = "kConnected" /\ connector.channel = "none"
                 /\ connector.timers = 0 /\ connection = 0

(* disconnect() found a connection, so the connector was at rest; only the    *)
(* client's own connect() wakes it.                                           *)
FinalInv ==
    /\ connector.state = "kConnected" /\ connector.timers = 0
    /\ ~client.enableConnect /\ ~Pending(Start)

ClientInv ==
    /\ AlwaysInv
    /\ early = {} => FunctorInv /\ StateInv
    /\ final /\ early \subseteq {"destroy"} => FinalInv


-----------------------------------------------------------------------------
(* Queues                                                                     *)

LEMMA AppendHas ==
    ASSUME NEW S, NEW s \in Seq(S), NEW e \in S
    PROVE  /\ Append(s, e) \in Seq(S)
           /\ \A x : /\ In(Append(s, e), x) <=> In(s, x) \/ x = e
                     /\ AtMostOnce(s, x) /\ ~(x = e /\ In(s, x)) => AtMostOnce(Append(s, e), x)
           /\ \A x, y : Before(Append(s, e), x, y) <=> Before(s, x, y) \/ (In(s, x) /\ y = e)
  <1> DEFINE r == Append(s, e)
             m == Len(s)
  <1>1. /\ m \in Nat /\ Len(r) = m + 1 /\ r[m + 1] = e
        /\ \A i \in 1..m : r[i] = s[i]
        /\ \A i \in 1..(m + 1) : i \in 1..m \/ i = m + 1
    OBVIOUS
  <1> HIDE DEF r, m
  <1>2. ASSUME NEW x PROVE In(r, x) <=> In(s, x) \/ x = e
    BY <1>1 DEF In, m
  <1>3. ASSUME NEW x, AtMostOnce(s, x), ~(x = e /\ In(s, x)) PROVE AtMostOnce(r, x)
    BY <1>1, <1>3 DEF In, AtMostOnce, m
  <1>4. r \in Seq(S)
    BY DEF r
  <1>5. ASSUME NEW x, NEW y PROVE Before(r, x, y) <=> Before(s, x, y) \/ (In(s, x) /\ y = e)
    BY <1>1 DEF In, Before, m
  <1> QED
    BY <1>2, <1>3, <1>4, <1>5 DEF r

LEMMA TailHas ==
    ASSUME NEW S, NEW s \in Seq(S), s # << >>
    PROVE  /\ Head(s) \in S /\ In(s, Head(s)) /\ Tail(s) \in Seq(S)
           /\ \A x : /\ In(Tail(s), x) => In(s, x)
                     /\ AtMostOnce(s, x) => AtMostOnce(Tail(s), x)
                     /\ AtMostOnce(s, x) /\ x = Head(s) => ~In(Tail(s), x)
                     /\ In(s, x) => In(Tail(s), x) \/ x = Head(s)
                     /\ In(Tail(s), x) => Before(s, Head(s), x)
           /\ \A x, y : Before(Tail(s), x, y) => Before(s, x, y)
  <1> DEFINE r == Tail(s)
             m == Len(s)
             h == Head(s)
  <1>1. /\ m \in Nat \ {0} /\ h = s[1] /\ Len(r) = m - 1
        /\ \A i \in 1..(m - 1) : i + 1 \in 1..m /\ r[i] = s[i + 1]
    OBVIOUS
  <1>2. r \in Seq(S) /\ h \in S
    OBVIOUS
  <1> HIDE DEF r, m, h
  <1>3. In(s, h)
    BY <1>1 DEF In, m
  <1>4. ASSUME NEW x, In(r, x) PROVE In(s, x)
    BY <1>1, <1>4 DEF In, m
  <1>5. ASSUME NEW x, AtMostOnce(s, x) PROVE AtMostOnce(r, x)
    <2> SUFFICES ASSUME NEW i \in 1..(m - 1), NEW j \in 1..(m - 1), r[i] = x, r[j] = x
                 PROVE  i = j
      BY <1>1 DEF AtMostOnce
    <2>1. i + 1 = j + 1
      BY <1>1, <1>5 DEF AtMostOnce, m
    <2> QED
      BY <2>1
  <1>6. ASSUME AtMostOnce(s, h) PROVE ~In(r, h)
    <2> SUFFICES ASSUME NEW i \in 1..(m - 1), r[i] = h
                 PROVE  FALSE
      BY <1>1 DEF In
    <2>1. i + 1 = 1
      BY <1>1, <1>6 DEF AtMostOnce, m
    <2> QED
      BY <2>1
  <1>7. ASSUME NEW x, In(s, x) PROVE In(r, x) \/ x = h
    <2>1. PICK i \in 1..m : s[i] = x
      BY <1>7 DEF In, m
    <2>2. CASE i = 1
      BY <1>1, <2>1, <2>2
    <2>3. CASE i # 1
      <3>1. i - 1 \in 1..(m - 1) /\ (i - 1) + 1 = i
        BY <1>1, <2>1, <2>3
      <3>2. r[i - 1] = x
        BY <1>1, <2>1, <3>1
      <3> QED
        BY <1>1, <3>1, <3>2 DEF In
    <2> QED
      BY <2>2, <2>3
  <1>8. ASSUME NEW x, In(r, x) PROVE Before(s, h, x)
    <2>1. PICK i \in 1..(m - 1) : r[i] = x
      BY <1>1, <1>8 DEF In
    <2>2. i + 1 \in 1..m /\ 1 \in 1..m /\ 1 < i + 1 /\ s[i + 1] = x /\ s[1] = h
      BY <1>1, <2>1
    <2> QED
      BY <2>2 DEF Before, m
  <1>9. ASSUME NEW x, NEW y, Before(r, x, y) PROVE Before(s, x, y)
    <2>1. PICK i \in 1..(m - 1), j \in 1..(m - 1) : i < j /\ r[i] = x /\ r[j] = y
      BY <1>1, <1>9 DEF Before
    <2>2. i + 1 \in 1..m /\ j + 1 \in 1..m /\ i + 1 < j + 1 /\ s[i + 1] = x /\ s[j + 1] = y
      BY <1>1, <2>1
    <2> QED
      BY <2>2 DEF Before, m
  <1> QED
    BY <1>2, <1>3, <1>4, <1>5, <1>6, <1>7, <1>8, <1>9 DEF r, h

LEMMA EmptyHas == \A x, y : ~In(<< >>, x) /\ AtMostOnce(<< >>, x) /\ ~Before(<< >>, x, y)
  BY DEF In, AtMostOnce, Before

-----------------------------------------------------------------------------
(* What Connector's functions make of it.                                     *)

Connectors ==
    [state : {"kDisconnected", "kConnecting", "kConnected"},
     enableConnect : BOOLEAN, retryDelayMs : Nat,
     channel : {"none", "polled", "removed"}, sockets : Nat, timers : Nat,
     gaveUp : BOOLEAN, failed : BOOLEAN, deleted : BOOLEAN]

(* d is c after one of its sockets was closed and perhaps a timer started.    *)
RetryGives(c, d) ==
    /\ d \in Connectors /\ d.state = "kDisconnected" /\ d.sockets = c.sockets - 1
    /\ d.timers = IF c.enableConnect THEN c.timers + 1 ELSE c.timers
    /\ d.channel = c.channel /\ d.enableConnect = c.enableConnect
    /\ d.failed = c.failed /\ d.deleted = c.deleted
    /\ d.retryDelayMs \in {c.retryDelayMs, LongerDelay(c.retryDelayMs)}

LEMMA DelayBounds ==
    ASSUME NEW n \in Nat
    PROVE  /\ LongerDelay(n) \in Nat
           /\ n \in kInitRetryDelayMs..kMaxRetryDelayMs =>
                LongerDelay(n) \in kInitRetryDelayMs..kMaxRetryDelayMs
  BY ClientAssumption DEF LongerDelay

LEMMA RetryEffect ==
    ASSUME NEW c \in Connectors, c.sockets >= 1
    PROVE  RetryGives(c, Retry(c))
  <1> DEFINE l == LongerDelay(c.retryDelayMs)
  <1>1. c.sockets - 1 \in Nat /\ c.timers + 1 \in Nat /\ l \in Nat
    BY DelayBounds DEF Connectors
  <1> HIDE DEF l
  <1>2. CASE c.enableConnect
    <2>1. Retry(c) = [c EXCEPT !.state = "kDisconnected", !.sockets = c.sockets - 1,
                               !.timers = c.timers + 1, !.retryDelayMs = l]
      BY <1>2 DEF Retry, l
    <2> QED
      BY <1>1, <1>2, <2>1 DEF Connectors, RetryGives, l
  <1>3. CASE ~c.enableConnect
    <2>1. Retry(c) = [c EXCEPT !.state = "kDisconnected", !.sockets = c.sockets - 1]
      BY <1>3 DEF Retry
    <2> QED
      BY <1>1, <1>3, <2>1 DEF Connectors, RetryGives
  <1> QED
    BY <1>2, <1>3


(* d is what startInLoop may make of c.                                       *)
StartGives(c, d) ==
    /\ d \in Connectors /\ d.timers \in {c.timers, c.timers + 1}
    /\ d.state = "kConnecting" => d.sockets >= 1
    /\ d.deleted = c.deleted /\ d.enableConnect = c.enableConnect

(* A connector that rests, and what a start makes of it.                      *)
Rests(c) ==
    /\ c.state = "kDisconnected" /\ c.channel = "none" /\ c.sockets = 0 /\ c.timers = 0
    /\ ~c.failed /\ c.retryDelayMs \in kInitRetryDelayMs..kMaxRetryDelayMs

Attempts(d) ==
    /\ ~d.failed /\ d.channel # "removed"
    /\ d.state = "kConnecting" <=> d.channel = "polled"
    /\ d.state \in {"kDisconnected", "kConnecting"}
    /\ d.sockets = IF d.state = "kConnecting" THEN 1 ELSE 0
    /\ d.timers <= 1 /\ (d.timers = 1 => d.state = "kDisconnected")
    /\ d.state = "kConnecting" \/ d.timers = 1 => d.enableConnect
    /\ d.retryDelayMs \in kInitRetryDelayMs..kMaxRetryDelayMs

LEMMA ConnectingEffect ==
    ASSUME NEW c \in Connectors
    PROVE  LET d == Connecting(c) IN
           /\ d \in Connectors /\ d.state = "kConnecting" /\ d.channel = "polled"
           /\ d.sockets = c.sockets /\ d.timers = c.timers /\ d.deleted = c.deleted
           /\ d.enableConnect = c.enableConnect /\ d.retryDelayMs = c.retryDelayMs
           /\ d.failed <=> c.channel # "none"
  <1> DEFINE b == c.channel # "none"
  <1>1. Connecting(c) = [c EXCEPT !.state = "kConnecting", !.channel = "polled", !.failed = b]
        /\ b \in BOOLEAN
    BY DEF Connecting
  <1> HIDE DEF b
  <1> DEFINE e == [c EXCEPT !.state = "kConnecting", !.channel = "polled"]
  <1>2. Connecting(c) = [e EXCEPT !.failed = b]
    BY <1>1
  <1>3. /\ e \in Connectors /\ e.state = "kConnecting" /\ e.channel = "polled"
        /\ e.sockets = c.sockets /\ e.timers = c.timers /\ e.deleted = c.deleted
        /\ e.enableConnect = c.enableConnect /\ e.retryDelayMs = c.retryDelayMs
    BY DEF Connectors
  <1> HIDE DEF e
  <1>4. /\ [e EXCEPT !.failed = b] \in Connectors /\ [e EXCEPT !.failed = b].state = e.state
        /\ [e EXCEPT !.failed = b].channel = e.channel
        /\ [e EXCEPT !.failed = b].sockets = e.sockets
        /\ [e EXCEPT !.failed = b].timers = e.timers
        /\ [e EXCEPT !.failed = b].deleted = e.deleted
        /\ [e EXCEPT !.failed = b].enableConnect = e.enableConnect
        /\ [e EXCEPT !.failed = b].retryDelayMs = e.retryDelayMs
        /\ [e EXCEPT !.failed = b].failed = b
    BY <1>1, <1>3 DEF Connectors
  <1>5. (Connecting(c).failed = b) /\ (b <=> c.channel # "none")
    BY <1>2, <1>4 DEF b
  <1> QED
    BY <1>2, <1>3, <1>4, <1>5

LEMMA StartEffect ==
    ASSUME NEW c \in Connectors, c.state = "kConnecting" => c.sockets >= 1,
           NEW d \in StartInLoop(c)
    PROVE  StartGives(c, d) /\ (Rests(c) => Attempts(d))
  <1>1. CASE c.state # "kDisconnected"
    <2>1. d = [c EXCEPT !.failed = TRUE]
      BY <1>1 DEF StartInLoop
    <2>2. d \in Connectors /\ d.timers = c.timers /\ d.state = c.state /\ d.sockets = c.sockets
          /\ d.deleted = c.deleted /\ d.enableConnect = c.enableConnect
      BY <2>1 DEF Connectors
    <2> QED
      BY <1>1, <2>2 DEF StartGives, Rests
  <1>2. CASE c.state = "kDisconnected" /\ ~c.enableConnect
    <2>1. d = c
      BY <1>2 DEF StartInLoop
    <2> QED
      BY <1>2, <2>1 DEF StartGives, Rests, Attempts
  <1>3. CASE c.state = "kDisconnected" /\ c.enableConnect
    <2> DEFINE o == [c EXCEPT !.sockets = c.sockets + 1]
    <2>1. d = Connecting(o) \/ d = Retry(o) \/ d = [c EXCEPT !.gaveUp = TRUE]
      BY <1>3 DEF StartInLoop, Connect
    <2>2. /\ o \in Connectors /\ o.sockets = c.sockets + 1 /\ o.sockets >= 1 /\ o.timers = c.timers
          /\ o.deleted = c.deleted /\ o.enableConnect = c.enableConnect /\ o.channel = c.channel
          /\ o.failed = c.failed /\ o.retryDelayMs = c.retryDelayMs
          /\ c.sockets \in Nat /\ c.timers \in Nat /\ c.retryDelayMs \in Nat
      BY DEF Connectors
    <2> HIDE DEF o
    <2>3. CASE d = Connecting(o)
      <3>1. /\ d \in Connectors /\ d.state = "kConnecting" /\ d.channel = "polled"
            /\ d.sockets = o.sockets /\ d.timers = o.timers /\ d.deleted = o.deleted
            /\ d.enableConnect = o.enableConnect /\ d.retryDelayMs = o.retryDelayMs
            /\ d.failed <=> o.channel # "none"
        BY <2>2, <2>3, ConnectingEffect
      <3> QED
        BY <1>3, <2>2, <3>1 DEF StartGives, Rests, Attempts
    <2>4. CASE d = Retry(o)
      <3>1. RetryGives(o, d)
        BY <2>2, <2>4, RetryEffect
      <3>2. c.retryDelayMs \in kInitRetryDelayMs..kMaxRetryDelayMs =>
              d.retryDelayMs \in kInitRetryDelayMs..kMaxRetryDelayMs
        BY <2>2, <3>1, DelayBounds DEF RetryGives
      <3>3. /\ d \in Connectors /\ d.state = "kDisconnected" /\ d.sockets = c.sockets
            /\ d.timers = c.timers + 1 /\ d.channel = c.channel /\ d.failed = c.failed
            /\ d.enableConnect = c.enableConnect /\ d.deleted = c.deleted
        BY <1>3, <2>2, <3>1 DEF RetryGives
      <3> QED
        BY <1>3, <3>2, <3>3 DEF StartGives, Rests, Attempts
    <2>5. CASE d = [c EXCEPT !.gaveUp = TRUE]
      <3>1. /\ d \in Connectors /\ d.state = c.state /\ d.sockets = c.sockets /\ d.timers = c.timers
            /\ d.channel = c.channel /\ d.failed = c.failed /\ d.retryDelayMs = c.retryDelayMs
            /\ d.enableConnect = c.enableConnect /\ d.deleted = c.deleted
        BY <2>5 DEF Connectors
      <3> QED
        BY <1>3, <2>2, <3>1 DEF StartGives, Rests, Attempts
    <2> QED
      BY <2>1, <2>3, <2>4, <2>5
  <1> QED
    BY <1>1, <1>2, <1>3

LEMMA RestartEffect ==
    ASSUME NEW c \in Connectors, NEW d \in Restart(c)
    PROVE  /\ d \in Connectors /\ d.timers \in {c.timers, c.timers + 1} /\ d.enableConnect
           /\ d.state = "kConnecting" => d.sockets >= 1
           /\ d.deleted = c.deleted
           /\ c.channel = "none" /\ c.sockets = 0 /\ c.timers = 0 /\ ~c.failed => Attempts(d)
  <1> DEFINE e == [c EXCEPT !.state = "kDisconnected", !.enableConnect = TRUE,
                            !.retryDelayMs = kInitRetryDelayMs]
  <1>1. d \in StartInLoop(e)
    BY DEF Restart
  <1>2. /\ e \in Connectors /\ e.state = "kDisconnected" /\ e.timers = c.timers
        /\ e.deleted = c.deleted /\ e.enableConnect /\ e.channel = c.channel
        /\ e.sockets = c.sockets /\ e.failed = c.failed /\ e.retryDelayMs = kInitRetryDelayMs
    BY ClientAssumption DEF Connectors
  <1> HIDE DEF e
  <1>3. StartGives(e, d) /\ (Rests(e) => Attempts(d))
    BY <1>1, <1>2, StartEffect
  <1>4. kInitRetryDelayMs \in kInitRetryDelayMs..kMaxRetryDelayMs
    BY ClientAssumption
  <1> QED
    BY <1>2, <1>3, <1>4 DEF StartGives, Rests

(* The channel of an attempt that is decided is removed.                      *)
LEMMA RemoveEffect ==
    ASSUME NEW c \in Connectors
    PROVE  LET d == RemoveChannel(c) IN
           /\ d \in Connectors /\ d.channel = "removed" /\ d.state = c.state
           /\ d.sockets = c.sockets /\ d.timers = c.timers /\ d.enableConnect = c.enableConnect
           /\ d.failed = c.failed /\ d.deleted = c.deleted /\ d.retryDelayMs = c.retryDelayMs
  BY DEF Connectors, RemoveChannel

LEMMA ReleaseEffect ==
    ASSUME NEW c \in Connectors
    PROVE  LET d == Release(c) IN
           /\ d \in Connectors /\ d.channel = c.channel /\ d.state = c.state
           /\ d.sockets = c.sockets /\ d.timers = c.timers /\ d.enableConnect = c.enableConnect
           /\ d.retryDelayMs = c.retryDelayMs
           /\ ~client'.destroyed => d = c
           /\ c.channel = "none" /\ ~c.failed => ~d.failed
  <1>1. CASE ~(client'.destroyed /\ c.timers = 0)
    BY <1>1 DEF Release
  <1>2. CASE client'.destroyed /\ c.timers = 0
    <2> DEFINE b == c.failed \/ c.channel # "none"
    <2>1. Release(c) = [c EXCEPT !.deleted = TRUE, !.failed = b] /\ b \in BOOLEAN
      BY <1>2 DEF Release
    <2>2. c.channel = "none" /\ ~c.failed => ~b
      OBVIOUS
    <2> HIDE DEF b
    <2> DEFINE e == [c EXCEPT !.deleted = TRUE]
    <2>3. /\ e \in Connectors /\ e.channel = c.channel /\ e.state = c.state
          /\ e.sockets = c.sockets /\ e.timers = c.timers /\ e.enableConnect = c.enableConnect
          /\ e.retryDelayMs = c.retryDelayMs
      BY DEF Connectors
    <2>4. Release(c) = [e EXCEPT !.failed = b]
      BY <2>1
    <2> HIDE DEF e
    <2> DEFINE g == [e EXCEPT !.failed = b]
    <2>5. /\ g \in Connectors /\ g.channel = e.channel /\ g.state = e.state
          /\ g.sockets = e.sockets /\ g.timers = e.timers /\ g.enableConnect = e.enableConnect
          /\ g.retryDelayMs = e.retryDelayMs /\ g.failed = b
      BY <2>1, <2>3 DEF Connectors
    <2> HIDE DEF g
    <2>6. Release(c) = g
      BY <2>4 DEF g
    <2> QED
      BY <1>2, <2>2, <2>3, <2>5, <2>6
  <1> QED
    BY <1>1, <1>2


-----------------------------------------------------------------------------
(* Names of functors, and the queue of them                                   *)

Destroyed(id) == <<"ConnectDestoryed", id>>

LEMMA Names ==
    /\ Start # Stop /\ Start # ResetC /\ Stop # ResetC
    /\ Start \in Functors /\ Stop \in Functors /\ ResetC \in Functors
    /\ \A id : /\ Forced(id) # Start /\ Forced(id) # Stop /\ Forced(id) # ResetC
               /\ Destroyed(id) # Start /\ Destroyed(id) # Stop /\ Destroyed(id) # ResetC
    /\ \A i, j : Forced(i) # Destroyed(j) /\ (Forced(i) = Forced(j) => i = j)
    /\ \A id \in 1..MaxConns : Forced(id) \in Functors /\ Destroyed(id) \in Functors
  BY DEF Start, Stop, ResetC, Forced, Destroyed, Functors, ConnectorFunctors

LEMMA QueuedIsPending == \A f : Queued(f) <=> Pending(f)
  BY DEF Queued, Pending, Contains, In

(* One functor more is queued.                                                *)
LEMMA QueueEffect ==
    ASSUME TypeOK, NEW e \in Functors, functors' = Append(functors, e), batch' = batch
    PROVE  /\ functors' \in Seq(Functors)
           /\ \A x : /\ In(functors', x) <=> In(functors, x) \/ x = e
                     /\ Pending(x)' <=> Pending(x) \/ x = e
                     /\ AtMostOnce(functors, x) /\ ~(x = e /\ In(functors, x)) =>
                          AtMostOnce(functors', x)
           /\ \A x, y : Before(functors', x, y) <=>
                          Before(functors, x, y) \/ (In(functors, x) /\ y = e)
  <1>1. functors \in Seq(Functors)
    BY DEF TypeOK
  <1>2. /\ Append(functors, e) \in Seq(Functors)
        /\ \A x : /\ In(Append(functors, e), x) <=> In(functors, x) \/ x = e
                  /\ AtMostOnce(functors, x) /\ ~(x = e /\ In(functors, x)) =>
                       AtMostOnce(Append(functors, e), x)
        /\ \A x, y : Before(Append(functors, e), x, y) <=>
                       Before(functors, x, y) \/ (In(functors, x) /\ y = e)
    BY <1>1, AppendHas
  <1>3. \A x : Pending(x)' <=> Pending(x) \/ x = e
    BY <1>2 DEF Pending
  <1> QED
    BY <1>2, <1>3

(* A functor has been taken from the batch, and perhaps another queued.       *)
LEMMA TakeEffect ==
    ASSUME TypeOK, batch # << >>, batch' = Tail(batch)
    PROVE  /\ Head(batch) \in Functors /\ batch' \in Seq(Functors) /\ In(batch, Head(batch))
           /\ \A x : /\ In(batch', x) => In(batch, x)
                     /\ AtMostOnce(batch, x) => AtMostOnce(batch', x)
                     /\ AtMostOnce(batch, x) /\ x = Head(batch) => ~In(batch', x)
                     /\ In(batch, x) => In(batch', x) \/ x = Head(batch)
                     /\ In(batch', x) => Before(batch, Head(batch), x)
           /\ \A x, y : Before(batch', x, y) => Before(batch, x, y)
  BY TailHas DEF TypeOK

-----------------------------------------------------------------------------
(* The invariant holds at first, and the steps keep it that leave the         *)
(* connector and the connections alone.                                       *)

LEMMA InitClientInv == Init => ClientInv
  <1> SUFFICES ASSUME Init PROVE ClientInv
    OBVIOUS
  <1>1. connector \in Connectors /\ connector = NewConnector
    BY ClientAssumption DEF Init, Connectors, NewConnector
  <1>2. /\ functors = << >> /\ batch = << >> /\ conns = << >> /\ connection = 0 /\ delayed = 0 /\ pc = "poll"
        /\ revents = {} /\ early = {} /\ final = FALSE /\ aborted = FALSE
        /\ client \in [enableConnect : BOOLEAN, retry : BOOLEAN, started : BOOLEAN,
                       destroyed : BOOLEAN]
        /\ Alive
    BY DEF Init, Alive
  <1>3. << >> \in Seq(Functors) /\ << >> \in Seq({"KConnected", "KDisconnecting", "KDisconnected"})
        /\ Len(<< >>) = 0 /\ DOMAIN << >> = {}
    OBVIOUS
  <1>4. TypeOK
    <2>1. {final, aborted} \subseteq BOOLEAN
      BY <1>2
    <2>2. connection \in 0..Len(conns) /\ delayed \in 0..Len(conns)
      BY <1>2, <1>3
    <2> QED
      BY <1>1, <1>2, <1>3, <2>1, <2>2 DEF TypeOK, Connectors
  <1>5. \A x : ~Pending(x)
    BY <1>2, EmptyHas DEF Pending
  <1>6. AlwaysInv
    BY <1>1, <1>2, <1>3, <1>4, <1>5, ClientAssumption DEF AlwaysInv, DelayedUp, NewConnector
  <1>7. FunctorInv
    BY <1>1, <1>2, <1>3, <1>5, EmptyHas DEF FunctorInv, NewConnector
  <1>8. StateInv
    BY <1>1, <1>2, <1>3, ClientAssumption DEF StateInv, NewConnector
  <1> QED
    BY <1>2, <1>6, <1>7, <1>8 DEF ClientInv

LEMMA DelayedStays ==
    ASSUME AlwaysInv, delayed' = delayed, Len(conns') \in Nat, Len(conns) <= Len(conns'),
           \A i \in DOMAIN conns : Up(i) => Up(i)'
    PROVE  delayed' \in 0..Len(conns') /\ DelayedUp'
  <1>1. delayed \in 0..Len(conns) /\ (delayed # 0 => Up(delayed))
        /\ Len(conns) \in Nat /\ DOMAIN conns = 1..Len(conns)
    BY DEF AlwaysInv, TypeOK, DelayedUp
  <1>2. delayed' \in 0..Len(conns')
    BY <1>1
  <1>3. delayed # 0 => delayed \in DOMAIN conns
    BY <1>1
  <1>4. delayed # 0 => conns'[delayed] \in {"KConnected", "KDisconnecting"}
    BY <1>1, <1>3 DEF Up
  <1> QED
    BY <1>2, <1>4 DEF DelayedUp, Up

LEMMA DelayedSame == ASSUME AlwaysInv, UNCHANGED <<conns, delayed>> PROVE DelayedUp'
  BY DEF AlwaysInv, DelayedUp, Up

LEMMA StutterKeeps ==
    ASSUME ClientInv, UNCHANGED vars
    PROVE  ClientInv'
  BY DEF ClientInv, AlwaysInv, DelayedUp, FunctorInv, StateInv, FinalInv, TypeOK, Alive, Up, Pending,
         vars

LEMMA PollKeeps ==
    ASSUME ClientInv, Poll
    PROVE  ClientInv'
  <1>1. AlwaysInv'
    <2>1. DelayedUp'
      BY DelayedSame DEF ClientInv, Poll
    <2> QED
      BY <2>1 DEF ClientInv, AlwaysInv, Poll, TypeOK, Alive, Pending
  <1>2. ASSUME early' = {} PROVE FunctorInv' /\ StateInv'
    <2>1. early = {} /\ FunctorInv /\ StateInv
      BY <1>2 DEF ClientInv, Poll
    <2>2. FunctorInv'
      BY <2>1 DEF FunctorInv, Poll, Pending, Up
    <2>3. "timer" \in revents' => connector.timers > 0
      BY DEF Poll
    <2>4. "write" \in revents' => connector.channel = "polled"
      BY DEF Poll
    <2>5. "close" \in revents' => \E id \in DOMAIN conns : Up(id)
      BY DEF Poll
    <2>6. connector.channel # "removed" /\ connector.timers \in Nat
      BY <2>1, EmptyHas DEF FunctorInv, Pending, Poll, ClientInv, AlwaysInv, TypeOK
    <2>7. connector.channel \in {"none", "polled", "removed"} /\ DOMAIN conns = 1..Len(conns)
      BY DEF ClientInv, AlwaysInv, TypeOK
    <2>8. "timer" \in revents' => connector.channel = "none"
      BY <2>1, <2>3, <2>6, <2>7 DEF StateInv
    <2> QED
      BY <2>1, <2>2, <2>4, <2>5, <2>6, <2>7, <2>8 DEF StateInv, Poll, Alive, Up
  <1>3. ASSUME final', early' \subseteq {"destroy"} PROVE FinalInv'
    BY <1>3 DEF ClientInv, FinalInv, Poll, Pending
  <1> QED
    BY <1>1, <1>2, <1>3 DEF ClientInv


LEMMA DisconnectKeeps ==
    ASSUME ClientInv, Disconnect
    PROVE  ClientInv'
  <1>1. /\ Alive /\ client \in [enableConnect : BOOLEAN, retry : BOOLEAN, started : BOOLEAN,
                                destroyed : BOOLEAN]
        /\ client' = [client EXCEPT !.enableConnect = FALSE]
        /\ conns \in Seq({"KConnected", "KDisconnecting", "KDisconnected"})
        /\ connection \in 0..Len(conns)
    BY DEF ClientInv, AlwaysInv, TypeOK, Disconnect, UserCode
  <1>2. Alive' /\ ~client'.enableConnect /\ client' \in [enableConnect : BOOLEAN, retry : BOOLEAN,
                                                        started : BOOLEAN, destroyed : BOOLEAN]
    BY <1>1 DEF Alive
  <1>3. /\ conns' = [id \in DOMAIN conns |-> IF id = connection /\ conns[id] = "KConnected"
                                             THEN "KDisconnecting" ELSE conns[id]]
        /\ UNCHANGED <<pc, revents, functors, batch, connector, connection, delayed, early, aborted>>
        /\ final' = (connection # 0)
    BY DEF Disconnect
  <1>4. /\ conns' \in Seq({"KConnected", "KDisconnecting", "KDisconnected"})
        /\ Len(conns') = Len(conns) /\ DOMAIN conns' = DOMAIN conns
        /\ \A id \in DOMAIN conns : Up(id)' <=> Up(id)
    BY <1>1, <1>3 DEF Up
  <1>5. {final', aborted'} \subseteq BOOLEAN
    BY <1>3 DEF ClientInv, AlwaysInv, TypeOK
  <1>6. TypeOK'
    BY <1>1, <1>2, <1>3, <1>4, <1>5 DEF ClientInv, AlwaysInv, TypeOK
  <1>7. AlwaysInv'
    <2>1. DelayedUp'
      BY <1>1, <1>3, <1>4, DelayedStays DEF ClientInv
    <2> QED
      BY <1>1, <1>2, <1>3, <1>4, <1>6, <2>1 DEF ClientInv, AlwaysInv, Pending
  <1>8. ASSUME early' = {} PROVE FunctorInv' /\ StateInv'
    <2>1. early = {} /\ FunctorInv /\ StateInv
      BY <1>3, <1>8 DEF ClientInv
    <2>2. FunctorInv'
      BY <1>3, <1>4, <2>1 DEF FunctorInv, Pending
    <2>3. connection # 0 => connection \in DOMAIN conns
      BY <1>1
    <2>4. StateInv'
      BY <1>1, <1>2, <1>3, <1>4, <2>1, <2>3 DEF StateInv
    <2> QED
      BY <2>2, <2>4
  <1>9. ASSUME final', early' \subseteq {"destroy"} PROVE FinalInv'
    <2>1. early \subseteq {"destroy"} /\ "destroy" \notin early
      BY <1>1, <1>3, <1>9 DEF ClientInv, AlwaysInv
    <2>2. early = {} /\ connection # 0 /\ connector.timers \in Nat
      BY <1>1, <1>3, <1>9, <2>1 DEF ClientInv, AlwaysInv, TypeOK
    <2>3. FunctorInv /\ StateInv
      BY <2>2 DEF ClientInv
    <2>4. connector.state = "kConnected" /\ connector.timers = 0 /\ ~Pending(Start)
      BY <2>2, <2>3 DEF FunctorInv, StateInv
    <2> QED
      BY <1>2, <1>3, <2>4 DEF FinalInv, Pending
  <1> QED
    BY <1>7, <1>8, <1>9 DEF ClientInv

(* forceClose queues a functor; the states that count as up stay the same.    *)
LEMMA ForceCloseEffect ==
    ASSUME AlwaysInv, NEW id \in DOMAIN conns, ForceClose(id), batch' = batch
    PROVE  /\ conns' \in Seq({"KConnected", "KDisconnecting", "KDisconnected"})
           /\ Len(conns') = Len(conns) /\ DOMAIN conns' = DOMAIN conns
           /\ \A i \in DOMAIN conns : Up(i)' <=> Up(i)
           /\ functors' \in Seq(Functors)
           /\ \A f : Pending(f)' <=> Pending(f) \/ f = Forced(id)
           /\ \A f \in {Start, Stop, ResetC} : /\ In(functors', f) <=> In(functors, f)
                                               /\ AtMostOnce(functors, f) => AtMostOnce(functors', f)
           /\ \A i : Before(functors', Forced(i), ResetC) <=> Before(functors, Forced(i), ResetC)
           /\ id \in 1..MaxConns
  <1>1. /\ conns \in Seq({"KConnected", "KDisconnecting", "KDisconnected"})
        /\ conns' = [conns EXCEPT ![id] = "KDisconnecting"] /\ Up(id)
        /\ functors' = Append(functors, Forced(id))
        /\ TypeOK /\ Len(conns) <= MaxConns /\ MaxConns \in Nat
    BY ClientAssumption DEF AlwaysInv, TypeOK, ForceClose, Forced
  <1>2. /\ conns' \in Seq({"KConnected", "KDisconnecting", "KDisconnected"})
        /\ Len(conns') = Len(conns) /\ DOMAIN conns' = DOMAIN conns
        /\ \A i \in DOMAIN conns : Up(i)' <=> Up(i)
    BY <1>1 DEF Up
  <1>3. id \in 1..MaxConns
    BY <1>1
  <1>4. Forced(id) \in Functors
    BY <1>3, Names
  <1>5. /\ functors' \in Seq(Functors)
        /\ \A x : /\ In(functors', x) <=> In(functors, x) \/ x = Forced(id)
                  /\ Pending(x)' <=> Pending(x) \/ x = Forced(id)
                  /\ AtMostOnce(functors, x) /\ ~(x = Forced(id) /\ In(functors, x)) =>
                       AtMostOnce(functors', x)
        /\ \A x, y : Before(functors', x, y) <=>
                       Before(functors, x, y) \/ (In(functors, x) /\ y = Forced(id))
    BY <1>1, <1>4, QueueEffect
  <1>6. \A f \in {Start, Stop, ResetC} : f # Forced(id)
    BY Names
  <1> QED
    BY <1>2, <1>3, <1>5, <1>6

LEMMA UserForceClosesKeeps ==
    ASSUME ClientInv, UserForceCloses
    PROVE  ClientInv'
  <1>1. /\ UNCHANGED <<pc, revents, batch, connector, client, connection, delayed, final, early,
                       aborted>>
        /\ AlwaysInv
    BY DEF UserForceCloses, ClientInv
  <1>2. PICK id \in DOMAIN conns : ForceClose(id)
    BY DEF UserForceCloses
  <1>3. /\ conns' \in Seq({"KConnected", "KDisconnecting", "KDisconnected"})
        /\ Len(conns') = Len(conns) /\ DOMAIN conns' = DOMAIN conns
        /\ \A i \in DOMAIN conns : Up(i)' <=> Up(i)
        /\ functors' \in Seq(Functors)
        /\ \A f : Pending(f)' <=> Pending(f) \/ f = Forced(id)
        /\ \A f \in {Start, Stop, ResetC} : /\ In(functors', f) <=> In(functors, f)
                                            /\ AtMostOnce(functors, f) => AtMostOnce(functors', f)
        /\ \A i : Before(functors', Forced(i), ResetC) <=> Before(functors, Forced(i), ResetC)
        /\ id \in 1..MaxConns
    BY <1>1, <1>2, ForceCloseEffect
  <1>4. conns \in Seq({"KConnected", "KDisconnecting", "KDisconnected"}) /\ id <= Len(conns)
        /\ connection \in 0..Len(conns)
    BY <1>1, <1>2 DEF AlwaysInv, TypeOK
  <1>5. TypeOK'
    BY <1>1, <1>3 DEF AlwaysInv, TypeOK
  <1>6. \A i \in 1..MaxConns : Pending(Forced(i))' => i <= Len(conns')
    BY <1>1, <1>3, <1>4, Names DEF AlwaysInv
  <1>7. AlwaysInv'
    <2>1. DelayedUp'
      BY <1>1, <1>3, <1>4, DelayedStays
    <2> QED
      BY <1>1, <1>3, <1>5, <1>6, <2>1 DEF AlwaysInv, Alive
  <1>8. \A f \in {Start, Stop, ResetC} : Pending(f)' <=> Pending(f)
    BY <1>3, Names
  <1>9. ASSUME early' = {} PROVE FunctorInv' /\ StateInv'
    <2>1. early = {} /\ FunctorInv /\ StateInv
      BY <1>1, <1>9 DEF ClientInv
    <2>2. FunctorInv'
      BY <1>1, <1>3, <1>8, <2>1 DEF FunctorInv
    <2>3. connection # 0 => connection \in DOMAIN conns
      BY <1>4
    <2>4. StateInv'
      BY <1>1, <1>3, <2>1, <2>3 DEF StateInv, Alive
    <2> QED
      BY <2>2, <2>4
  <1>10. ASSUME final', early' \subseteq {"destroy"} PROVE FinalInv'
    BY <1>1, <1>8, <1>10 DEF ClientInv, FinalInv
  <1> QED
    BY <1>7, <1>9, <1>10 DEF ClientInv

LEMMA ForceClosesLaterKeeps ==
    ASSUME ClientInv, UserForceClosesLater
    PROVE  ClientInv'
  <1>1. /\ UNCHANGED <<pc, revents, functors, batch, connector, client, connection, final, early,
                       aborted>>
        /\ AlwaysInv
    BY DEF UserForceClosesLater, ClientInv
  <1>2. PICK id \in DOMAIN conns : /\ Up(id)
                                  /\ conns' = [conns EXCEPT ![id] = "KDisconnecting"]
                                  /\ delayed' = id
    BY DEF UserForceClosesLater
  <1>3. /\ conns \in Seq({"KConnected", "KDisconnecting", "KDisconnected"})
        /\ connection \in 0..Len(conns)
    BY <1>1 DEF AlwaysInv, TypeOK
  <1>4. /\ conns' \in Seq({"KConnected", "KDisconnecting", "KDisconnected"})
        /\ Len(conns') = Len(conns) /\ DOMAIN conns' = DOMAIN conns
        /\ \A i \in DOMAIN conns : Up(i)' <=> Up(i)
    BY <1>2, <1>3 DEF Up
  <1>5. delayed' \in 0..Len(conns') /\ DelayedUp'
    <2>1. id \in 0..Len(conns)
      BY <1>3
    <2>2. Up(delayed)'
      BY <1>2, <1>3 DEF Up
    <2> QED
      BY <1>2, <1>4, <2>1, <2>2 DEF DelayedUp
  <1>6. TypeOK'
    BY <1>1, <1>4, <1>5 DEF AlwaysInv, TypeOK
  <1>7. AlwaysInv'
    BY <1>1, <1>4, <1>5, <1>6 DEF AlwaysInv, Alive, Pending
  <1>8. ASSUME early' = {} PROVE FunctorInv' /\ StateInv'
    <2>1. early = {} /\ FunctorInv /\ StateInv
      BY <1>1, <1>8 DEF ClientInv
    <2>2. FunctorInv'
      BY <1>1, <1>4, <2>1 DEF FunctorInv, Pending
    <2>3. connection # 0 => connection \in DOMAIN conns
      BY <1>3
    <2>4. StateInv'
      BY <1>1, <1>4, <2>1, <2>3 DEF StateInv, Alive
    <2> QED
      BY <2>2, <2>4
  <1>9. ASSUME final', early' \subseteq {"destroy"} PROVE FinalInv'
    BY <1>1, <1>9 DEF ClientInv, FinalInv, Pending
  <1> QED
    BY <1>7, <1>8, <1>9 DEF ClientInv

LEMMA HandlePendingFunctorsKeeps ==
    ASSUME ClientInv, HandlePendingFunctors
    PROVE  ClientInv'
  <1>1. /\ UNCHANGED <<revents, connector, client, conns, connection, delayed, final, early,
                       aborted>>
        /\ pc = "dispatch" /\ pc' = "functors" /\ revents = {}
        /\ batch' = functors /\ functors' = << >>
    BY DEF HandlePendingFunctors
  <1>2. \A x : /\ Pending(x)' <=> In(functors, x)
               /\ Pending(x)' => Pending(x)
    BY <1>1, EmptyHas DEF Pending
  <1>3. TypeOK'
    BY <1>1 DEF ClientInv, AlwaysInv, TypeOK
  <1>4. AlwaysInv'
    <2>1. DelayedUp'
      BY <1>1, DelayedSame DEF ClientInv
    <2> QED
      BY <1>1, <1>2, <1>3, <2>1 DEF ClientInv, AlwaysInv, Alive
  <1>5. ASSUME early' = {} PROVE FunctorInv' /\ StateInv'
    <2>1. early = {} /\ FunctorInv /\ StateInv
      BY <1>1, <1>5 DEF ClientInv
    <2>2. batch = << >>
      BY <1>1, <2>1 DEF FunctorInv
    <2>3. \A x : Pending(x)' <=> Pending(x)
      BY <1>2, <2>2, EmptyHas DEF Pending
    <2>4. FunctorInv'
      BY <1>1, <2>1, <2>3, EmptyHas DEF FunctorInv, Up
    <2>5. StateInv'
      BY <1>1, <2>1 DEF StateInv, Alive, Up
    <2> QED
      BY <2>4, <2>5
  <1>6. ASSUME final', early' \subseteq {"destroy"} PROVE FinalInv'
    BY <1>1, <1>2, <1>6 DEF ClientInv, FinalInv
  <1> QED
    BY <1>4, <1>5, <1>6 DEF ClientInv

LEMMA EndOfFunctorsKeeps ==
    ASSUME ClientInv, EndOfFunctors
    PROVE  ClientInv'
  <1>1. /\ UNCHANGED <<revents, functors, batch, connector, client, conns, connection, delayed,
                       final, early, aborted>>
        /\ pc = "functors" /\ pc' = "poll" /\ batch = << >>
    BY DEF EndOfFunctors
  <1>2. AlwaysInv'
    <2>1. DelayedUp'
      BY <1>1, DelayedSame DEF ClientInv
    <2> QED
      BY <1>1, <2>1 DEF ClientInv, AlwaysInv, TypeOK, Alive, Pending
  <1>3. ASSUME early' = {} PROVE FunctorInv' /\ StateInv'
    <2>1. early = {} /\ FunctorInv /\ StateInv
      BY <1>1, <1>3 DEF ClientInv
    <2>2. FunctorInv'
      BY <1>1, <2>1 DEF FunctorInv, Up, Pending
    <2>3. StateInv'
      BY <1>1, <2>1 DEF StateInv, Alive, Up
    <2> QED
      BY <2>2, <2>3
  <1>4. ASSUME final', early' \subseteq {"destroy"} PROVE FinalInv'
    BY <1>1, <1>4 DEF ClientInv, FinalInv, Pending
  <1> QED
    BY <1>2, <1>3, <1>4 DEF ClientInv


-----------------------------------------------------------------------------
(* connect(), the retry timer and what becomes of an attempt.                 *)

LEMMA BeforeHas == \A s, x, y : Before(s, x, y) => In(s, x) /\ In(s, y)
  BY DEF Before, In

(* The types of a connector that is handed to startInLoop.                    *)
LEMMA ConnectorType == AlwaysInv => connector \in Connectors
  BY DEF AlwaysInv, TypeOK, Connectors

(* With a connector that rests, no connection is up and no event is due.      *)
LEMMA RestingMeans ==
    ASSUME TypeOK, AlwaysInv, FunctorInv, StateInv, Alive,
           connector.state = "kDisconnected", connector.channel = "none"
    PROVE  /\ connection = 0 /\ connector.sockets = 0 /\ ~Pending(ResetC)
           /\ "write" \notin revents /\ "close" \notin revents
           /\ connector.timers = 0 => "timer" \notin revents
           /\ \A id \in DOMAIN conns : ~Up(id)
  <1>1. connection = 0 /\ connector.sockets = 0
    BY DEF StateInv
  <1>2. "write" \notin revents /\ "close" \notin revents
    BY DEF StateInv
  <1>3. connector.timers = 0 => "timer" \notin revents
    BY DEF AlwaysInv
  <1>4. \A id \in DOMAIN conns : id # 0 /\ (Up(id) => id = connection)
    BY DEF TypeOK, StateInv
  <1>5. ~Pending(ResetC)
    BY DEF FunctorInv
  <1> QED
    BY <1>1, <1>2, <1>3, <1>4, <1>5

LEMMA ConnectKeeps ==
    ASSUME ClientInv, NEW inLoop \in BOOLEAN, ClientConnect(inLoop)
    PROVE  ClientInv'
  <1> DEFINE c == [connector EXCEPT !.enableConnect = TRUE, !.gaveUp = FALSE]
  <1>1. /\ Alive /\ early = {} /\ early' = (IF AtRest THEN {} ELSE {"connect"})
        /\ final' = FALSE /\ client' = [client EXCEPT !.enableConnect = TRUE, !.started = TRUE]
        /\ aborted' = connector'.failed
        /\ UNCHANGED <<pc, revents, batch, conns, connection, delayed>>
        /\ inLoop => connector' \in StartInLoop(c) /\ UNCHANGED functors
        /\ ~inLoop => connector' = c /\ functors' = Append(functors, Start)
    BY DEF ClientConnect, Start
  <1>2. AlwaysInv /\ FunctorInv /\ StateInv /\ TypeOK
    BY <1>1 DEF ClientInv, AlwaysInv
  <1>3. /\ connector \in Connectors /\ c \in Connectors /\ c.state = connector.state
        /\ c.sockets = connector.sockets /\ c.timers = connector.timers /\ c.enableConnect
        /\ c.channel = connector.channel /\ c.failed = connector.failed
        /\ c.deleted = connector.deleted /\ c.retryDelayMs = connector.retryDelayMs
    BY <1>2 DEF AlwaysInv, TypeOK, Connectors
  <1> HIDE DEF c
  <1>4. Alive' /\ client' \in [enableConnect : BOOLEAN, retry : BOOLEAN, started : BOOLEAN,
                               destroyed : BOOLEAN]
    BY <1>1, <1>2 DEF Alive, TypeOK
  <1>5. inLoop => StartGives(c, connector') /\ (Rests(c) => Attempts(connector'))
    BY <1>1, <1>2, <1>3, StartEffect DEF AlwaysInv
  <1>6. /\ connector' \in Connectors /\ connector'.timers \in {connector.timers, connector.timers + 1}
        /\ connector'.state = "kConnecting" => connector'.sockets >= 1
        /\ connector'.deleted = connector.deleted /\ connector'.enableConnect
    <2>1. CASE inLoop
      BY <1>3, <1>5, <2>1 DEF StartGives
    <2>2. CASE ~inLoop
      BY <1>1, <1>2, <1>3, <2>2 DEF AlwaysInv
    <2> QED
      BY <2>1, <2>2
  <1>7. /\ functors' \in Seq(Functors)
        /\ \A x : x # Start => (In(functors', x) <=> In(functors, x))
        /\ \A x : x # Start => (Pending(x)' <=> Pending(x))
        /\ \A x, y : y # Start => (Before(functors', x, y) <=> Before(functors, x, y))
        /\ AtMostOnce(functors, ResetC) => AtMostOnce(functors', ResetC)
        /\ AtMostOnce(functors, Start) /\ ~In(functors, Start) => AtMostOnce(functors', Start)
    <2>1. CASE inLoop
      BY <1>1, <1>2, <2>1 DEF TypeOK, Pending
    <2>2. CASE ~inLoop
      BY <1>1, <1>2, <2>2, QueueEffect, Names
    <2> QED
      BY <2>1, <2>2
  <1>8. TypeOK'
    <2>1. {final', aborted'} \subseteq BOOLEAN
      BY <1>1, <1>6 DEF Connectors
    <2>2. early' \subseteq {"connect", "destroy", "close"}
      BY <1>1
    <2> QED
      BY <1>1, <1>2, <1>4, <1>6, <1>7, <2>1, <2>2 DEF TypeOK, Connectors
  <1>9. AlwaysInv'
    <2>1. "timer" \in revents' => connector'.timers >= 1
      BY <1>1, <1>2, <1>3, <1>6 DEF AlwaysInv, Connectors
    <2>2. \A id \in 1..MaxConns : Pending(Forced(id))' => id <= Len(conns')
      BY <1>1, <1>2, <1>7, Names DEF AlwaysInv
    <2>3. "destroy" \notin early'
      BY <1>1
    <2>4. DelayedUp'
      BY <1>1, <1>2, DelayedSame
    <2> QED
      BY <1>1, <1>2, <1>6, <1>8, <2>1, <2>2, <2>3, <2>4 DEF AlwaysInv
  <1>10. ASSUME early' = {} PROVE FunctorInv' /\ StateInv'
    <2>1. connector.state = "kDisconnected" /\ connector.timers = 0 /\ ~Pending(Start)
      BY <1>1, <1>10, QueuedIsPending DEF AtRest, Start
    <2>2. connector.channel = "none"
      BY <1>2, <1>3, <2>1 DEF StateInv, Connectors
    <2>3. /\ connection = 0 /\ connector.sockets = 0 /\ ~Pending(ResetC)
          /\ "write" \notin revents /\ "close" \notin revents /\ "timer" \notin revents
          /\ \A id \in DOMAIN conns : ~Up(id)
      BY <1>1, <1>2, <2>1, <2>2, RestingMeans
    <2>4. ~connector.failed /\ connector.retryDelayMs \in kInitRetryDelayMs..kMaxRetryDelayMs
          /\ ~connector.deleted
      BY <1>1, <1>2 DEF StateInv
    <2>5. Rests(c)
      BY <1>3, <2>1, <2>2, <2>3, <2>4 DEF Rests
    <2>6. Attempts(connector')
      <3>1. CASE inLoop
        BY <1>5, <2>5, <3>1
      <3>2. CASE ~inLoop
        BY <1>1, <1>3, <2>5, <3>2 DEF Rests, Attempts
      <3> QED
        BY <3>1, <3>2
    <2>7. StateInv'
      BY <1>1, <1>4, <1>6, <2>3, <2>4, <2>6 DEF StateInv, Attempts, Up
    <2>8. ~Pending(ResetC)' /\ connector'.channel # "removed"
      BY <1>7, <2>3, <2>6, Names DEF Attempts
    <2>9. Pending(Start)' => /\ connector'.state = "kDisconnected" /\ connector'.timers = 0
                             /\ connector'.channel = "none"
      BY <1>1, <1>3, <2>1, <2>2 DEF Pending
    <2>10. ~In(functors, Start) /\ ~In(batch, Start)
      BY <2>1 DEF Pending
    <2>11. FunctorInv'
      BY <1>1, <1>2, <1>7, <2>3, <2>8, <2>9, <2>10, Names DEF FunctorInv, Up
    <2> QED
      BY <2>7, <2>11
  <1> QED
    BY <1>1, <1>9, <1>10 DEF ClientInv

LEMMA RetryTimerKeeps ==
    ASSUME ClientInv, RetryTimer
    PROVE  ClientInv'
  <1> DEFINE e == [connector EXCEPT !.timers = connector.timers - 1]
  <1>1. /\ "timer" \in revents /\ revents' = revents \ {"timer"} /\ pc = "dispatch"
        /\ UNCHANGED <<pc, batch, client, final, early, functors, conns, connection, delayed>>
        /\ aborted' = connector'.failed
    BY DEF RetryTimer, Handles
  <1>2. PICK c \in StartInLoop(e) : connector' = Release(c)
    BY DEF RetryTimer
  <1>3. AlwaysInv /\ TypeOK /\ connector \in Connectors /\ connector.timers >= 1
    BY <1>1, ConnectorType DEF ClientInv, AlwaysInv
  <1>4. connector.timers - 1 \in Nat
    BY <1>3 DEF Connectors
  <1>5. /\ e \in Connectors /\ e.state = connector.state /\ e.sockets = connector.sockets
        /\ e.timers = connector.timers - 1 /\ e.channel = connector.channel
        /\ e.failed = connector.failed /\ e.deleted = connector.deleted
        /\ e.retryDelayMs = connector.retryDelayMs
    BY <1>3, <1>4 DEF Connectors
  <1> HIDE DEF e
  <1>6. StartGives(e, c) /\ (Rests(e) => Attempts(c))
    BY <1>2, <1>3, <1>5, StartEffect DEF AlwaysInv
  <1>7. /\ connector' \in Connectors /\ connector'.state = c.state
        /\ connector'.sockets = c.sockets /\ connector'.timers = c.timers
        /\ ~client'.destroyed => connector' = c
    BY <1>2, <1>6, ReleaseEffect DEF StartGives
  <1>8. \A x : Pending(x)' <=> Pending(x)
    BY <1>1 DEF Pending
  <1>9. TypeOK'
    <2>1. {final', aborted'} \subseteq BOOLEAN /\ revents' \subseteq {"write", "timer", "close"}
      BY <1>1, <1>3, <1>7 DEF Connectors, TypeOK
    <2> QED
      BY <1>1, <1>3, <1>7, <2>1 DEF TypeOK, Connectors
  <1>10. AlwaysInv'
    <2>1. DelayedUp'
      BY <1>1, <1>3, DelayedSame
    <2> QED
      BY <1>1, <1>3, <1>6, <1>7, <1>8, <1>9, <2>1 DEF AlwaysInv, Alive, StartGives
  <1>11. ASSUME early' = {} PROVE FunctorInv' /\ StateInv'
    <2>1. early = {} /\ FunctorInv /\ StateInv
      BY <1>1, <1>11 DEF ClientInv
    <2>2. connector.timers = 1 /\ connector.state = "kDisconnected" /\ connector.channel = "none"
      BY <1>1, <1>3, <2>1 DEF StateInv, Connectors
    <2>3. Alive /\ Alive'
      BY <1>1, <2>1, <2>2 DEF StateInv, Alive
    <2>4. /\ connection = 0 /\ connector.sockets = 0 /\ ~Pending(ResetC)
          /\ "write" \notin revents /\ "close" \notin revents
          /\ \A id \in DOMAIN conns : ~Up(id)
      BY <1>3, <2>1, <2>2, <2>3, RestingMeans
    <2>5. Rests(e)
      BY <1>5, <2>1, <2>2, <2>4 DEF Rests, StateInv
    <2>6. Attempts(connector') /\ ~connector'.deleted
      BY <1>5, <1>6, <1>7, <2>1, <2>3, <2>5 DEF StartGives, StateInv, Alive
    <2>7. ~Pending(Start)
      BY <2>1, <2>2 DEF FunctorInv
    <2>8. FunctorInv'
      BY <1>1, <1>8, <2>1, <2>4, <2>6, <2>7 DEF FunctorInv, Attempts, Up
    <2>9. StateInv'
      BY <1>1, <2>3, <2>4, <2>6 DEF StateInv, Attempts, Up
    <2> QED
      BY <2>8, <2>9
  <1>12. ~(final' /\ early' \subseteq {"destroy"})
    BY <1>1, <1>3 DEF ClientInv, FinalInv
  <1> QED
    BY <1>10, <1>11, <1>12 DEF ClientInv


(* What an undecided attempt means, and what queueing resetChannel does to    *)
(* the queues then.                                                           *)
LEMMA AttemptMeans ==
    ASSUME AlwaysInv, FunctorInv, StateInv, connector.state = "kConnecting"
    PROVE  /\ Alive /\ connector.enableConnect /\ connector.timers = 0 /\ connector.sockets = 1
           /\ connection = 0 /\ ~connector.deleted
           /\ ~Pending(ResetC) /\ ~Pending(Start)
           /\ "timer" \notin revents /\ "close" \notin revents
           /\ \A id \in DOMAIN conns : ~Up(id)
  <1>1. connector.channel = "polled" /\ connector.timers \in Nat
    BY DEF StateInv, AlwaysInv, TypeOK
  <1>2. /\ Alive /\ connector.enableConnect /\ connector.timers = 0 /\ connector.sockets = 1
        /\ connection = 0 /\ ~connector.deleted
        /\ "timer" \notin revents /\ "close" \notin revents
    BY <1>1 DEF StateInv
  <1>3. \A id \in DOMAIN conns : id # 0 /\ (Up(id) => id = connection)
    BY <1>2 DEF StateInv, AlwaysInv, TypeOK
  <1>4. ~Pending(ResetC) /\ ~Pending(Start)
    BY <1>1 DEF FunctorInv
  <1> QED
    BY <1>2, <1>3, <1>4

LEMMA ResetIsQueued ==
    ASSUME AlwaysInv, functors' = QueueResetChannel(functors), batch' = batch
    PROVE  /\ functors' \in Seq(Functors)
           /\ \A x : /\ In(functors', x) <=> In(functors, x) \/ x = ResetC
                     /\ Pending(x)' <=> Pending(x) \/ x = ResetC
                     /\ AtMostOnce(functors, x) /\ ~(x = ResetC /\ In(functors, x)) =>
                          AtMostOnce(functors', x)
           /\ \A x, y : Before(functors', x, y) <=>
                          Before(functors, x, y) \/ (In(functors, x) /\ y = ResetC)
  <1>1. functors' = Append(functors, ResetC) /\ TypeOK /\ ResetC \in Functors
    BY Names DEF QueueResetChannel, ResetC, AlwaysInv
  <1> QED
    BY <1>1, QueueEffect

LEMMA WriteFailsKeeps ==
    ASSUME ClientInv, HandleWriteFails
    PROVE  ClientInv'
  <1> DEFINE e == RemoveChannel(connector)
  <1>1. /\ revents' = revents \ {"write"} /\ pc = "dispatch"
        /\ UNCHANGED <<pc, batch, client, final, early, conns, connection, delayed, aborted>>
        /\ connector.state = "kConnecting" /\ connector' = Retry(e)
        /\ functors' = QueueResetChannel(functors)
    BY DEF HandleWriteFails, Handles
  <1>2. AlwaysInv /\ TypeOK /\ connector \in Connectors /\ connector.sockets >= 1
    BY <1>1, ConnectorType DEF ClientInv, AlwaysInv
  <1>3. /\ e \in Connectors /\ e.channel = "removed" /\ e.state = connector.state
        /\ e.sockets = connector.sockets /\ e.timers = connector.timers
        /\ e.enableConnect = connector.enableConnect /\ e.failed = connector.failed
        /\ e.deleted = connector.deleted /\ e.retryDelayMs = connector.retryDelayMs
    BY <1>2, RemoveEffect
  <1> HIDE DEF e
  <1>4. RetryGives(e, connector')
    BY <1>1, <1>2, <1>3, RetryEffect
  <1>5. /\ functors' \in Seq(Functors)
        /\ \A x : /\ In(functors', x) <=> In(functors, x) \/ x = ResetC
                  /\ Pending(x)' <=> Pending(x) \/ x = ResetC
                  /\ AtMostOnce(functors, x) /\ ~(x = ResetC /\ In(functors, x)) =>
                       AtMostOnce(functors', x)
        /\ \A x, y : Before(functors', x, y) <=>
                       Before(functors, x, y) \/ (In(functors, x) /\ y = ResetC)
    BY <1>1, <1>2, ResetIsQueued
  <1>6. TypeOK'
    <2>1. revents' \subseteq {"write", "timer", "close"}
      BY <1>1, <1>2 DEF TypeOK
    <2> QED
      BY <1>1, <1>2, <1>4, <1>5, <2>1 DEF TypeOK, Connectors, RetryGives
  <1>7. AlwaysInv'
    <2>1. connector'.timers \in {connector.timers, connector.timers + 1}
      BY <1>3, <1>4 DEF RetryGives
    <2>2. "timer" \in revents' => connector'.timers >= 1
      BY <1>1, <1>2, <2>1 DEF AlwaysInv, Connectors
    <2>3. connector'.state # "kConnecting"
      BY <1>4 DEF RetryGives
    <2>4. DelayedUp'
      BY <1>1, <1>2, DelayedSame
    <2> QED
      BY <1>1, <1>2, <1>5, <1>6, <2>2, <2>3, <2>4, Names DEF AlwaysInv, Alive
  <1>8. ASSUME early' = {} PROVE FunctorInv' /\ StateInv'
    <2>1. early = {} /\ FunctorInv /\ StateInv
      BY <1>1, <1>8 DEF ClientInv
    <2>2. /\ Alive /\ connector.enableConnect /\ connector.timers = 0 /\ connector.sockets = 1
          /\ connection = 0 /\ ~connector.deleted
          /\ ~Pending(ResetC) /\ ~Pending(Start)
          /\ "timer" \notin revents /\ "close" \notin revents
          /\ \A id \in DOMAIN conns : ~Up(id)
      BY <1>1, <1>2, <2>1, AttemptMeans
    <2>3. /\ connector'.state = "kDisconnected" /\ connector'.channel = "removed"
          /\ connector'.timers = 1 /\ connector'.sockets = 0 /\ connector'.enableConnect
          /\ ~connector'.deleted /\ ~connector'.failed
      BY <1>3, <1>4, <2>1, <2>2 DEF RetryGives, StateInv
    <2>4. connector'.retryDelayMs \in kInitRetryDelayMs..kMaxRetryDelayMs
      <3>1. connector.retryDelayMs \in Nat
        BY <1>2 DEF Connectors
      <3> QED
        BY <1>3, <1>4, <2>1, <3>1, DelayBounds DEF RetryGives, StateInv
    <2>5. StateInv'
      BY <1>1, <2>1, <2>2, <2>3, <2>4 DEF StateInv, Alive, Up
    <2>6. ~In(functors, ResetC) /\ ~Pending(Start)' /\ ~Pending(Stop)' /\ Pending(ResetC)'
      BY <1>5, <2>1, <2>2, Names DEF FunctorInv, Pending
    <2>7. FunctorInv'
      BY <1>1, <1>5, <2>1, <2>2, <2>3, <2>6, Names DEF FunctorInv, Up
    <2> QED
      BY <2>5, <2>7
  <1>9. ~(final' /\ early' \subseteq {"destroy"})
    BY <1>1 DEF ClientInv, FinalInv
  <1> QED
    BY <1>7, <1>8, <1>9 DEF ClientInv

LEMMA WriteConnectsKeeps ==
    ASSUME ClientInv, HandleWriteConnects
    PROVE  ClientInv'
  <1> DEFINE e == RemoveChannel(connector)
             d == [e EXCEPT !.state = "kConnected", !.sockets = e.sockets - 1]
  <1>1. /\ revents' = revents \ {"write"} /\ pc = "dispatch"
        /\ UNCHANGED <<pc, batch, client, final, early, delayed, aborted>>
        /\ connector.state = "kConnecting" /\ connector' = d
        /\ functors' = QueueResetChannel(functors)
        /\ \/ connector.enableConnect /\ NewConnection
           \/ ~connector.enableConnect /\ UNCHANGED <<conns, connection>>
    BY DEF HandleWriteConnects, Handles
  <1>2. AlwaysInv /\ TypeOK /\ connector \in Connectors /\ connector.sockets >= 1
    BY <1>1, ConnectorType DEF ClientInv, AlwaysInv
  <1>3. /\ e \in Connectors /\ e.channel = "removed"
        /\ e.sockets = connector.sockets /\ e.timers = connector.timers
        /\ e.enableConnect = connector.enableConnect /\ e.failed = connector.failed
        /\ e.deleted = connector.deleted /\ e.retryDelayMs = connector.retryDelayMs
    BY <1>2, RemoveEffect
  <1> HIDE DEF e
  <1>4. /\ d \in Connectors /\ d.state = "kConnected" /\ d.sockets = connector.sockets - 1
        /\ d.channel = "removed" /\ d.timers = connector.timers
        /\ d.enableConnect = connector.enableConnect /\ d.failed = connector.failed
        /\ d.deleted = connector.deleted /\ d.retryDelayMs = connector.retryDelayMs
    <2>1. e.sockets - 1 \in Nat
      BY <1>2, <1>3 DEF Connectors
    <2> QED
      BY <1>3, <2>1 DEF Connectors
  <1> HIDE DEF d
  <1>5. /\ functors' \in Seq(Functors)
        /\ \A x : /\ In(functors', x) <=> In(functors, x) \/ x = ResetC
                  /\ Pending(x)' <=> Pending(x) \/ x = ResetC
                  /\ AtMostOnce(functors, x) /\ ~(x = ResetC /\ In(functors, x)) =>
                       AtMostOnce(functors', x)
        /\ \A x, y : Before(functors', x, y) <=>
                       Before(functors, x, y) \/ (In(functors, x) /\ y = ResetC)
    BY <1>1, <1>2, ResetIsQueued
  <1>6. /\ conns \in Seq({"KConnected", "KDisconnecting", "KDisconnected"})
        /\ connection \in 0..Len(conns) /\ Len(conns) <= MaxConns /\ MaxConns \in Nat
    BY <1>2, ClientAssumption DEF AlwaysInv, TypeOK
  <1>7. /\ conns' \in Seq({"KConnected", "KDisconnecting", "KDisconnected"})
        /\ connection' \in 0..Len(conns') /\ Len(conns') <= MaxConns
        /\ Len(conns) <= Len(conns')
    <2>1. CASE NewConnection
      BY <1>6, <2>1 DEF NewConnection
    <2>2. CASE UNCHANGED <<conns, connection>>
      BY <1>6, <2>2
    <2> QED
      BY <1>1, <2>1, <2>2
  <1>8. delayed' \in 0..Len(conns') /\ DelayedUp'
    <2>1. \A i \in DOMAIN conns : Up(i) => Up(i)'
      <3>1. CASE NewConnection
        BY <1>6, <3>1 DEF NewConnection, Up
      <3>2. CASE UNCHANGED <<conns, connection>>
        BY <3>2 DEF Up
      <3> QED
        BY <1>1, <3>1, <3>2
    <2> QED
      BY <1>1, <1>2, <1>7, <2>1, DelayedStays
  <1>9. TypeOK'
    <2>1. revents' \subseteq {"write", "timer", "close"}
      BY <1>1, <1>2 DEF TypeOK
    <2> QED
      BY <1>1, <1>2, <1>4, <1>5, <1>7, <1>8, <2>1 DEF TypeOK, Connectors
  <1>10. AlwaysInv'
    <2>1. \A id \in 1..MaxConns : Pending(Forced(id))' => id <= Len(conns')
      BY <1>2, <1>5, <1>6, <1>7, Names DEF AlwaysInv
    <2>2. "timer" \in revents' => connector'.timers >= 1
      BY <1>1, <1>2, <1>4 DEF AlwaysInv
    <2> QED
      BY <1>1, <1>2, <1>4, <1>7, <1>8, <1>9, <2>1, <2>2 DEF AlwaysInv, Alive
  <1>11. ASSUME early' = {} PROVE FunctorInv' /\ StateInv'
    <2>1. early = {} /\ FunctorInv /\ StateInv
      BY <1>1, <1>11 DEF ClientInv
    <2>2. /\ Alive /\ connector.enableConnect /\ connector.timers = 0 /\ connector.sockets = 1
          /\ connection = 0 /\ ~connector.deleted
          /\ ~Pending(ResetC) /\ ~Pending(Start)
          /\ "timer" \notin revents /\ "close" \notin revents
          /\ \A id \in DOMAIN conns : ~Up(id)
      BY <1>1, <1>2, <2>1, AttemptMeans
    <2>3. NewConnection
      BY <1>1, <2>2
    <2>4. /\ DOMAIN conns' = DOMAIN conns \cup {Len(conns) + 1}
          /\ connection' = Len(conns) + 1 /\ connection' \in 1..MaxConns
          /\ \A id \in DOMAIN conns' : Up(id)' <=> id = connection'
      <3>1. /\ conns' = Append(conns, "KConnected") /\ connection' = Len(conns) + 1
            /\ Len(conns) < MaxConns
        BY <2>3 DEF NewConnection
      <3>2. /\ DOMAIN conns' = DOMAIN conns \cup {Len(conns) + 1}
            /\ conns'[Len(conns) + 1] = "KConnected"
            /\ \A id \in DOMAIN conns : conns'[id] = conns[id] /\ id # Len(conns) + 1
            /\ Len(conns) + 1 \in 1..MaxConns
        BY <1>6, <3>1
      <3> QED
        BY <2>2, <3>1, <3>2 DEF Up
    <2>5. StateInv'
      BY <1>1, <1>4, <2>1, <2>2, <2>4 DEF StateInv, Alive
    <2>6. ~In(functors, ResetC) /\ ~Pending(Start)' /\ ~Pending(Stop)' /\ Pending(ResetC)'
      BY <1>5, <2>1, <2>2, Names DEF FunctorInv, Pending
    <2>7. ~Pending(Forced(connection'))
      BY <1>2, <1>6, <2>4 DEF AlwaysInv
    <2>8. \A id \in DOMAIN conns' : Up(id)' => /\ ~Before(functors', Forced(id), ResetC)
                                               /\ ~Before(batch', Forced(id), ResetC)
      BY <1>1, <1>5, <2>4, <2>7, BeforeHas DEF Pending
    <2>9. FunctorInv'
      BY <1>1, <1>4, <1>5, <2>1, <2>6, <2>8, Names DEF FunctorInv
    <2> QED
      BY <2>5, <2>9
  <1>12. ~(final' /\ early' \subseteq {"destroy"})
    BY <1>1 DEF ClientInv, FinalInv
  <1> QED
    BY <1>10, <1>11, <1>12 DEF ClientInv


-----------------------------------------------------------------------------
(* The destructor.                                                            *)

LEMMA DestructorKeeps ==
    ASSUME ClientInv, Destructor
    PROVE  ClientInv'
  <1> DEFINE off == [connector EXCEPT !.enableConnect = FALSE]
  <1>1. /\ Alive /\ client' = [client EXCEPT !.destroyed = TRUE] /\ connection' = 0
        /\ aborted' = connector'.failed
        /\ UNCHANGED <<pc, revents, batch, delayed, final>>
        /\ early' = (IF connection = 0 \/ connector.channel # "none"
                     THEN early \cup {"destroy"} ELSE early)
        /\ \/ /\ connection # 0 /\ ForceClose(connection) /\ connector' = Release(connector)
           \/ /\ connection # 0 /\ UNCHANGED <<conns, functors>>
              /\ connector' = Release(connector)
           \/ /\ connection = 0 /\ functors' = Append(functors, Stop) /\ UNCHANGED conns
              /\ connector' = Release(off)
    BY DEF Destructor, UserCode, Stop
  <1>2. AlwaysInv /\ TypeOK /\ connector \in Connectors
    BY ConnectorType DEF ClientInv, AlwaysInv
  <1>3. /\ ~Alive' /\ client'.enableConnect = client.enableConnect
        /\ client' \in [enableConnect : BOOLEAN, retry : BOOLEAN, started : BOOLEAN,
                        destroyed : BOOLEAN]
    BY <1>1, <1>2 DEF TypeOK, Alive
  <1>4. /\ off \in Connectors /\ off.channel = connector.channel /\ off.state = connector.state
        /\ off.sockets = connector.sockets /\ off.timers = connector.timers
        /\ off.retryDelayMs = connector.retryDelayMs /\ off.failed = connector.failed
    BY <1>2 DEF Connectors
  <1> HIDE DEF off
  <1>5. /\ connector' \in Connectors /\ connector'.channel = connector.channel
        /\ connector'.state = connector.state /\ connector'.sockets = connector.sockets
        /\ connector'.timers = connector.timers
        /\ connector'.retryDelayMs = connector.retryDelayMs
        /\ connector.channel = "none" /\ ~connector.failed => ~connector'.failed
    <2>1. CASE connector' = Release(connector)
      BY <1>2, <2>1, ReleaseEffect
    <2>2. CASE connector' = Release(off)
      BY <1>4, <2>2, ReleaseEffect
    <2> QED
      BY <1>1, <2>1, <2>2
  <1>6. /\ conns \in Seq({"KConnected", "KDisconnecting", "KDisconnected"})
        /\ connection \in 0..Len(conns) /\ Len(conns) <= MaxConns /\ MaxConns \in Nat
    BY <1>2, ClientAssumption DEF AlwaysInv, TypeOK
  <1>7. connection # 0 => connection \in DOMAIN conns
    BY <1>6
  <1>8. /\ conns' \in Seq({"KConnected", "KDisconnecting", "KDisconnected"})
        /\ Len(conns') = Len(conns) /\ DOMAIN conns' = DOMAIN conns
        /\ \A i \in DOMAIN conns : Up(i)' <=> Up(i)
        /\ functors' \in Seq(Functors)
        /\ \A i \in 1..MaxConns : Pending(Forced(i))' => i <= Len(conns)
        /\ Pending(Start)' <=> Pending(Start)
    <2>1. CASE connection # 0 /\ ForceClose(connection)
      <3>1. /\ conns' \in Seq({"KConnected", "KDisconnecting", "KDisconnected"})
            /\ Len(conns') = Len(conns) /\ DOMAIN conns' = DOMAIN conns
            /\ \A i \in DOMAIN conns : Up(i)' <=> Up(i)
            /\ functors' \in Seq(Functors)
            /\ \A f : Pending(f)' <=> Pending(f) \/ f = Forced(connection)
        BY <1>1, <1>2, <1>7, <2>1, ForceCloseEffect
      <3>2. connection <= Len(conns)
        BY <1>6
      <3> QED
        BY <1>2, <3>1, <3>2, Names DEF AlwaysInv
    <2>2. CASE UNCHANGED <<conns, functors>>
      BY <1>1, <1>2, <1>6, <2>2 DEF AlwaysInv, TypeOK, Pending, Up
    <2>3. CASE functors' = Append(functors, Stop) /\ UNCHANGED conns
      <3>1. /\ functors' \in Seq(Functors)
            /\ \A x : Pending(x)' <=> Pending(x) \/ x = Stop
        BY <1>1, <1>2, <2>3, QueueEffect, Names
      <3> QED
        BY <1>2, <1>6, <2>3, <3>1, Names DEF AlwaysInv, Up
    <2> QED
      BY <1>1, <2>1, <2>2, <2>3
  <1>9. TypeOK'
    <2>1. {final', aborted'} \subseteq BOOLEAN
      BY <1>1, <1>2, <1>5 DEF TypeOK, Connectors
    <2>2. early' \subseteq {"connect", "destroy", "close"}
      BY <1>1, <1>2 DEF TypeOK
    <2>3. connection' \in 0..Len(conns')
      BY <1>1, <1>6, <1>8
    <2> QED
      BY <1>1, <1>2, <1>3, <1>5, <1>8, <2>1, <2>2, <2>3 DEF TypeOK, Connectors
  <1>10. AlwaysInv'
    <2>1. DelayedUp'
      BY <1>1, <1>2, <1>6, <1>8, DelayedStays
    <2> QED
      BY <1>1, <1>2, <1>3, <1>5, <1>8, <1>9, <2>1 DEF AlwaysInv
  <1>11. ASSUME early' = {} PROVE FunctorInv' /\ StateInv'
    <2>1. early = {} /\ connection # 0 /\ connector.channel = "none"
      BY <1>1, <1>11
    <2>2. FunctorInv /\ StateInv
      BY <2>1 DEF ClientInv
    <2>3. connector.state = "kConnected" /\ connector.timers = 0
      BY <1>2, <2>1, <2>2 DEF StateInv, Connectors
    <2>4. StateInv'
      BY <1>1, <1>3, <1>5, <1>8, <2>1, <2>2, <2>3 DEF StateInv
    <2>5. /\ \A f \in {Start, Stop, ResetC} :
                /\ In(functors', f) <=> In(functors, f)
                /\ AtMostOnce(functors, f) => AtMostOnce(functors', f)
          /\ \A i : Before(functors', Forced(i), ResetC) <=> Before(functors, Forced(i), ResetC)
      <3>1. CASE ForceClose(connection)
        BY <1>1, <1>2, <1>7, <2>1, <3>1, ForceCloseEffect
      <3>2. CASE UNCHANGED functors
        BY <3>2
      <3> QED
        BY <1>1, <2>1, <3>1, <3>2
    <2>6. FunctorInv'
      BY <1>1, <1>5, <1>8, <2>1, <2>2, <2>3, <2>5 DEF FunctorInv, Pending
    <2> QED
      BY <2>4, <2>6
  <1>12. ASSUME final', early' \subseteq {"destroy"} PROVE FinalInv'
    <2>1. FinalInv
      BY <1>1, <1>12 DEF ClientInv
    <2> QED
      BY <1>3, <1>5, <1>8, <2>1 DEF FinalInv
  <1> QED
    BY <1>10, <1>11, <1>12 DEF ClientInv

-----------------------------------------------------------------------------
(* The close of a connection, from an event or a queued functor.              *)

LEMMA CloseKeeps ==
    ASSUME ClientInv, NEW id \in DOMAIN conns, Up(id), HandleClose(id),
           UNCHANGED <<pc, client, final>>, early' \in {early, early \cup {"close"}},
           revents' \subseteq revents, batch' \in Seq(Functors),
           \A x : /\ In(batch', x) => In(batch, x)
                  /\ AtMostOnce(batch, x) => AtMostOnce(batch', x),
           early' = {} => /\ \/ connector.channel = "none"
                             \/ connector' = connector /\ batch' = batch
                          /\ "close" \notin revents'
                          /\ batch' # << >> => pc = "functors"
    PROVE  ClientInv'
  <1>1. /\ conns' = [conns EXCEPT ![id] = "KDisconnected"]
        /\ functors' = Append(functors, Destroyed(id))
        /\ connector' \in (IF Alive /\ Reconnects THEN Restart(connector) ELSE {connector})
        /\ connection' = 0
        /\ delayed' = IF delayed = id THEN 0 ELSE delayed
        /\ aborted' = (connector'.failed \/ (Alive /\ connection # id))
    BY DEF HandleClose, Destroyed
  <1>2. AlwaysInv /\ TypeOK /\ connector \in Connectors
    BY ConnectorType DEF ClientInv, AlwaysInv
  <1>3. /\ conns \in Seq({"KConnected", "KDisconnecting", "KDisconnected"})
        /\ connection \in 0..Len(conns) /\ Len(conns) <= MaxConns /\ MaxConns \in Nat
    BY <1>2, ClientAssumption DEF AlwaysInv, TypeOK
  <1>4. /\ conns' \in Seq({"KConnected", "KDisconnecting", "KDisconnected"})
        /\ Len(conns') = Len(conns) /\ DOMAIN conns' = DOMAIN conns
        /\ \A i \in DOMAIN conns : Up(i)' <=> Up(i) /\ i # id
        /\ id \in 1..MaxConns /\ id # 0
    BY <1>1, <1>3 DEF Up
  <1>5. /\ connector' \in Connectors /\ connector'.timers \in {connector.timers, connector.timers + 1}
        /\ connector'.state = "kConnecting" => connector'.sockets >= 1
        /\ connector'.deleted = connector.deleted
        /\ \/ connector' = connector
           \/ Alive /\ Reconnects /\ connector' \in Restart(connector)
    <2>1. CASE Alive /\ Reconnects
      BY <1>1, <1>2, <2>1, RestartEffect
    <2>2. CASE ~(Alive /\ Reconnects)
      BY <1>1, <1>2, <2>2 DEF AlwaysInv
    <2> QED
      BY <2>1, <2>2
  <1>6. /\ Append(functors, Destroyed(id)) \in Seq(Functors)
        /\ \A x : /\ In(functors', x) <=> In(functors, x) \/ x = Destroyed(id)
                  /\ AtMostOnce(functors, x) /\ ~(x = Destroyed(id) /\ In(functors, x)) =>
                       AtMostOnce(functors', x)
        /\ \A x, y : Before(functors', x, y) <=>
                       Before(functors, x, y) \/ (In(functors, x) /\ y = Destroyed(id))
    <2>1. functors \in Seq(Functors) /\ Destroyed(id) \in Functors
      BY <1>2, <1>4, Names DEF TypeOK
    <2> QED
      BY <1>1, <2>1, AppendHas
  <1>7. \A x : x # Destroyed(id) => (Pending(x)' => Pending(x))
    BY <1>6 DEF Pending
  <1>8. TypeOK'
    <2>1. aborted' \in BOOLEAN /\ final' \in BOOLEAN
      <3>1. connector'.failed \in BOOLEAN
        BY <1>5 DEF Connectors
      <3>2. aborted' \in BOOLEAN
        BY <1>1, <3>1
      <3> QED
        BY <1>2, <3>2 DEF TypeOK
    <2>2. connection' \in 0..Len(conns') /\ delayed' \in 0..Len(conns')
      BY <1>1, <1>2, <1>3, <1>4 DEF TypeOK
    <2>3. early' \subseteq {"connect", "destroy", "close"}
      BY <1>2 DEF TypeOK
    <2> QED
      BY <1>1, <1>2, <1>4, <1>5, <1>6, <2>1, <2>2, <2>3 DEF TypeOK, Connectors
  <1>9. AlwaysInv'
    <2>1. \A i \in 1..MaxConns : Pending(Forced(i))' => i <= Len(conns')
      BY <1>2, <1>4, <1>7, Names DEF AlwaysInv
    <2>2. "timer" \in revents' => connector'.timers >= 1
      BY <1>2, <1>5 DEF AlwaysInv, Connectors
    <2>3. DelayedUp'
      <3>1. delayed # 0 => delayed \in DOMAIN conns /\ Up(delayed)
        BY <1>2, <1>3 DEF AlwaysInv, TypeOK, DelayedUp
      <3>2. delayed' # 0 => delayed' = delayed /\ delayed # id /\ delayed # 0
        BY <1>1
      <3>3. delayed' # 0 => conns'[delayed'] \in {"KConnected", "KDisconnecting"}
        BY <1>4, <3>1, <3>2 DEF Up
      <3> QED
        BY <3>3 DEF DelayedUp, Up
    <2>4. "destroy" \in early' => ~Alive'
      BY <1>2 DEF AlwaysInv, Alive
    <2> QED
      BY <1>2, <1>3, <1>4, <1>5, <1>8, <2>1, <2>2, <2>3, <2>4 DEF AlwaysInv
  <1>10. ASSUME early' = {} PROVE FunctorInv' /\ StateInv'
    <2>1. /\ early = {} /\ FunctorInv /\ StateInv
          /\ connector.channel = "none" \/ (connector' = connector /\ batch' = batch)
          /\ "close" \notin revents' /\ (batch' # << >> => pc = "functors")
      BY <1>10 DEF ClientInv
    <2>2. Alive => id = connection
      BY <2>1 DEF StateInv
    <2>3. connector.state = "kConnected" /\ connector.timers = 0 /\ connector.sockets = 0
      BY <1>2, <1>4, <2>1, <2>2 DEF StateInv, Connectors
    <2>4. ~Pending(Start)' /\ ~Pending(Stop)'
      BY <1>7, <2>1, <2>3, Names DEF FunctorInv
    <2>5. revents' = {}
      <3>1. "write" \notin revents /\ "timer" \notin revents
        BY <1>2, <2>1, <2>3 DEF StateInv, AlwaysInv
      <3> QED
        BY <1>2, <2>1, <3>1 DEF TypeOK
    <2>6. /\ connector'.channel = "removed" <=> Pending(ResetC)'
          /\ batch' = batch \/ \A i : ~Before(batch', Forced(i), ResetC)
      <3>1. CASE connector.channel = "none"
        <4>1. ~Pending(ResetC)'
          BY <1>7, <2>1, <3>1, Names DEF FunctorInv
        <4>2. connector'.channel # "removed"
          <5>1. CASE connector' = connector
            BY <3>1, <5>1
          <5>2. CASE connector' \in Restart(connector)
            BY <1>2, <2>1, <2>3, <3>1, <5>2, RestartEffect DEF StateInv, Attempts
          <5> QED
            BY <1>5, <5>1, <5>2
        <4> QED
          BY <4>1, <4>2, BeforeHas DEF Pending
      <3>2. CASE connector' = connector /\ batch' = batch
        <4>1. Pending(ResetC)' <=> Pending(ResetC)
          BY <1>6, <3>2, Names DEF Pending
        <4> QED
          BY <2>1, <3>2, <4>1 DEF FunctorInv
      <3> QED
        BY <2>1, <3>1, <3>2
    <2>7. FunctorInv'
      <3>1. /\ AtMostOnce(functors', Start) /\ AtMostOnce(batch', Start)
            /\ AtMostOnce(functors', ResetC) /\ AtMostOnce(batch', ResetC)
        BY <1>6, <2>1, Names DEF FunctorInv
      <3>2. ~In(functors', Start) /\ (In(functors', ResetC) => pc' = "dispatch")
        BY <1>6, <2>1, <2>4, Names DEF FunctorInv, Pending
      <3>3. \A i \in DOMAIN conns' : Up(i)' => /\ ~Before(functors', Forced(i), ResetC)
                                               /\ ~Before(batch', Forced(i), ResetC)
        BY <1>4, <1>6, <2>1, <2>6, Names DEF FunctorInv
      <3>4. batch' # << >> => pc' = "functors"
        BY <2>1
      <3> QED
        BY <2>4, <2>5, <2>6, <3>1, <3>2, <3>3, <3>4 DEF FunctorInv
    <2>8. StateInv'
      <3>1. \A i \in DOMAIN conns' : Alive => ~Up(i)'
        BY <1>4, <2>1, <2>2 DEF StateInv
      <3>2. Alive' <=> Alive
        BY DEF Alive
      <3>3. CASE connector' = connector
        <4>1. ~aborted'
          BY <1>1, <2>1, <2>2, <3>3 DEF StateInv
        <4> QED
          BY <1>1, <2>1, <2>3, <2>5, <3>1, <3>2, <3>3, <4>1 DEF StateInv
      <3>4. CASE Alive /\ connector' \in Restart(connector) /\ connector.channel = "none"
        <4>1. Attempts(connector') /\ connector'.enableConnect
          BY <1>2, <2>1, <2>3, <3>4, RestartEffect DEF StateInv
        <4>2. ~aborted' /\ ~connector'.failed
          BY <1>1, <2>2, <3>4, <4>1 DEF Attempts
        <4> QED
          BY <1>1, <1>5, <2>1, <2>5, <3>1, <3>2, <3>4, <4>1, <4>2 DEF StateInv, Attempts
      <3> QED
        BY <1>5, <2>1, <3>3, <3>4
    <2> QED
      BY <2>7, <2>8
  <1>11. ASSUME final', early' \subseteq {"destroy"} PROVE FinalInv'
    <2>1. FinalInv
      BY <1>11 DEF ClientInv
    <2>2. connector' = connector
      BY <1>5, <2>1 DEF FinalInv, Reconnects
    <2> QED
      BY <1>7, <2>1, <2>2, Names DEF FinalInv
  <1> QED
    BY <1>9, <1>10, <1>11 DEF ClientInv


LEMMA ConnectionCloseKeeps ==
    ASSUME ClientInv, HandleConnectionClose
    PROVE  ClientInv'
  <1>1. /\ "close" \in revents /\ revents' = revents \ {"close"} /\ pc = "dispatch"
        /\ UNCHANGED <<pc, batch, client, final, early>>
    BY DEF HandleConnectionClose, Handles
  <1>2. CASE \E id \in DOMAIN conns : Up(id) /\ HandleClose(id)
    <2>1. PICK id \in DOMAIN conns : Up(id) /\ HandleClose(id)
      BY <1>2
    <2>2. batch' \in Seq(Functors)
      BY <1>1 DEF ClientInv, AlwaysInv, TypeOK
    <2>3. early' = {} => /\ connector.channel = "none" /\ "close" \notin revents'
                         /\ batch' # << >> => pc = "functors"
      BY <1>1 DEF ClientInv, FunctorInv, StateInv
    <2> QED
      BY <1>1, <2>1, <2>2, <2>3, CloseKeeps
  <1>3. CASE /\ \A id \in DOMAIN conns : ~Up(id)
             /\ aborted' = TRUE
             /\ UNCHANGED <<functors, connector, conns, connection, delayed>>
    <2>1. AlwaysInv'
      <3>1. TypeOK'
        BY <1>1, <1>3 DEF ClientInv, AlwaysInv, TypeOK
      <3>2. DelayedUp'
        BY <1>3, DelayedSame DEF ClientInv
      <3> QED
        BY <1>1, <1>3, <3>1, <3>2 DEF ClientInv, AlwaysInv, Alive, Pending
    <2>2. early' # {}
      BY <1>1, <1>3 DEF ClientInv, StateInv
    <2>3. ASSUME final', early' \subseteq {"destroy"} PROVE FinalInv'
      BY <1>1, <1>3, <2>3 DEF ClientInv, FinalInv, Pending
    <2> QED
      BY <2>1, <2>2, <2>3 DEF ClientInv
  <1> QED
    BY <1>2, <1>3 DEF HandleConnectionClose

(* A delayed close that comes before resetChannel does not start the          *)
(* connector, unless it came too early.                                       *)
LEMMA DelayedCloseKeeps ==
    ASSUME ClientInv, DelayedClose
    PROVE  ClientInv'
  <1>1. /\ delayed # 0 /\ HandleClose(delayed) /\ pc = "dispatch"
        /\ early' = IF "close" \in revents \/ (Alive /\ Reconnects /\ connector.channel # "none")
                    THEN early \cup {"close"} ELSE early
        /\ UNCHANGED <<pc, revents, batch, client, final>>
    BY DEF DelayedClose
  <1>2. delayed \in DOMAIN conns /\ Up(delayed) /\ batch \in Seq(Functors)
    BY <1>1 DEF ClientInv, AlwaysInv, TypeOK, DelayedUp
  <1>3. ASSUME early' = {}
        PROVE  /\ connector.channel = "none" \/ (connector' = connector /\ batch' = batch)
               /\ "close" \notin revents' /\ (batch' # << >> => pc = "functors")
    <2>1. /\ early = {} /\ "close" \notin revents
          /\ ~(Alive /\ Reconnects /\ connector.channel # "none")
      BY <1>1, <1>3
    <2>2. FunctorInv
      BY <2>1 DEF ClientInv
    <2>3. ~(Alive /\ Reconnects) => connector' = connector
      BY <1>1 DEF HandleClose
    <2> QED
      BY <1>1, <2>1, <2>2, <2>3 DEF FunctorInv
  <1>4. early' \in {early, early \cup {"close"}}
    BY <1>1
  <1> DEFINE id == delayed
  <1>5. id \in DOMAIN conns /\ Up(id) /\ HandleClose(id)
    BY <1>1, <1>2
  <1> HIDE DEF id
  <1> QED
    BY <1>1, <1>2, <1>3, <1>4, <1>5, CloseKeeps

-----------------------------------------------------------------------------
(* A queued functor runs.                                                     *)

(* forceCloseInLoop finds its connection up.                                  *)
LEMMA ForceCloseRuns ==
    ASSUME ClientInv, batch # << >>, batch' = Tail(batch), pc = "functors",
           UNCHANGED <<pc, revents, client, final, early>>,
           NEW id, Head(batch) = Forced(id), Up(id), HandleClose(id)
    PROVE  ClientInv'
  <1>1. AlwaysInv /\ TypeOK
    BY DEF ClientInv, AlwaysInv
  <1>2. /\ Head(batch) \in Functors /\ batch' \in Seq(Functors) /\ In(batch, Head(batch))
        /\ \A x : /\ In(batch', x) => In(batch, x)
                  /\ AtMostOnce(batch, x) => AtMostOnce(batch', x)
                  /\ In(batch, x) => In(batch', x) \/ x = Head(batch)
                  /\ In(batch', x) => Before(batch, Head(batch), x)
    BY <1>1, TakeEffect
  <1>3. id \in DOMAIN conns
    <2>1. id \in 1..MaxConns
      BY <1>2 DEF Forced, Functors, ConnectorFunctors
    <2>2. id <= Len(conns) /\ conns \in Seq({"KConnected", "KDisconnecting", "KDisconnected"})
      BY <1>1, <1>2, <2>1 DEF AlwaysInv, TypeOK, Pending
    <2> QED
      BY <2>1, <2>2, ClientAssumption
  <1>4. early = {} => connector.channel = "none"
    <2> SUFFICES ASSUME early = {} PROVE connector.channel = "none"
      OBVIOUS
    <2>1. FunctorInv /\ StateInv
      BY DEF ClientInv
    <2>2. ~Before(batch, Forced(id), ResetC)
      BY <1>3, <2>1 DEF FunctorInv
    <2>3. ~In(batch, ResetC)
      BY <1>2, <2>2, Names
    <2>4. connector.channel # "removed"
      BY <2>1, <2>3 DEF FunctorInv, Pending
    <2>5. connector.state = "kConnected" \/ connector.channel = "none"
      <3>1. id # 0
        BY <1>1, <1>3 DEF TypeOK
      <3> QED
        BY <1>3, <2>1, <3>1 DEF StateInv
    <2> QED
      BY <1>1, <2>1, <2>4, <2>5 DEF StateInv, TypeOK
  <1>5. early = {} => /\ connector.channel = "none" /\ "close" \notin revents'
                      /\ batch' # << >> => pc = "functors"
    BY <1>4 DEF ClientInv, FunctorInv
  <1> QED
    BY <1>2, <1>3, <1>5, CloseKeeps

(* Functors that change nothing: those of a connection that is closed.        *)
LEMMA NothingRuns ==
    ASSUME ClientInv, batch # << >>, batch' = Tail(batch), pc = "functors",
           UNCHANGED <<pc, revents, client, final, early, functors, connector, conns,
                       connection, delayed, aborted>>,
           Head(batch) # ResetC
    PROVE  ClientInv'
  <1>1. AlwaysInv /\ TypeOK
    BY DEF ClientInv, AlwaysInv
  <1>2. /\ batch' \in Seq(Functors)
        /\ \A x : /\ In(batch', x) => In(batch, x)
                  /\ AtMostOnce(batch, x) => AtMostOnce(batch', x)
                  /\ In(batch, x) => In(batch', x) \/ x = Head(batch)
        /\ \A x, y : Before(batch', x, y) => Before(batch, x, y)
    BY <1>1, TakeEffect
  <1>3. (\A x : Pending(x)' => Pending(x)) /\ (Pending(ResetC)' <=> Pending(ResetC))
    BY <1>2 DEF Pending
  <1>4. AlwaysInv'
    <2>1. DelayedUp'
      BY <1>1, DelayedSame
    <2> QED
      BY <1>1, <1>2, <1>3, <2>1 DEF AlwaysInv, TypeOK, Alive
  <1>5. ASSUME early' = {} PROVE FunctorInv' /\ StateInv'
    <2>1. FunctorInv /\ StateInv
      BY <1>5 DEF ClientInv
    <2>2. FunctorInv'
      BY <1>2, <1>3, <2>1 DEF FunctorInv, Up
    <2>3. StateInv'
      BY <2>1 DEF StateInv, Alive, Up
    <2> QED
      BY <2>2, <2>3
  <1>6. ASSUME final', early' \subseteq {"destroy"} PROVE FinalInv'
    BY <1>3, <1>6 DEF ClientInv, FinalInv
  <1> QED
    BY <1>4, <1>5, <1>6 DEF ClientInv

LEMMA StartRuns ==
    ASSUME ClientInv, batch # << >>, batch' = Tail(batch), pc = "functors",
           UNCHANGED <<pc, revents, client, final, early, functors, conns, connection, delayed>>,
           Head(batch) = Start, connector' \in StartInLoop(connector),
           aborted' = (connector'.failed \/ connector.deleted)
    PROVE  ClientInv'
  <1>1. AlwaysInv /\ TypeOK /\ connector \in Connectors
    BY ConnectorType DEF ClientInv, AlwaysInv
  <1>2. /\ batch' \in Seq(Functors) /\ In(batch, Start)
        /\ \A x : /\ In(batch', x) => In(batch, x)
                  /\ AtMostOnce(batch, x) => AtMostOnce(batch', x)
                  /\ AtMostOnce(batch, x) /\ x = Start => ~In(batch', x)
        /\ \A x, y : Before(batch', x, y) => Before(batch, x, y)
    BY <1>1, TakeEffect
  <1>3. Pending(Start) /\ \A x : Pending(x)' => Pending(x)
    BY <1>2 DEF Pending
  <1>4. StartGives(connector, connector') /\ (Rests(connector) => Attempts(connector'))
    BY <1>1, StartEffect DEF AlwaysInv
  <1>5. TypeOK'
    <2>1. connector'.failed \in BOOLEAN /\ connector.deleted \in BOOLEAN
      BY <1>1, <1>4 DEF Connectors, StartGives
    <2>2. aborted' \in BOOLEAN
      BY <2>1
    <2> QED
      BY <1>1, <1>2, <1>4, <2>2 DEF TypeOK, Connectors, StartGives
  <1>6. AlwaysInv'
    <2>1. "timer" \in revents' => connector'.timers >= 1
      BY <1>1, <1>4 DEF AlwaysInv, Connectors, StartGives
    <2>2. DelayedUp'
      BY <1>1, DelayedSame
    <2> QED
      BY <1>1, <1>3, <1>4, <1>5, <2>1, <2>2 DEF AlwaysInv, Alive, StartGives
  <1>7. ASSUME early' = {} PROVE FunctorInv' /\ StateInv'
    <2>1. early = {} /\ FunctorInv /\ StateInv
      BY <1>7 DEF ClientInv
    <2>2. connector.state = "kDisconnected" /\ connector.timers = 0 /\ connector.channel = "none"
      BY <1>3, <2>1 DEF FunctorInv
    <2>3. Alive /\ Alive'
      BY <2>1, <2>2 DEF StateInv, Alive
    <2>4. /\ connection = 0 /\ connector.sockets = 0 /\ ~Pending(ResetC)
          /\ "write" \notin revents /\ "close" \notin revents /\ "timer" \notin revents
          /\ \A id \in DOMAIN conns : ~Up(id)
      BY <1>1, <2>1, <2>2, <2>3, RestingMeans
    <2>5. Attempts(connector') /\ ~connector'.deleted /\ ~connector.deleted
      BY <1>4, <2>1, <2>2, <2>3, <2>4 DEF StartGives, StateInv, Rests
    <2>6. ~Pending(Start)'
      BY <1>2, <1>3, <2>1 DEF FunctorInv, Pending
    <2>7. FunctorInv'
      BY <1>2, <1>3, <2>1, <2>4, <2>5, <2>6 DEF FunctorInv, Attempts, Up, Pending
    <2>8. StateInv'
      BY <2>3, <2>4, <2>5 DEF StateInv, Attempts, Up
    <2> QED
      BY <2>7, <2>8
  <1>8. ~(final' /\ early' \subseteq {"destroy"})
    BY <1>3 DEF ClientInv, FinalInv
  <1> QED
    BY <1>6, <1>7, <1>8 DEF ClientInv

(* stopInLoop, which only a destructor amid the connector's work queues.      *)
LEMMA StopRuns ==
    ASSUME ClientInv, batch # << >>, batch' = Tail(batch), pc = "functors",
           UNCHANGED <<pc, revents, client, final, early, conns, connection, delayed>>,
           Head(batch) = Stop,
           \/ /\ connector.state = "kConnecting"
              /\ connector' = Retry(RemoveChannel(connector))
              /\ functors' = QueueResetChannel(functors)
           \/ connector.state # "kConnecting" /\ UNCHANGED <<connector, functors>>,
           aborted' = (connector'.failed \/ connector.deleted)
    PROVE  ClientInv'
  <1>1. AlwaysInv /\ TypeOK /\ connector \in Connectors
    BY ConnectorType DEF ClientInv, AlwaysInv
  <1>2. batch' \in Seq(Functors) /\ In(batch, Stop) /\ \A x : In(batch', x) => In(batch, x)
    BY <1>1, TakeEffect
  <1>3. /\ connector' \in Connectors /\ connector'.timers >= connector.timers
        /\ connector'.state = "kConnecting" => connector'.sockets >= 1
        /\ functors' \in Seq(Functors)
        /\ \A x : x # ResetC => (In(functors', x) => In(functors, x))
    <2>1. CASE /\ connector.state = "kConnecting"
               /\ connector' = Retry(RemoveChannel(connector))
               /\ functors' = QueueResetChannel(functors)
      <3> DEFINE e == RemoveChannel(connector)
      <3>1. e \in Connectors /\ e.sockets = connector.sockets /\ e.timers = connector.timers
        BY <1>1, RemoveEffect
      <3>2. e.sockets >= 1
        BY <1>1, <2>1, <3>1 DEF AlwaysInv
      <3> HIDE DEF e
      <3>3. RetryGives(e, connector')
        BY <2>1, <3>1, <3>2, RetryEffect DEF e
      <3>4. connector'.timers >= connector.timers
        BY <1>1, <3>1, <3>3 DEF RetryGives, Connectors
      <3>5. functors \in Seq(Functors) /\ functors' = Append(functors, ResetC)
        BY <1>1, <2>1 DEF TypeOK, QueueResetChannel, ResetC
      <3>6. functors' \in Seq(Functors) /\ \A x : In(functors', x) <=> In(functors, x) \/ x = ResetC
        BY <3>5, AppendHas, Names
      <3> QED
        BY <3>3, <3>4, <3>6 DEF RetryGives
    <2>2. CASE connector.state # "kConnecting" /\ UNCHANGED <<connector, functors>>
      BY <1>1, <2>2 DEF TypeOK, Connectors
    <2> QED
      BY <2>1, <2>2
  <1>4. \A x : x # ResetC => (Pending(x)' => Pending(x))
    BY <1>2, <1>3 DEF Pending
  <1>5. TypeOK'
    <2>1. connector'.failed \in BOOLEAN /\ connector.deleted \in BOOLEAN
      BY <1>1, <1>3 DEF Connectors
    <2>2. aborted' \in BOOLEAN
      BY <2>1
    <2> QED
      BY <1>1, <1>2, <1>3, <2>2 DEF TypeOK, Connectors
  <1>6. AlwaysInv'
    <2>1. "timer" \in revents' => connector'.timers >= 1
      BY <1>1, <1>3 DEF AlwaysInv, Connectors
    <2>2. DelayedUp'
      BY <1>1, DelayedSame
    <2> QED
      BY <1>1, <1>3, <1>4, <1>5, <2>1, <2>2, Names DEF AlwaysInv, Alive
  <1>7. early' # {}
    BY <1>2 DEF ClientInv, FunctorInv, Pending
  <1>8. ASSUME final', early' \subseteq {"destroy"} PROVE FinalInv'
    <2>1. FinalInv
      BY <1>8 DEF ClientInv
    <2> QED
      BY <1>4, <2>1, Names DEF FinalInv
  <1> QED
    BY <1>6, <1>7, <1>8 DEF ClientInv

LEMMA ResetRuns ==
    ASSUME ClientInv, batch # << >>, batch' = Tail(batch), pc = "functors",
           UNCHANGED <<pc, revents, client, final, early, functors, conns, connection, delayed>>,
           Head(batch) = ResetC, connector' = [connector EXCEPT !.channel = "none"],
           aborted' = (connector'.failed \/ connector.deleted)
    PROVE  ClientInv'
  <1>1. AlwaysInv /\ TypeOK /\ connector \in Connectors
    BY ConnectorType DEF ClientInv, AlwaysInv
  <1>2. /\ batch' \in Seq(Functors) /\ In(batch, ResetC)
        /\ \A x : /\ In(batch', x) => In(batch, x)
                  /\ AtMostOnce(batch, x) => AtMostOnce(batch', x)
                  /\ AtMostOnce(batch, x) /\ x = ResetC => ~In(batch', x)
        /\ \A x, y : Before(batch', x, y) => Before(batch, x, y)
    BY <1>1, TakeEffect
  <1>3. Pending(ResetC) /\ \A x : Pending(x)' => Pending(x)
    BY <1>2 DEF Pending
  <1>4. /\ connector' \in Connectors /\ connector'.channel = "none"
        /\ connector'.state = connector.state /\ connector'.sockets = connector.sockets
        /\ connector'.timers = connector.timers /\ connector'.failed = connector.failed
        /\ connector'.deleted = connector.deleted
        /\ connector'.enableConnect = connector.enableConnect
        /\ connector'.retryDelayMs = connector.retryDelayMs
    BY <1>1 DEF Connectors
  <1>5. TypeOK'
    <2>1. connector'.failed \in BOOLEAN /\ connector.deleted \in BOOLEAN
      BY <1>1, <1>4 DEF Connectors
    <2>2. aborted' \in BOOLEAN
      BY <2>1
    <2> QED
      BY <1>1, <1>2, <1>4, <2>2 DEF TypeOK, Connectors
  <1>6. AlwaysInv'
    <2>1. DelayedUp'
      BY <1>1, DelayedSame
    <2> QED
      BY <1>1, <1>3, <1>4, <1>5, <2>1 DEF AlwaysInv, Alive
  <1>7. ASSUME early' = {} PROVE FunctorInv' /\ StateInv'
    <2>1. early = {} /\ FunctorInv /\ StateInv
      BY <1>7 DEF ClientInv
    <2>2. connector.channel = "removed"
      BY <1>3, <2>1 DEF FunctorInv
    <2>3. Alive /\ Alive' /\ ~connector.deleted /\ ~aborted'
      BY <1>4, <2>1, <2>2 DEF StateInv, Alive
    <2>4. ~Pending(ResetC)' /\ ~Pending(Start)
      BY <1>2, <2>1, <2>2 DEF FunctorInv, Pending
    <2>5. revents = {}
      BY <2>1 DEF FunctorInv
    <2>6. FunctorInv'
      BY <1>2, <1>3, <1>4, <2>1, <2>4, <2>5 DEF FunctorInv, Up
    <2>7. StateInv'
      BY <1>4, <2>1, <2>2, <2>3, <2>5 DEF StateInv, Up
    <2> QED
      BY <2>6, <2>7
  <1>8. ASSUME final', early' \subseteq {"destroy"} PROVE FinalInv'
    BY <1>3, <1>4, <1>8 DEF ClientInv, FinalInv
  <1> QED
    BY <1>6, <1>7, <1>8 DEF ClientInv

LEMMA RunFunctorKeeps ==
    ASSUME ClientInv, RunFunctor
    PROVE  ClientInv'
  <1> DEFINE f == Head(batch)[1]
             id == Head(batch)[2]
  <1>1. /\ batch # << >> /\ batch' = Tail(batch) /\ pc = "functors"
        /\ UNCHANGED <<pc, revents, client, final, early>>
        /\ \/ /\ \/ /\ f = "startInLoop"
                    /\ connector' \in StartInLoop(connector) /\ UNCHANGED functors
                 \/ f = "stopInLoop" /\ StopInLoop
                 \/ f = "resetChannel" /\ ResetChannel
              /\ aborted' = (connector'.failed \/ connector.deleted)
              /\ UNCHANGED <<conns, connection, delayed>>
           \/ f = "forceCloseInLoop" /\ Up(id) /\ HandleClose(id)
           \/ /\ f = "ConnectDestoryed" \/ (f = "forceCloseInLoop" /\ ~Up(id))
              /\ UNCHANGED <<functors, connector, conns, connection, delayed, aborted>>
    BY DEF RunFunctor
  <1>2. Head(batch) \in Functors
    BY <1>1, TakeEffect DEF ClientInv, AlwaysInv
  <1>3. /\ f = "startInLoop" => Head(batch) = Start
        /\ f = "stopInLoop" => Head(batch) = Stop
        /\ f = "resetChannel" <=> Head(batch) = ResetC
        /\ f = "forceCloseInLoop" => Head(batch) = Forced(id)
    BY <1>2 DEF Functors, ConnectorFunctors, Start, Stop, ResetC, Forced
  <1> HIDE DEF f, id
  <1>4. CASE /\ \/ /\ f = "startInLoop"
                   /\ connector' \in StartInLoop(connector) /\ UNCHANGED functors
                \/ f = "stopInLoop" /\ StopInLoop
                \/ f = "resetChannel" /\ ResetChannel
             /\ aborted' = (connector'.failed \/ connector.deleted)
             /\ UNCHANGED <<conns, connection, delayed>>
    <2>1. CASE f = "startInLoop" /\ connector' \in StartInLoop(connector) /\ UNCHANGED functors
      BY <1>1, <1>3, <1>4, <2>1, StartRuns
    <2>2. CASE f = "stopInLoop" /\ StopInLoop
      BY <1>1, <1>3, <1>4, <2>2, StopRuns DEF StopInLoop
    <2>3. CASE f = "resetChannel" /\ ResetChannel
      BY <1>1, <1>3, <1>4, <2>3, ResetRuns DEF ResetChannel
    <2> QED
      BY <1>4, <2>1, <2>2, <2>3
  <1>5. CASE f = "forceCloseInLoop" /\ Up(id) /\ HandleClose(id)
    BY <1>1, <1>3, <1>5, ForceCloseRuns
  <1>6. CASE /\ f = "ConnectDestoryed" \/ (f = "forceCloseInLoop" /\ ~Up(id))
             /\ UNCHANGED <<functors, connector, conns, connection, delayed, aborted>>
    <2>1. Head(batch) # ResetC
      BY <1>3, <1>6
    <2> QED
      BY <1>1, <1>6, <2>1, NothingRuns
  <1> QED
    BY <1>1, <1>4, <1>5, <1>6


-----------------------------------------------------------------------------
(* The theorems                                                               *)

LEMMA NextKeepsClientInv == ClientInv /\ [Next]_vars => ClientInv'
  <1> SUFFICES ASSUME ClientInv, [Next]_vars PROVE ClientInv'
    OBVIOUS
  <1>1. ASSUME NEW inLoop \in BOOLEAN, ClientConnect(inLoop) PROVE ClientInv'
    BY <1>1, ConnectKeeps
  <1>2. CASE Disconnect
    BY <1>2, DisconnectKeeps
  <1>3. CASE UserForceCloses
    BY <1>3, UserForceClosesKeeps
  <1>4. CASE Destructor
    BY <1>4, DestructorKeeps
  <1>5. CASE Poll
    BY <1>5, PollKeeps
  <1>6. CASE RetryTimer
    BY <1>6, RetryTimerKeeps
  <1>7. CASE HandleWriteFails
    BY <1>7, WriteFailsKeeps
  <1>8. CASE HandleWriteConnects
    BY <1>8, WriteConnectsKeeps
  <1>9. CASE HandleConnectionClose
    BY <1>9, ConnectionCloseKeeps
  <1>10. CASE HandlePendingFunctors
    BY <1>10, HandlePendingFunctorsKeeps
  <1>11. CASE RunFunctor
    BY <1>11, RunFunctorKeeps
  <1>12. CASE EndOfFunctors
    BY <1>12, EndOfFunctorsKeeps
  <1>13. CASE UNCHANGED vars
    BY <1>13, StutterKeeps
  <1>14. CASE UserForceClosesLater
    BY <1>14, ForceClosesLaterKeeps
  <1>15. CASE DelayedClose
    BY <1>15, DelayedCloseKeeps
  <1> QED
    BY <1>1, <1>2, <1>3, <1>4, <1>5, <1>6, <1>7, <1>8, <1>9, <1>10, <1>11, <1>12, <1>13,
       <1>14, <1>15 DEF Next

(* Whatever the user calls, in and out of the connector's work, and whatever  *)
(* connect(), the sockets and the timers answer, ClientInv holds: of          *)
(* Connector.cpp and TcpClient.cpp, what the functors that are queued rely on *)
(* when they run.                                                             *)
THEOREM ClientInvariant == Spec => []ClientInv
  BY InitClientInv, NextKeepsClientInv, PTL DEF Spec

(* As long as connect() and ~TcpClient come when the connector rests, and no  *)
(* delayed close comes too early, there is at most one of a retry timer, an   *)
(* attempt and a connection, and one socket open for the attempt:             *)
(* Connector::retry closes, handleWrite hands over, and the delay stays       *)
(* between its two limits.                                                    *)
THEOREM OneAttemptAtATime == Spec => []AttemptInv
  <1>1. ClientInv => AttemptInv
    BY DEF ClientInv, AlwaysInv, StateInv, AttemptInv
  <1> QED
    BY <1>1, ClientInvariant, PTL

(* The asserts of Connector.cpp and TcpClient.cpp hold, and no functor runs   *)
(* with a deleted connector, as long as connect() and ~TcpClient come when    *)
(* the connector rests, and no timer of forceCloseWithDelay closes the        *)
(* connection between the poll and the handler of its event, or starts the    *)
(* connector before resetChannel has run.                                     *)
THEOREM ClientAssertsHold == Spec => []NoAssertFails
  <1>1. ClientInv => NoAssertFails
    BY DEF ClientInv, StateInv, NoAssertFails
  <1> QED
    BY <1>1, ClientInvariant, PTL

(* After TcpClient::disconnect found a connection neither its close nor a     *)
(* timer starts the connector: only connect() does.                           *)
THEOREM DisconnectEnds == Spec => []DisconnectIsFinal
  <1>1. ClientInv => DisconnectIsFinal
    BY DEF ClientInv, FinalInv, DisconnectIsFinal
  <1> QED
    BY <1>1, ClientInvariant, PTL
=============================================================================
