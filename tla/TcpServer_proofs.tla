--------------------------- MODULE TcpServer_proofs ---------------------------
(* Theorems of TcpServer, for any number of loops, connections and            *)
(* descriptors.                                                               *)
EXTENDS TcpServer, Integers, FiniteSetTheorems, SequenceTheorems, NaturalsInduction, TLAPS

-----------------------------------------------------------------------------
(* What a set of queues q holds for the loop l.                               *)

In(q, l, x) == \E i \in 1..Len(q[l]) : q[l][i] = x
AtMostOnce(q, l, x) == \A i, j \in 1..Len(q[l]) : q[l][i] = x /\ q[l][j] = x => i = j

(* Every x has a y behind it.                                                 *)
Before(q, l, x, y) ==
    \A i \in 1..Len(q[l]) : q[l][i] = x => \E j \in 1..Len(q[l]) : i < j /\ q[l][j] = y

Queues == [Loops -> Seq(Functors \X Conns)]
Pop(q, l) == [q EXCEPT ![l] = Tail(@)]

LEMMA PushView ==
    ASSUME NEW q \in Queues, NEW l \in Loops, NEW f \in Functors, NEW c \in Conns
    PROVE  LET r == Push(q, l, f, c) IN
           /\ r \in Queues
           /\ \A k \in Loops, x \in Functors \X Conns :
                /\ In(r, k, x) <=> In(q, k, x) \/ (k = l /\ x = <<f, c>>)
                /\ AtMostOnce(q, k, x) /\ ~(k = l /\ x = <<f, c>> /\ In(q, k, x)) => AtMostOnce(r, k, x)
                /\ \A y \in Functors \X Conns :
                     ~(k = l /\ x = <<f, c>>) /\ Before(q, k, x, y) => Before(r, k, x, y)
                /\ k = l /\ x # <<f, c>> => Before(r, k, x, <<f, c>>)
  <1> DEFINE r == Push(q, l, f, c)
  <1>1. r \in Queues
    BY DEF Push, Queues
  <1>2. ASSUME NEW k \in Loops, k # l PROVE r[k] = q[k]
    BY <1>2 DEF Push, Queues
  <1>3. /\ Len(q[l]) \in Nat
        /\ Len(r[l]) = Len(q[l]) + 1
        /\ r[l][Len(q[l]) + 1] = <<f, c>>
        /\ \A i \in 1..Len(q[l]) : r[l][i] = q[l][i]
    BY DEF Push, Queues
  <1> HIDE DEF r
  <1>4. ASSUME NEW x \in Functors \X Conns
        PROVE  /\ In(r, l, x) <=> In(q, l, x) \/ x = <<f, c>>
               /\ AtMostOnce(q, l, x) /\ ~(x = <<f, c>> /\ In(q, l, x)) => AtMostOnce(r, l, x)
               /\ \A y \in Functors \X Conns :
                     ~(x = <<f, c>>) /\ Before(q, l, x, y) => Before(r, l, x, y)
               /\ x # <<f, c>> => Before(r, l, x, <<f, c>>)
    <2> DEFINE e == <<f, c>>
               m == Len(q[l])
    <2>1. /\ m \in Nat /\ Len(r[l]) = m + 1 /\ r[l][m + 1] = e
          /\ \A i \in 1..m : r[l][i] = q[l][i]
          /\ \A i \in 1..(m + 1) : i \in 1..m \/ i = m + 1
      BY <1>3
    <2> HIDE DEF e, m
    <2>2. In(r, l, x) <=> In(q, l, x) \/ x = e
      BY <2>1 DEF In, m
    <2>3. AtMostOnce(q, l, x) /\ ~(x = e /\ In(q, l, x)) => AtMostOnce(r, l, x)
      BY <2>1 DEF In, AtMostOnce, m
    <2>4. ASSUME NEW y, x # e, Before(q, l, x, y) PROVE Before(r, l, x, y)
      <3> SUFFICES ASSUME NEW i \in 1..(m + 1), r[l][i] = x
                   PROVE  \E j \in 1..(m + 1) : i < j /\ r[l][j] = y
        BY <2>1 DEF Before
      <3>1. i \in 1..m /\ q[l][i] = x
        BY <2>1, <2>4
      <3>2. PICK j \in 1..m : i < j /\ q[l][j] = y
        BY <2>4, <3>1 DEF Before, m
      <3>3. j \in 1..(m + 1) /\ r[l][j] = y
        BY <2>1, <3>2
      <3> QED
        BY <3>2, <3>3
    <2>5. x # e => Before(r, l, x, e)
      BY <2>1 DEF Before, m
    <2> QED
      BY <2>2, <2>3, <2>4, <2>5 DEF e
  <1>5. ASSUME NEW k \in Loops, k # l, NEW x
        PROVE  /\ In(r, k, x) <=> In(q, k, x)
               /\ AtMostOnce(q, k, x) => AtMostOnce(r, k, x)
               /\ \A y : Before(q, k, x, y) => Before(r, k, x, y)
    BY <1>2, <1>5 DEF In, AtMostOnce, Before
  <1> QED
    BY <1>1, <1>4, <1>5 DEF r

LEMMA PopView ==
    ASSUME NEW q \in Queues, NEW l \in Loops, q[l] # << >>
    PROVE  LET r == Pop(q, l) IN
           /\ Head(q[l]) \in Functors \X Conns /\ In(q, l, Head(q[l]))
           /\ r \in Queues
           /\ \A k \in Loops, x \in Functors \X Conns :
                /\ In(r, k, x) => In(q, k, x)
                /\ In(q, k, x) => In(r, k, x) \/ (k = l /\ x = Head(q[l]))
                /\ AtMostOnce(q, k, x) => AtMostOnce(r, k, x)
                /\ AtMostOnce(q, k, x) /\ k = l /\ x = Head(q[l]) => ~In(r, k, x)
                /\ \A y \in Functors \X Conns : Before(q, k, x, y) => Before(r, k, x, y)
  <1> DEFINE r == Pop(q, l)
             m == Len(q[l])
             h == Head(q[l])
  <1>1. r \in Queues /\ h \in Functors \X Conns
    BY DEF Pop, Queues
  <1>2. ASSUME NEW k \in Loops, k # l PROVE r[k] = q[k]
    BY <1>2 DEF Pop, Queues
  <1>3. /\ m \in Nat \ {0} /\ h = q[l][1]
        /\ Len(r[l]) = m - 1
        /\ \A i \in 1..(m - 1) : r[l][i] = q[l][i + 1]
    BY DEF Pop, Queues
  <1> HIDE DEF r, m, h
  <1>4. ASSUME NEW x \in Functors \X Conns
        PROVE  /\ In(r, l, x) => In(q, l, x)
               /\ In(q, l, x) => In(r, l, x) \/ x = h
               /\ AtMostOnce(q, l, x) => AtMostOnce(r, l, x)
               /\ AtMostOnce(q, l, x) /\ x = h => ~In(r, l, x)
               /\ \A y : Before(q, l, x, y) => Before(r, l, x, y)
    <2>1. \A i \in 1..(m - 1) : i + 1 \in 1..m /\ r[l][i] = q[l][i + 1]
      BY <1>3
    <2>2. \A i \in 1..m : i = 1 \/ (i - 1 \in 1..(m - 1) /\ r[l][i - 1] = q[l][i])
      BY <1>3
    <2>3. In(r, l, x) => In(q, l, x)
      BY <1>3, <2>1 DEF In, m
    <2>4. In(q, l, x) => In(r, l, x) \/ x = h
      BY <1>3, <2>2 DEF In, m
    <2>5. AtMostOnce(q, l, x) => AtMostOnce(r, l, x)
      <3> SUFFICES ASSUME AtMostOnce(q, l, x),
                          NEW i \in 1..(m - 1), NEW j \in 1..(m - 1), r[l][i] = x, r[l][j] = x
                   PROVE  i = j
        BY <1>3 DEF AtMostOnce
      <3>1. i + 1 = j + 1
        BY <2>1 DEF AtMostOnce, m
      <3> QED
        BY <3>1
    <2>6. ASSUME AtMostOnce(q, l, x), x = h PROVE ~In(r, l, x)
      BY <1>3, <2>1, <2>6 DEF AtMostOnce, In, m
    <2>7. ASSUME NEW y, Before(q, l, x, y) PROVE Before(r, l, x, y)
      <3> SUFFICES ASSUME NEW i \in 1..(m - 1), r[l][i] = x
                   PROVE  \E j \in 1..(m - 1) : i < j /\ r[l][j] = y
        BY <1>3 DEF Before
      <3>1. PICK j \in 1..m : i + 1 < j /\ q[l][j] = y
        BY <2>1, <2>7 DEF Before, m
      <3>2. j # 1 /\ i < j - 1
        BY <3>1, <1>3
      <3>3. j - 1 \in 1..(m - 1) /\ r[l][j - 1] = y
        BY <2>2, <3>1, <3>2
      <3> QED
        BY <3>2, <3>3
    <2> QED
      BY <2>3, <2>4, <2>5, <2>6, <2>7
  <1>5. ASSUME NEW k \in Loops, k # l, NEW x
        PROVE  /\ In(r, k, x) <=> In(q, k, x)
               /\ AtMostOnce(q, k, x) => AtMostOnce(r, k, x)
               /\ \A y : Before(q, k, x, y) => Before(r, k, x, y)
    BY <1>2, <1>5 DEF In, AtMostOnce, Before
  <1>6. In(q, l, h)
    BY <1>3 DEF In, m
  <1> QED
    BY <1>1, <1>4, <1>5, <1>6 DEF r, h

-----------------------------------------------------------------------------
(* The inductive invariant                                                    *)

(* start() takes the loops in order, and one thread at a time prepares.       *)
PoolInv ==
    /\ numThreads \in ThreadPools
    /\ Len(loops) <= Len(numThreads)
    /\ \A i \in 1..Len(loops) : loops[i] = numThreads[i] /\ Pool!Published(loops[i])
    /\ IF loops = << >> THEN nextLoopIdx = 0 ELSE nextLoopIdx < Len(loops)
    /\ starter \in {"test", "wait"} => Len(loops) < Len(numThreads)
    /\ \A l \in IoLoops : thread[l] = "preparing" =>
         starter \in {"test", "wait"} /\ l = numThreads[Len(loops) + 1]

AcceptInv == nextConnId + backlog <= MaxConns + 1

(* Where a functor for a connection runs.                                     *)
Home(f, c) == IF f = "removeConnectionInLoop" THEN BaseLoop ELSE conn[c].loop

(* What holds of a connection whatever a call wrote over its state, *)
(* when the queues are q.                                                     *)
LifeInv(q, c) ==
    /\ \A l \in Loops, f \in Functors : In(q, l, <<f, c>>) => l = Home(f, c)
    /\ conn[c].loop = BaseLoop \/ \E i \in 1..Len(loops) : conn[c].loop = loops[i]
    /\ conn[c].state = "absent" <=> nextConnId <= c
    /\ conn[c].state = "absent" => /\ conn[c] = NoConn
                                   /\ \A l \in Loops, f \in Functors : ~In(q, l, <<f, c>>)
    /\ c \in connections \/ call[c] # "none" \/ conn[c].added => Exists(c)
    /\ \A l \in Loops, f \in Functors \ RawFunctors : In(q, l, <<f, c>>) => Exists(c)
    /\ call[c] # "none" => conn[c].state # "KConnecting"
    /\ Exists(c) /\ c \notin connections /\ conn[c].added =>
         In(q, conn[c].loop, <<"ConnectDestoryed", c>>)
    /\ In(q, conn[c].loop, <<"ConnectEstablished", c>>) =>
         conn[c].state = "KConnecting"
    /\ AtMostOnce(q, conn[c].loop, <<"ConnectEstablished", c>>)
    /\ conn[c].state = "KConnecting" =>
         ~conn[c].added /\ ~conn[c].read /\ conn[c].ups = 0 /\ conn[c].downs = 0
    /\ Exists(c) /\ conn[c].downs = 0 =>
         /\ c \in connections
         /\ ~In(q, BaseLoop, <<"removeConnectionInLoop", c>>)
         /\ ~In(q, conn[c].loop, <<"ConnectDestoryed", c>>)
    /\ c \notin late => \A f \in RawFunctors : In(q, conn[c].loop, <<f, c>>) =>
         /\ Exists(c)
         /\ c \in connections \/ Before(q, conn[c].loop, <<f, c>>, <<"ConnectDestoryed", c>>)

(* Two connections never share a descriptor.                                  *)
FdInv ==
    \A c, d \in Conns : Exists(c) /\ Exists(d) /\ conn[c].fd = conn[d].fd => c = d

(* What holds as long as no call wrote over KDisconnected.                    *)
OrderInv(q, c) ==
    /\ conn[c].read => Up(c)
    /\ Up(c) => conn[c].ups = 1 /\ conn[c].downs = 0 /\ conn[c].added
    /\ conn[c].state \in {"KDisconnected", "destroyed"} => conn[c].ups = 1 /\ conn[c].downs = 1
    /\ In(q, BaseLoop, <<"removeConnectionInLoop", c>>) =>
         conn[c].state = "KDisconnected" /\ c \in connections /\ conn[c].added
    /\ AtMostOnce(q, BaseLoop, <<"removeConnectionInLoop", c>>)
    /\ In(q, conn[c].loop, <<"ConnectDestoryed", c>>) =>
         conn[c].state = "KDisconnected" /\ c \notin connections /\ conn[c].added
    /\ AtMostOnce(q, conn[c].loop, <<"ConnectDestoryed", c>>)
    /\ c \in connections =>
         \/ conn[c].state = "KConnecting"
         \/ Up(c)
         \/ In(q, BaseLoop, <<"removeConnectionInLoop", c>>)

(* All of it, when the queues are q.                                          *)
InvWith(q) ==
    /\ TypeOK /\ PoolInv /\ AcceptInv /\ FdInv
    /\ \A c \in Conns : LifeInv(q, c)
    /\ ~overwritten => ~aborted /\ \A c \in Conns : OrderInv(q, c)

ServerInv == InvWith(queue)

-----------------------------------------------------------------------------
(* The kernel gives out a descriptor that is free.                            *)
LEMMA AcceptsFree ==
    ASSUME fdLimit \in Nat, NEW open, Acc!Accept(open) # Acc!NoFd
    PROVE  Acc!Accept(open) \in Nat \ open
  <1> DEFINE free == (1..fdLimit) \ open
  <1>1. free # {} /\ Acc!Accept(open) = Acc!Min(free)
    BY DEF Acc!Accept
  <1>2. free \subseteq Nat
    OBVIOUS
  <1>3. IsWellFoundedOn(OpToRel(<, Nat), Nat)
    BY NatLessThanWellFounded
  <1>4. PICK x \in free : \A y \in free : ~(<<y, x>> \in OpToRel(<, Nat))
    BY <1>1, <1>2, <1>3, WFMin
  <1>5. \A a, b \in Nat : a < b => <<a, b>> \in OpToRel(<, Nat)
    BY Zenon DEF OpToRel
  <1>6. \A y \in free : ~(y < x)
    BY <1>2, <1>4, <1>5, Zenon
  <1>7. \A y \in free : x <= y
    BY <1>2, <1>6
  <1>8. Acc!Min(free) \in free
    BY <1>7 DEF Acc!Min
  <1> QED
    BY <1>1, <1>2, <1>8

-----------------------------------------------------------------------------
(* What one connection's invariant is blind to.                               *)

(* The queues r hold for d what the queues q hold.                            *)
View(q, r, d) ==
    \A l \in Loops, f \in Functors :
        /\ In(r, l, <<f, d>>) <=> In(q, l, <<f, d>>)
        /\ AtMostOnce(q, l, <<f, d>>) => AtMostOnce(r, l, <<f, d>>)
        /\ \A g \in Functors : Before(q, l, <<f, d>>, <<g, d>>) => Before(r, l, <<f, d>>, <<g, d>>)

Same(d) ==
    /\ conn'[d] = conn[d] /\ call'[d] = call[d]
    /\ d \in connections' <=> d \in connections
    /\ d \in late' <=> d \in late
    /\ nextConnId' <= d <=> nextConnId <= d
    /\ \A i \in 1..Len(loops) : i \in 1..Len(loops') /\ loops'[i] = loops[i]

LEMMA Names ==
    /\ RawFunctors \subseteq Functors
    /\ {"ConnectEstablished", "ConnectDestoryed", "removeConnectionInLoop", "forceCloseInLoop",
        "sendInLoop", "shutdownInLoop"} = Functors
    /\ RawFunctors = {"sendInLoop", "shutdownInLoop"}
    /\ BaseLoop \in Loops
  BY DEF RawFunctors, Functors, Loops

LEMMA TypeFacts ==
    ASSUME TypeOK
    PROVE  /\ queue \in Queues
           /\ \A c \in Conns : conn[c].loop \in Loops
           /\ \A c \in Conns : c \in Nat
  BY DEF TypeOK, Queues, Conns

LEMMA LifeFrame ==
    ASSUME TypeOK, NEW q, NEW d \in Conns, LifeInv(q, d), Same(d), View(q, queue', d)
    PROVE  LifeInv(queue, d)'
  <1>1. conn[d].loop \in Loops
    BY TypeFacts
  <1>2. \A f \in Functors : Home(f, d)' = Home(f, d)
    BY DEF Home, Same
  <1>3. Exists(d)' <=> Exists(d)
    BY DEF Exists, Same
  <1>4. \A l \in Loops, f \in Functors : In(queue, l, <<f, d>>)' <=> In(q, l, <<f, d>>)
    BY DEF View, In
  <1>5. \A l \in Loops, f \in Functors :
          AtMostOnce(q, l, <<f, d>>) => AtMostOnce(queue, l, <<f, d>>)'
    BY DEF View, AtMostOnce
  <1>6. \A l \in Loops, f, g \in Functors :
          Before(q, l, <<f, d>>, <<g, d>>) => Before(queue, l, <<f, d>>, <<g, d>>)'
    BY DEF View, Before
  <1> QED
    BY <1>1, <1>2, <1>3, <1>4, <1>5, <1>6, Names DEF LifeInv, Same

LEMMA OrderFrame ==
    ASSUME TypeOK, NEW q, NEW d \in Conns, OrderInv(q, d), Same(d), View(q, queue', d)
    PROVE  OrderInv(queue, d)'
  <1>1. conn[d].loop \in Loops
    BY TypeFacts
  <1>4. \A l \in Loops, f \in Functors : In(queue, l, <<f, d>>)' <=> In(q, l, <<f, d>>)
    BY DEF View, In
  <1>5. \A l \in Loops, f \in Functors :
          AtMostOnce(q, l, <<f, d>>) => AtMostOnce(queue, l, <<f, d>>)'
    BY DEF View, AtMostOnce
  <1> QED
    BY <1>1, <1>4, <1>5, Names DEF OrderInv, Same, Up

LEMMA PushOthers ==
    ASSUME NEW q \in Queues, NEW l \in Loops, NEW f \in Functors, NEW c \in Conns,
           NEW d \in Conns, d # c
    PROVE  View(q, Push(q, l, f, c), d)
  <1> DEFINE r == Push(q, l, f, c)
  <1>1. ASSUME NEW k \in Loops, NEW g \in Functors
        PROVE  /\ In(r, k, <<g, d>>) <=> In(q, k, <<g, d>>)
               /\ AtMostOnce(q, k, <<g, d>>) => AtMostOnce(r, k, <<g, d>>)
               /\ \A h \in Functors : Before(q, k, <<g, d>>, <<h, d>>) => Before(r, k, <<g, d>>, <<h, d>>)
    <2>1. <<g, d>> # <<f, c>> /\ <<g, d>> \in Functors \X Conns
          /\ \A h \in Functors : <<h, d>> \in Functors \X Conns
      OBVIOUS
    <2> QED
      BY <2>1, PushView
  <1> QED
    BY <1>1 DEF View

LEMMA PopOthers ==
    ASSUME NEW q \in Queues, NEW l \in Loops, q[l] # << >>, NEW d \in Conns, Head(q[l])[2] # d
    PROVE  View(q, Pop(q, l), d)
  <1> DEFINE r == Pop(q, l)
  <1>1. ASSUME NEW k \in Loops, NEW g \in Functors
        PROVE  /\ In(r, k, <<g, d>>) <=> In(q, k, <<g, d>>)
               /\ AtMostOnce(q, k, <<g, d>>) => AtMostOnce(r, k, <<g, d>>)
               /\ \A h \in Functors : Before(q, k, <<g, d>>, <<h, d>>) => Before(r, k, <<g, d>>, <<h, d>>)
    <2>1. <<g, d>> # Head(q[l]) /\ <<g, d>> \in Functors \X Conns
          /\ \A h \in Functors : <<h, d>> \in Functors \X Conns
      OBVIOUS
    <2> QED
      BY <2>1, PopView
  <1> QED
    BY <1>1 DEF View

(* A functor that is taken from its queue leaves all of the invariant but     *)
(* what says that it is on its way.                                           *)
LEMMA PopLife ==
    ASSUME TypeOK, NEW l \in Loops, queue[l] # << >>, NEW d \in Conns, LifeInv(queue, d),
           Head(queue[l]) # <<"ConnectDestoryed", d>>
    PROVE  LifeInv(Pop(queue, l), d)
  <1> DEFINE r == Pop(queue, l)
  <1>1. conn[d].loop \in Loops /\ queue \in Queues
    BY TypeFacts
  <1>2. \A k \in Loops, f \in Functors :
           /\ In(r, k, <<f, d>>) => In(queue, k, <<f, d>>)
           /\ AtMostOnce(queue, k, <<f, d>>) => AtMostOnce(r, k, <<f, d>>)
           /\ \A g \in Functors :
                Before(queue, k, <<f, d>>, <<g, d>>) => Before(r, k, <<f, d>>, <<g, d>>)
    BY <1>1, PopView
  <1>3. \A k \in Loops :
          In(queue, k, <<"ConnectDestoryed", d>>) => In(r, k, <<"ConnectDestoryed", d>>)
    BY <1>1, PopView, Names
  <1> HIDE DEF r
  <1>4. LifeInv(r, d)
    BY <1>1, <1>2, <1>3, Names DEF LifeInv
  <1> QED
    BY <1>4 DEF r

LEMMA PopOrder ==
    ASSUME TypeOK, NEW l \in Loops, queue[l] # << >>, NEW d \in Conns, OrderInv(queue, d),
           Head(queue[l]) # <<"removeConnectionInLoop", d>>
    PROVE  OrderInv(Pop(queue, l), d)
  <1> DEFINE r == Pop(queue, l)
  <1>1. conn[d].loop \in Loops /\ queue \in Queues
    BY TypeFacts
  <1>2. \A k \in Loops, f \in Functors :
           /\ In(r, k, <<f, d>>) => In(queue, k, <<f, d>>)
           /\ AtMostOnce(queue, k, <<f, d>>) => AtMostOnce(r, k, <<f, d>>)
    BY <1>1, PopView
  <1>3. \A k \in Loops :
          In(queue, k, <<"removeConnectionInLoop", d>>) => In(r, k, <<"removeConnectionInLoop", d>>)
    BY <1>1, PopView, Names
  <1> HIDE DEF r
  <1>4. OrderInv(r, d)
    BY <1>1, <1>2, <1>3, Names DEF OrderInv
  <1> QED
    BY <1>4 DEF r

(* The queues r hold for c what the queues q hold, and f at the end of l's.   *)
Pushed(q, r, l, f, c) ==
    \A k \in Loops, g \in Functors :
        /\ In(r, k, <<g, c>>) <=> In(q, k, <<g, c>>) \/ (k = l /\ g = f)
        /\ AtMostOnce(q, k, <<g, c>>) /\ ~(k = l /\ g = f /\ In(q, k, <<g, c>>)) =>
             AtMostOnce(r, k, <<g, c>>)
        /\ g # f => \A h \in Functors :
             Before(q, k, <<g, c>>, <<h, c>>) => Before(r, k, <<g, c>>, <<h, c>>)
        /\ k = l /\ g # f => Before(r, k, <<g, c>>, <<f, c>>)

LEMMA PushOwn ==
    ASSUME NEW q \in Queues, NEW l \in Loops, NEW f \in Functors, NEW c \in Conns
    PROVE  Pushed(q, Push(q, l, f, c), l, f, c)
  <1> DEFINE r == Push(q, l, f, c)
  <1>1. ASSUME NEW k \in Loops, NEW g \in Functors
        PROVE  /\ In(r, k, <<g, c>>) <=> In(q, k, <<g, c>>) \/ (k = l /\ g = f)
               /\ AtMostOnce(q, k, <<g, c>>) /\ ~(k = l /\ g = f /\ In(q, k, <<g, c>>)) =>
                    AtMostOnce(r, k, <<g, c>>)
               /\ g # f => \A h \in Functors :
                    Before(q, k, <<g, c>>, <<h, c>>) => Before(r, k, <<g, c>>, <<h, c>>)
               /\ k = l /\ g # f => Before(r, k, <<g, c>>, <<f, c>>)
    <2>1. <<g, c>> \in Functors \X Conns /\ (<<g, c>> = <<f, c>> <=> g = f)
          /\ \A h \in Functors : <<h, c>> \in Functors \X Conns
      OBVIOUS
    <2> QED
      BY <2>1, PushView
  <1> QED
    BY <1>1 DEF Pushed

-----------------------------------------------------------------------------
(* handleClose of a connection that is up, when the queues are q.             *)

LEMMA CloseEffect ==
    ASSUME TypeOK, NEW q \in Queues, NEW c \in Conns, Up(c), HandleClose(c, q)
    PROVE  /\ conn' = [conn EXCEPT ![c] = TakeDown(conn[c])]
           /\ conn'[c].state = "KDisconnected" /\ conn'[c].loop = conn[c].loop
           /\ conn'[c].added = conn[c].added /\ ~conn'[c].read
           /\ conn'[c].ups = conn[c].ups /\ conn'[c].downs = conn[c].downs + 1
           /\ conn'[c].fd = conn[c].fd
           /\ \/ /\ conn[c].loop = BaseLoop
                 /\ queue' = Push(q, BaseLoop, "ConnectDestoryed", c)
                 /\ connections' = connections \ {c}
                 /\ aborted' = (c \notin connections)
              \/ /\ conn[c].loop # BaseLoop
                 /\ queue' = Push(q, BaseLoop, "removeConnectionInLoop", c)
                 /\ connections' = connections /\ aborted' = aborted
           /\ queue' \in Queues
  <1>1. conn' = [conn EXCEPT ![c] = TakeDown(conn[c])]
    BY DEF HandleClose
  <1>2. conn'[c] = TakeDown(conn[c])
    BY <1>1 DEF TypeOK
  <1>3. /\ conn'[c].state = "KDisconnected" /\ conn'[c].loop = conn[c].loop
        /\ conn'[c].added = conn[c].added /\ ~conn'[c].read
        /\ conn'[c].ups = conn[c].ups /\ conn'[c].downs = conn[c].downs + 1
        /\ conn'[c].fd = conn[c].fd
    BY <1>2 DEF TypeOK, TakeDown
  <1>4. \/ /\ conn[c].loop = BaseLoop
           /\ queue' = Push(q, BaseLoop, "ConnectDestoryed", c)
           /\ connections' = connections \ {c}
           /\ aborted' = (c \notin connections)
        \/ /\ conn[c].loop # BaseLoop
           /\ queue' = Push(q, BaseLoop, "removeConnectionInLoop", c)
           /\ connections' = connections /\ aborted' = aborted
    BY Zenon DEF HandleClose, RemoveConnectionInLoop
  <1>5. queue' \in Queues
    BY <1>4, Names, PushView
  <1> QED
    BY <1>1, <1>3, <1>4, <1>5

LEMMA CloseLife ==
    ASSUME TypeOK, NEW q \in Queues, NEW c \in Conns, Up(c), HandleClose(c, q), LifeInv(q, c),
           UNCHANGED <<loops, nextConnId, call, late>>
    PROVE  LifeInv(queue, c)'
  <1>1. /\ conn'[c].state = "KDisconnected" /\ conn'[c].loop = conn[c].loop
        /\ conn'[c].added = conn[c].added /\ conn'[c].downs = conn[c].downs + 1
        /\ conn[c].downs \in Nat /\ conn[c].loop \in Loops
    BY CloseEffect DEF TypeOK
  <1>2. \A f : Home(f, c)' = Home(f, c)
    BY <1>1 DEF Home
  <1>3. Exists(c) /\ Exists(c)' /\ conn[c].state # "KConnecting" /\ conn[c].state # "absent"
    BY <1>1 DEF Exists, Up, States
  <1>4. CASE conn[c].loop = BaseLoop
    <2>1. queue' = Push(q, BaseLoop, "ConnectDestoryed", c) /\ connections' = connections \ {c}
      BY <1>4, CloseEffect
    <2>2. Pushed(q, queue', BaseLoop, "ConnectDestoryed", c)
      BY <2>1, PushOwn, Names
    <2>3. Pushed(q, queue, BaseLoop, "ConnectDestoryed", c)'
      BY <2>2 DEF Pushed, In, AtMostOnce, Before
    <2> QED
      BY <1>1, <1>2, <1>3, <1>4, <2>1, <2>3, Names DEF LifeInv, Home, Pushed
  <1>5. CASE conn[c].loop # BaseLoop
    <2>1. queue' = Push(q, BaseLoop, "removeConnectionInLoop", c) /\ connections' = connections
      BY <1>5, CloseEffect
    <2>2. Pushed(q, queue', BaseLoop, "removeConnectionInLoop", c)
      BY <2>1, PushOwn, Names
    <2> QED
      BY <1>1, <1>2, <1>3, <1>5, <2>1, <2>2, Names DEF LifeInv, Home, Pushed
  <1> QED
    BY <1>4, <1>5

LEMMA CloseOrder ==
    ASSUME TypeOK, NEW q \in Queues, NEW c \in Conns, Up(c), HandleClose(c, q), LifeInv(q, c),
           OrderInv(q, c), ~aborted, UNCHANGED <<loops, nextConnId, call, late>>
    PROVE  OrderInv(queue, c)' /\ ~aborted'
  <1>1. /\ conn'[c].state = "KDisconnected" /\ conn'[c].loop = conn[c].loop
        /\ conn'[c].added = conn[c].added /\ conn'[c].downs = conn[c].downs + 1
        /\ conn'[c].ups = conn[c].ups /\ ~conn'[c].read
        /\ conn[c].downs \in Nat /\ conn[c].loop \in Loops
    BY CloseEffect DEF TypeOK
  <1>2. /\ conn'[c].ups = 1 /\ conn'[c].downs = 1 /\ conn'[c].added
        /\ c \in connections /\ ~Up(c)'
        /\ ~In(q, BaseLoop, <<"removeConnectionInLoop", c>>)
        /\ ~In(q, conn[c].loop, <<"ConnectDestoryed", c>>)
    BY <1>1 DEF OrderInv, LifeInv, Exists, Up, States
  <1>3. CASE conn[c].loop = BaseLoop
    <2>1. /\ queue' = Push(q, BaseLoop, "ConnectDestoryed", c) /\ connections' = connections \ {c}
          /\ aborted' = (c \notin connections)
      BY <1>3, CloseEffect
    <2>2. Pushed(q, queue', BaseLoop, "ConnectDestoryed", c)
      BY <2>1, PushOwn, Names
    <2>3. ~aborted'
      BY <1>2, <2>1
    <2>4. OrderInv(queue, c)'
      BY <1>1, <1>2, <1>3, <2>1, <2>2, Names DEF OrderInv, Pushed
    <2> QED
      BY <2>3, <2>4
  <1>4. CASE conn[c].loop # BaseLoop
    <2>1. queue' = Push(q, BaseLoop, "removeConnectionInLoop", c) /\ connections' = connections
          /\ aborted' = aborted
      BY <1>4, CloseEffect
    <2>2. Pushed(q, queue', BaseLoop, "removeConnectionInLoop", c)
      BY <2>1, PushOwn, Names
    <2>4. OrderInv(queue, c)'
      BY <1>1, <1>2, <1>4, <2>1, <2>2, Names DEF OrderInv, Pushed
    <2> QED
      BY <2>1, <2>4
  <1> QED
    BY <1>3, <1>4

-----------------------------------------------------------------------------
(* A step of one connection.                                                  *)

Records == [state : States \cup {"absent", "destroyed"}, loop : Loops, fd : Nat, added : BOOLEAN,
            read : BOOLEAN, ups : Nat, downs : Nat]

(* The step keeps the other connections, and c keeps its descriptor until it  *)
(* is destroyed.                                                              *)
StepOf(c, q) ==
    /\ UNCHANGED <<poolVars, acceptorVars, nextConnId>>
    /\ conn' \in [Conns -> Records] /\ queue' \in Queues
    /\ connections' \subseteq Conns /\ peerClosed' \subseteq Conns /\ late' \subseteq Conns
    /\ call' \in [Conns -> Calls] /\ overwritten' \in BOOLEAN /\ aborted' \in BOOLEAN
    /\ \A d \in Conns \ {c} :
         /\ conn'[d] = conn[d] /\ call'[d] = call[d]
         /\ d \in connections' <=> d \in connections
         /\ d \in late' <=> d \in late
         /\ View(q, queue', d)
    /\ conn'[c].state \in States => Exists(c) /\ conn'[c].fd = conn[c].fd

LEMMA FdFrame ==
    ASSUME FdInv, NEW c \in Conns, NEW q, StepOf(c, q)
    PROVE  FdInv'
  <1>1. \A d \in Conns : Exists(d)' => Exists(d) /\ conn'[d].fd = conn[d].fd
    BY DEF StepOf, Exists
  <1> QED
    BY <1>1 DEF FdInv

LEMMA TypeFrame ==
    ASSUME TypeOK, NEW c, NEW q, StepOf(c, q)
    PROVE  TypeOK'
  <1>1. Pool!PoolTypeOK' /\ Acc!AcceptorTypeOK' /\ nextConnId' \in 1..(MaxConns + 1)
    BY DEF TypeOK, StepOf, poolVars, acceptorVars, Pool!PoolTypeOK, Acc!AcceptorTypeOK
  <1> QED
    BY <1>1 DEF TypeOK, StepOf, Records, Queues

LEMMA StepFrame ==
    ASSUME NEW q, InvWith(q), NEW c \in Conns, StepOf(c, q), LifeInv(queue, c)',
           ~overwritten' => ~overwritten /\ ~aborted' /\ OrderInv(queue, c)'
    PROVE  ServerInv'
  <1>1. TypeOK' /\ FdInv'
    BY FdFrame, TypeFrame DEF InvWith
  <1>2. PoolInv' /\ AcceptInv'
    BY DEF InvWith, StepOf, PoolInv, AcceptInv, poolVars, acceptorVars, Pool!Published
  <1>3. ASSUME NEW d \in Conns, d # c
        PROVE  /\ LifeInv(queue, d)'
               /\ OrderInv(q, d) => OrderInv(queue, d)'
    <2>1. Same(d) /\ View(q, queue', d)
      BY <1>3 DEF Same, StepOf, poolVars
    <2> QED
      BY <2>1, LifeFrame, OrderFrame DEF InvWith
  <1> QED
    BY <1>1, <1>2, <1>3 DEF InvWith, ServerInv

LEMMA ViewRefl == \A q, d : View(q, q, d)
  BY DEF View

LEMMA TakeDownType ==
    ASSUME NEW r \in Records
    PROVE  TakeDown(r) \in Records
  <1>1. r.downs + 1 \in Nat /\ "KDisconnected" \in States \cup {"absent", "destroyed"}
    BY DEF Records, States
  <1> QED
    BY <1>1 DEF TakeDown, Records

LEMMA RecordsType ==
    ASSUME TypeOK
    PROVE  /\ queue \in Queues /\ conn \in [Conns -> Records]
           /\ connections \subseteq Conns /\ peerClosed \subseteq Conns /\ late \subseteq Conns
           /\ call \in [Conns -> Calls] /\ overwritten \in BOOLEAN /\ aborted \in BOOLEAN
  BY DEF TypeOK, Queues, Records

LEMMA CloseStep ==
    ASSUME NEW q \in Queues, InvWith(q), NEW c \in Conns, HandleClose(c, q),
           UNCHANGED <<poolVars, acceptorVars, nextConnId, peerClosed, call, late, overwritten>>,
           overwritten \/ Up(c)
    PROVE  ServerInv'
  <1>1. TypeOK /\ conn[c] \in Records
    BY RecordsType DEF InvWith
  <1>2. CASE Up(c)
    <2>1. TakeDown(conn[c]) \in Records
      BY <1>1, TakeDownType
    <2>2. conn' \in [Conns -> Records] /\ queue' \in Queues /\ aborted' \in BOOLEAN
          /\ connections' \subseteq Conns
      BY <1>1, <1>2, <2>1, CloseEffect, RecordsType
    <2>3. ASSUME NEW d \in Conns, d # c
          PROVE  /\ conn'[d] = conn[d]
                 /\ d \in connections' <=> d \in connections
                 /\ View(q, queue', d)
      <3>1. conn'[d] = conn[d]
        BY <1>1, <1>2, <2>3, CloseEffect, RecordsType
      <3>2. d \in connections' <=> d \in connections
        BY <1>1, <1>2, <2>3, CloseEffect
      <3>3. View(q, queue', d)
        BY <1>1, <1>2, <2>3, CloseEffect, PushOthers, Names
      <3> QED
        BY <3>1, <3>2, <3>3
    <2>4. Exists(c) /\ conn'[c].fd = conn[c].fd
      BY <1>1, <1>2, CloseEffect DEF Up, Exists, States
    <2>5. StepOf(c, q)
      BY <1>1, <2>2, <2>3, <2>4, RecordsType DEF StepOf
    <2>6. UNCHANGED <<loops, nextConnId, call, late>>
      BY DEF poolVars
    <2>7. LifeInv(queue, c)'
      BY <1>1, <1>2, <2>6, CloseLife DEF InvWith
    <2>8. ~overwritten => OrderInv(queue, c)' /\ ~aborted'
      BY <1>1, <1>2, <2>6, CloseOrder DEF InvWith
    <2> QED
      BY <2>5, <2>7, <2>8, StepFrame
  <1>3. CASE ~Up(c)
    <2>1. queue' = q /\ UNCHANGED <<conn, connections>> /\ aborted' = TRUE
      BY <1>3 DEF HandleClose
    <2>2. StepOf(c, q)
      BY <1>1, <2>1, RecordsType, ViewRefl DEF StepOf, Exists
    <2>3. Same(c)
      BY <2>1 DEF Same, poolVars
    <2>4. LifeInv(queue, c)'
      BY <1>1, <2>1, <2>3, LifeFrame, ViewRefl DEF InvWith
    <2> QED
      BY <1>3, <2>2, <2>4, StepFrame
  <1> QED
    BY <1>2, <1>3

LEMMA HandleEventStep ==
    ASSUME ServerInv, NEW c \in Conns, HandleEvent(c)
    PROVE  ServerInv'
  <1>1. queue \in Queues
    BY TypeFacts DEF ServerInv, InvWith
  <1>2. HandleClose(c, queue)
        /\ UNCHANGED <<poolVars, acceptorVars, nextConnId, peerClosed, call, late, overwritten>>
    BY DEF HandleEvent
  <1>3. overwritten \/ Up(c)
    BY DEF HandleEvent, ServerInv, InvWith, OrderInv
  <1> QED
    BY <1>1, <1>2, <1>3, CloseStep DEF ServerInv

LEMMA SetState ==
    ASSUME TypeOK, NEW c \in Conns, NEW s \in States \cup {"absent", "destroyed"},
           conn' = [conn EXCEPT ![c].state = s]
    PROVE  /\ conn' \in [Conns -> Records]
           /\ \A d \in Conns \ {c} : conn'[d] = conn[d]
           /\ conn'[c].state = s /\ conn'[c].loop = conn[c].loop /\ conn'[c].fd = conn[c].fd
           /\ conn'[c].added = conn[c].added /\ conn'[c].read = conn[c].read
           /\ conn'[c].ups = conn[c].ups /\ conn'[c].downs = conn[c].downs
  <1>1. conn \in [Conns -> Records]
    BY RecordsType
  <1>2. [conn[c] EXCEPT !.state = s] \in Records /\ conn' = [conn EXCEPT ![c] = [conn[c] EXCEPT !.state = s]]
    BY <1>1 DEF Records
  <1> QED
    BY <1>1, <1>2 DEF Records

(* A step of a connection that exists, which its queue does not see.          *)
LEMMA LifeKept ==
    ASSUME TypeOK, NEW c \in Conns, LifeInv(queue, c), Exists(c), Exists(c)',
           conn[c].state # "KConnecting", conn'[c].state # "KConnecting",
           conn'[c].loop = conn[c].loop, conn'[c].added = conn[c].added,
           conn'[c].downs = conn[c].downs,
           UNCHANGED <<loops, connections, nextConnId, queue, late>>
    PROVE  LifeInv(queue, c)'
  <1>1. conn[c].state # "absent" /\ conn'[c].state # "absent" /\ \A f : Home(f, c)' = Home(f, c)
    BY DEF Exists, States, Home
  <1> QED
    BY <1>1, TypeFacts, Names DEF LifeInv

LEMMA ShutdownStep ==
    ASSUME ServerInv, NEW c \in Conns, Shutdown(c)
    PROVE  ServerInv'
  <1>1. TypeOK /\ LifeInv(queue, c) /\ (~overwritten => ~aborted /\ OrderInv(queue, c))
    BY DEF ServerInv, InvWith
  <1>2. UNCHANGED <<poolVars, acceptorVars, connections, nextConnId, queue, peerClosed, call, late,
                    overwritten, aborted>> /\ conn[c].state = "KConnected"
    BY DEF Shutdown
  <1>3. /\ conn' \in [Conns -> Records]
        /\ \A d \in Conns \ {c} : conn'[d] = conn[d]
        /\ conn'[c].state = "KDisconnecting" /\ conn'[c].loop = conn[c].loop
        /\ conn'[c].fd = conn[c].fd
        /\ conn'[c].added = conn[c].added /\ conn'[c].read = conn[c].read
        /\ conn'[c].ups = conn[c].ups /\ conn'[c].downs = conn[c].downs
    BY <1>1, SetState DEF Shutdown, States
  <1>4. StepOf(c, queue)
    BY <1>1, <1>2, <1>3, RecordsType, ViewRefl DEF StepOf, Exists, States
  <1>5. Exists(c) /\ Exists(c)' /\ Up(c) /\ Up(c)' /\ \A f : Home(f, c)' = Home(f, c)
    BY <1>2, <1>3 DEF Exists, Up, Home, States
  <1>6. LifeInv(queue, c)'
    BY <1>1, <1>2, <1>3, <1>5, LifeKept DEF poolVars
  <1>7. ~overwritten' => ~overwritten /\ ~aborted' /\ OrderInv(queue, c)'
    BY <1>1, <1>2, <1>3, <1>5, TypeFacts, Names DEF OrderInv
  <1> QED
    BY <1>4, <1>6, <1>7, StepFrame DEF ServerInv

LEMMA ForceCloseStep ==
    ASSUME ServerInv, NEW c \in Conns, ForceClose(c)
    PROVE  ServerInv'
  <1>1. TypeOK /\ LifeInv(queue, c) /\ (~overwritten => ~aborted /\ OrderInv(queue, c))
    BY DEF ServerInv, InvWith
  <1>2. /\ UNCHANGED <<poolVars, acceptorVars, connections, nextConnId, peerClosed, call, late,
                       overwritten, aborted>>
        /\ Up(c)
        /\ queue' = Push(queue, conn[c].loop, "forceCloseInLoop", c)
    BY DEF ForceClose
  <1>3. /\ conn' \in [Conns -> Records]
        /\ \A d \in Conns \ {c} : conn'[d] = conn[d]
        /\ conn'[c].state = "KDisconnecting" /\ conn'[c].loop = conn[c].loop
        /\ conn'[c].fd = conn[c].fd
        /\ conn'[c].added = conn[c].added /\ conn'[c].read = conn[c].read
        /\ conn'[c].ups = conn[c].ups /\ conn'[c].downs = conn[c].downs
    BY <1>1, SetState DEF ForceClose, States
  <1>4. conn[c].loop \in Loops /\ queue \in Queues
    BY <1>1, TypeFacts
  <1>5. Exists(c) /\ Exists(c)' /\ Up(c)' /\ \A f : Home(f, c)' = Home(f, c)
    BY <1>2, <1>3 DEF Exists, Up, Home, States
  <1>6. queue' \in Queues /\ \A d \in Conns \ {c} : View(queue, queue', d)
    BY <1>2, <1>4, PushView, PushOthers, Names
  <1>7. StepOf(c, queue)
    BY <1>1, <1>2, <1>3, <1>5, <1>6, RecordsType DEF StepOf
  <1>8. Pushed(queue, queue', conn[c].loop, "forceCloseInLoop", c)
    BY <1>2, <1>4, PushOwn, Names
  <1>9. LifeInv(queue, c)'
    BY <1>1, <1>2, <1>3, <1>4, <1>5, <1>8, Names DEF LifeInv, poolVars, Pushed, Up, Home
  <1>10. ~overwritten' => ~overwritten /\ ~aborted' /\ OrderInv(queue, c)'
    BY <1>1, <1>2, <1>3, <1>4, <1>5, <1>8, Names DEF OrderInv, Pushed
  <1> QED
    BY <1>7, <1>9, <1>10, StepFrame DEF ServerInv

LEMMA PeerClosesStep ==
    ASSUME ServerInv, NEW c \in Conns, PeerCloses(c)
    PROVE  ServerInv'
  <1>1. TypeOK /\ LifeInv(queue, c) /\ (~overwritten => ~aborted /\ OrderInv(queue, c))
    BY DEF ServerInv, InvWith
  <1>2. UNCHANGED <<poolVars, acceptorVars, connections, nextConnId, queue, conn, call, late,
                    overwritten, aborted>> /\ peerClosed' = peerClosed \cup {c}
    BY DEF PeerCloses
  <1>3. StepOf(c, queue)
    BY <1>1, <1>2, RecordsType, ViewRefl DEF StepOf, Exists
  <1>4. Same(c) /\ View(queue, queue', c)
    BY <1>2, ViewRefl DEF Same, poolVars
  <1> QED
    BY <1>1, <1>2, <1>3, <1>4, LifeFrame, OrderFrame, StepFrame DEF ServerInv

LEMMA CallTestsStep ==
    ASSUME ServerInv, NEW c \in Conns, NEW op \in Tested, CallTests(c, op)
    PROVE  ServerInv'
  <1>1. TypeOK /\ LifeInv(queue, c) /\ (~overwritten => ~aborted /\ OrderInv(queue, c))
    BY DEF ServerInv, InvWith
  <1>2. /\ UNCHANGED <<poolVars, acceptorVars, connections, nextConnId, queue, conn, peerClosed,
                       late, overwritten, aborted>>
        /\ call' = [call EXCEPT ![c] = op]
        /\ Up(c)
    BY DEF CallTests, Up
  <1>3. call \in [Conns -> Calls] /\ op \in Calls
    BY <1>1, RecordsType DEF Calls
  <1>4. StepOf(c, queue)
    BY <1>1, <1>2, <1>3, RecordsType, ViewRefl DEF StepOf, Exists
  <1>5. Exists(c) /\ Exists(c)' /\ Up(c)' /\ conn[c].state # "KConnecting"
        /\ \A f : Home(f, c)' = Home(f, c)
    BY <1>2 DEF Exists, Up, Home, States
  <1>6. LifeInv(queue, c)'
    BY <1>1, <1>2, <1>5, LifeKept DEF poolVars
  <1>7. ~overwritten' => ~overwritten /\ ~aborted' /\ OrderInv(queue, c)'
    BY <1>1, <1>2, <1>5, TypeFacts, Names DEF OrderInv
  <1> QED
    BY <1>4, <1>6, <1>7, StepFrame DEF ServerInv

LEMMA CallSetsStateStep ==
    ASSUME ServerInv, NEW c \in Conns, CallSetsState(c)
    PROVE  ServerInv'
  <1>1. TypeOK /\ LifeInv(queue, c) /\ (~overwritten => ~aborted /\ OrderInv(queue, c))
    BY DEF ServerInv, InvWith
  <1>2. /\ UNCHANGED <<poolVars, acceptorVars, connections, nextConnId, queue, peerClosed, late, aborted>>
        /\ call[c] \in {"shutdown", "forceClose"}
        /\ overwritten' = (overwritten \/ conn[c].state = "KDisconnected")
        /\ call' = [call EXCEPT ![c] = IF @ = "shutdown" THEN "shutdownQueues" ELSE "forceCloseQueues"]
    BY DEF CallSetsState
  <1>3. /\ conn' \in [Conns -> Records]
        /\ \A d \in Conns \ {c} : conn'[d] = conn[d]
        /\ conn'[c].state = "KDisconnecting" /\ conn'[c].loop = conn[c].loop
        /\ conn'[c].fd = conn[c].fd
        /\ conn'[c].added = conn[c].added /\ conn'[c].read = conn[c].read
        /\ conn'[c].ups = conn[c].ups /\ conn'[c].downs = conn[c].downs
    BY <1>1, SetState DEF CallSetsState, States
  <1>4. /\ call' \in [Conns -> Calls] /\ \A d \in Conns \ {c} : call'[d] = call[d]
        /\ overwritten' \in BOOLEAN
    BY <1>1, <1>2, RecordsType DEF Calls, Written
  <1>5. Exists(c) /\ Exists(c)' /\ Up(c)' /\ \A f : Home(f, c)' = Home(f, c)
        /\ conn[c].state # "KConnecting"
    BY <1>1, <1>2, <1>3 DEF LifeInv, Exists, Up, Home, States
  <1>6. StepOf(c, queue)
    BY <1>1, <1>2, <1>3, <1>4, <1>5, RecordsType, ViewRefl DEF StepOf
  <1>7. LifeInv(queue, c)'
    BY <1>1, <1>2, <1>3, <1>5, LifeKept DEF poolVars
  <1>8. ~overwritten' => ~overwritten /\ ~aborted' /\ OrderInv(queue, c)'
    <2> SUFFICES ASSUME ~overwritten' PROVE ~overwritten /\ ~aborted' /\ OrderInv(queue, c)'
      OBVIOUS
    <2>1. ~overwritten /\ conn[c].state # "KDisconnected"
      BY <1>2
    <2>2. Up(c)
      BY <1>5, <2>1 DEF Exists, States, Up
    <2> QED
      BY <1>1, <1>2, <1>3, <1>5, <2>1, <2>2, TypeFacts, Names DEF OrderInv
  <1> QED
    BY <1>6, <1>7, <1>8, StepFrame DEF ServerInv

LEMMA CallQueuesStep ==
    ASSUME ServerInv, NEW c \in Conns, CallQueues(c)
    PROVE  ServerInv'
  <1> DEFINE f == FunctorOf(call[c])
  <1>1. TypeOK /\ LifeInv(queue, c) /\ (~overwritten => ~aborted /\ OrderInv(queue, c))
    BY DEF ServerInv, InvWith
  <1>2. /\ UNCHANGED <<poolVars, acceptorVars, connections, nextConnId, conn, peerClosed,
                       overwritten, aborted>>
        /\ call[c] # "none"
        /\ queue' = Push(queue, conn[c].loop, f, c)
        /\ late' = IF conn[c].downs > 0 THEN late \cup {c} ELSE late
        /\ call' = [call EXCEPT ![c] = "none"]
    BY DEF CallQueues, Written
  <1>3. f \in RawFunctors \cup {"forceCloseInLoop"}
    BY DEF CallQueues, Written, FunctorOf, RawFunctors
  <1> HIDE DEF f
  <1>4. conn[c].loop \in Loops /\ queue \in Queues /\ f \in Functors /\ conn[c].downs \in Nat
    BY <1>1, <1>3, TypeFacts, Names DEF TypeOK
  <1>5. /\ Exists(c) /\ Exists(c)' /\ conn[c].state # "KConnecting"
        /\ \A g : Home(g, c)' = Home(g, c)
    BY <1>1, <1>2 DEF LifeInv, Exists, Home
  <1>6. queue' \in Queues /\ \A d \in Conns \ {c} : View(queue, queue', d)
    BY <1>2, <1>4, PushView, PushOthers
  <1>7. /\ call' \in [Conns -> Calls] /\ call'[c] = "none"
        /\ \A d \in Conns \ {c} : call'[d] = call[d] /\ (d \in late' <=> d \in late)
        /\ late' \subseteq Conns
    BY <1>1, <1>2, RecordsType DEF Calls
  <1>8. StepOf(c, queue)
    BY <1>1, <1>2, <1>5, <1>6, <1>7, RecordsType DEF StepOf
  <1>9. Pushed(queue, queue', conn[c].loop, f, c)
    BY <1>2, <1>4, PushOwn
  (* The connection is still in the map unless it has been reported down, and *)
  (* then the call is late.                                                   *)
  <1>10. c \notin late' => c \in connections /\ c \notin late
    BY <1>1, <1>2, <1>4, <1>5 DEF LifeInv
  <1>11. LifeInv(queue, c)'
    <2>1. conn[c].state # "absent" /\ UNCHANGED <<conn, loops, connections, nextConnId>>
      BY <1>2, <1>5 DEF Exists, States, poolVars
    <2>2. f \notin {"ConnectEstablished", "ConnectDestoryed", "removeConnectionInLoop"}
      BY <1>3 DEF RawFunctors
    <2> QED
      BY <1>1, <1>4, <1>5, <1>7, <1>9, <1>10, <2>1, <2>2, Names DEF LifeInv, Pushed, Home
  <1>12. ~overwritten' => ~overwritten /\ ~aborted' /\ OrderInv(queue, c)'
    BY <1>1, <1>2, <1>3, <1>4, <1>9, Names DEF OrderInv, Pushed, Up
  <1> QED
    BY <1>8, <1>11, <1>12, StepFrame DEF ServerInv

LEMMA QueuedIs ==
    ASSUME TypeOK, NEW c \in Conns, NEW f \in Functors
    PROVE  Queued(f, c) <=> \E l \in Loops : In(queue, l, <<f, c>>)
  BY DEF Queued, In, Contains

(* A connection is destroyed when no functor that refers to it is left; so    *)
(* its last functor has run, and no raw one is before it.                     *)
LEMMA DestructorStep ==
    ASSUME ServerInv, NEW c \in Conns, Destructor(c)
    PROVE  ServerInv'
  <1>1. TypeOK /\ LifeInv(queue, c) /\ (~overwritten => ~aborted /\ OrderInv(queue, c))
    BY DEF ServerInv, InvWith
  <1> DEFINE r == [conn[c] EXCEPT !.state = "destroyed", !.fd = Acc!NoFd]
  <1>2. /\ UNCHANGED <<poolVars, acceptorVars, connections, nextConnId, queue, peerClosed, call, late,
                       overwritten>>
        /\ Exists(c) /\ c \notin connections /\ call[c] = "none"
        /\ aborted' = (conn[c].state # "KDisconnected")
        /\ conn' = [conn EXCEPT ![c] = r]
    BY DEF Destructor
  <1>3. conn[c] \in Records /\ conn \in [Conns -> Records]
    BY <1>1, RecordsType
  <1>4. r \in Records
    BY <1>3 DEF Records, Acc!NoFd
  <1>5. conn' \in [Conns -> Records] /\ conn'[c] = r /\ \A d \in Conns \ {c} : conn'[d] = conn[d]
    BY <1>2, <1>3, <1>4
  <1>6. /\ conn'[c].state = "destroyed" /\ conn'[c].loop = conn[c].loop
        /\ conn'[c].added = conn[c].added /\ conn'[c].read = conn[c].read
        /\ conn'[c].ups = conn[c].ups /\ conn'[c].downs = conn[c].downs
    BY <1>3, <1>5 DEF Records
  <1>7. aborted' \in BOOLEAN
    BY <1>2
  <1>8. StepOf(c, queue)
    BY <1>1, <1>2, <1>5, <1>6, <1>7, RecordsType, ViewRefl DEF StepOf, States
  <1>9. \A l \in Loops, f \in Functors \ RawFunctors : ~In(queue, l, <<f, c>>)
    BY <1>1, QueuedIs DEF Destructor
  <1>10. conn[c].loop \in Loops
    BY <1>1, TypeFacts
  <1>11. ~conn[c].added
    BY <1>1, <1>2, <1>9, <1>10, Names DEF LifeInv
  <1>12. ASSUME c \notin late, NEW f \in RawFunctors PROVE ~In(queue, conn[c].loop, <<f, c>>)
    <2>1. In(queue, conn[c].loop, <<f, c>>) =>
            Before(queue, conn[c].loop, <<f, c>>, <<"ConnectDestoryed", c>>)
      BY <1>1, <1>2, <1>12 DEF LifeInv
    <2>2. In(queue, conn[c].loop, <<f, c>>)
            /\ Before(queue, conn[c].loop, <<f, c>>, <<"ConnectDestoryed", c>>)
            => In(queue, conn[c].loop, <<"ConnectDestoryed", c>>)
      BY DEF In, Before
    <2> QED
      BY <1>9, <1>10, <2>1, <2>2, Names
  <1>13. \A f : Home(f, c)' = Home(f, c)
    BY <1>6 DEF Home
  <1>14. ~Exists(c)' /\ ~Up(c)' /\ conn[c].state # "absent"
    BY <1>2, <1>6 DEF Exists, Up, States
  <1>15. LifeInv(queue, c)'
    <2>1. UNCHANGED <<loops, connections, nextConnId, queue, call, late>>
      BY <1>2 DEF poolVars
    <2> QED
      BY <1>1, <1>2, <1>6, <1>9, <1>10, <1>11, <1>12, <1>13, <1>14, <2>1, Names DEF LifeInv
  (* It is neither being established nor up: those are in the map.            *)
  <1>16. ~overwritten => conn[c].state = "KDisconnected"
    BY <1>1, <1>2 DEF LifeInv, OrderInv, Exists, States, Up
  <1>17. ~overwritten' => ~overwritten /\ ~aborted' /\ OrderInv(queue, c)'
    <2>1. ~overwritten => ~aborted'
      BY <1>2, <1>16
    <2>2. ~overwritten => OrderInv(queue, c)'
      BY <1>1, <1>2, <1>6, <1>9, <1>10, <1>11, <1>14, <1>16, Names DEF OrderInv
    <2> QED
      BY <1>2, <2>1, <2>2
  <1> QED
    BY <1>8, <1>15, <1>17, StepFrame DEF ServerInv

-----------------------------------------------------------------------------
(* A functor f of the connection c, taken from the queue of l.                *)

Runs(l, f, c) == queue[l] # << >> /\ Head(queue[l]) = <<f, c>>

LEMMA ViewTransitive ==
    ASSUME NEW q, NEW r, NEW s, NEW d, View(q, r, d), View(r, s, d)
    PROVE  View(q, s, d)
  BY DEF View

LEMMA RunsFacts ==
    ASSUME TypeOK, NEW l \in Loops, NEW f \in Functors, NEW c \in Conns, Runs(l, f, c)
    PROVE  /\ In(queue, l, <<f, c>>)
           /\ Pop(queue, l) \in Queues
           /\ \A d \in Conns \ {c} : View(queue, Pop(queue, l), d)
           /\ \A k \in Loops, g \in Functors :
                /\ In(Pop(queue, l), k, <<g, c>>) => In(queue, k, <<g, c>>)
                /\ g # f \/ k # l => (In(queue, k, <<g, c>>) => In(Pop(queue, l), k, <<g, c>>))
                /\ AtMostOnce(queue, k, <<g, c>>) => AtMostOnce(Pop(queue, l), k, <<g, c>>)
                /\ \A h \in Functors : Before(queue, k, <<g, c>>, <<h, c>>) =>
                                         Before(Pop(queue, l), k, <<g, c>>, <<h, c>>)
           /\ AtMostOnce(queue, l, <<f, c>>) => ~In(Pop(queue, l), l, <<f, c>>)
  <1>1. queue \in Queues /\ queue[l] # << >> /\ Head(queue[l]) = <<f, c>>
    BY TypeFacts DEF Runs
  <1>2. \A d \in Conns \ {c} : View(queue, Pop(queue, l), d)
    BY <1>1, PopOthers
  <1>3. In(queue, l, <<f, c>>) /\ Pop(queue, l) \in Queues
        /\ (AtMostOnce(queue, l, <<f, c>>) => ~In(Pop(queue, l), l, <<f, c>>))
    BY <1>1, PopView
  <1>4. ASSUME NEW k \in Loops, NEW g \in Functors
        PROVE  /\ In(Pop(queue, l), k, <<g, c>>) => In(queue, k, <<g, c>>)
               /\ g # f \/ k # l => (In(queue, k, <<g, c>>) => In(Pop(queue, l), k, <<g, c>>))
               /\ AtMostOnce(queue, k, <<g, c>>) => AtMostOnce(Pop(queue, l), k, <<g, c>>)
               /\ \A h \in Functors : Before(queue, k, <<g, c>>, <<h, c>>) =>
                                        Before(Pop(queue, l), k, <<g, c>>, <<h, c>>)
    <2>1. <<g, c>> \in Functors \X Conns /\ (<<g, c>> = <<f, c>> <=> g = f)
          /\ \A h \in Functors : <<h, c>> \in Functors \X Conns
      OBVIOUS
    <2> QED
      BY <1>1, <2>1, PopView
  <1> QED
    BY <1>2, <1>3, <1>4

(* Any functor but the two that the invariant waits for.                      *)
LEMMA PopInv ==
    ASSUME ServerInv, NEW l \in Loops, NEW f \in Functors, NEW c \in Conns, Runs(l, f, c),
           f \notin {"removeConnectionInLoop", "ConnectDestoryed"}
    PROVE  InvWith(Pop(queue, l)) /\ Pop(queue, l) \in Queues
  <1>1. TypeOK /\ queue[l] # << >> /\ Head(queue[l]) = <<f, c>>
    BY DEF ServerInv, InvWith, Runs
  <1>2. \A d : Head(queue[l]) # <<"removeConnectionInLoop", d>>
               /\ Head(queue[l]) # <<"ConnectDestoryed", d>>
    BY <1>1
  <1>3. \A d \in Conns : LifeInv(Pop(queue, l), d)
    BY <1>1, <1>2, PopLife DEF ServerInv, InvWith
  <1>4. ~overwritten => \A d \in Conns : OrderInv(Pop(queue, l), d)
    BY <1>1, <1>2, PopOrder DEF ServerInv, InvWith
  <1> QED
    BY <1>1, <1>3, <1>4, RunsFacts DEF ServerInv, InvWith

(* The functor changes nothing but the queue it was in.                       *)
LEMMA IdleStep ==
    ASSUME NEW q \in Queues, InvWith(q), queue' = q, NEW c \in Conns,
           UNCHANGED <<poolVars, acceptorVars, connections, nextConnId, conn, peerClosed, call, late,
                       overwritten, aborted>>
    PROVE  ServerInv'
  <1>1. TypeOK /\ LifeInv(q, c) /\ (~overwritten => ~aborted /\ OrderInv(q, c))
    BY DEF InvWith
  <1>2. StepOf(c, q)
    BY <1>1, RecordsType, ViewRefl DEF StepOf, Exists
  <1>3. Same(c) /\ View(q, queue', c)
    BY ViewRefl DEF Same, poolVars
  <1> QED
    BY <1>1, <1>2, <1>3, LifeFrame, OrderFrame, StepFrame

LEMMA ForceCloseInLoopStep ==
    ASSUME NEW q \in Queues, InvWith(q), NEW c \in Conns, ForceCloseInLoop(c, q),
           UNCHANGED <<poolVars, acceptorVars, nextConnId, peerClosed, call, late, overwritten>>
    PROVE  ServerInv'
  <1>1. CASE Up(c)
    BY <1>1, CloseStep DEF ForceCloseInLoop
  <1>2. CASE ~Up(c)
    <2>1. queue' = q /\ UNCHANGED <<conn, connections, aborted>>
      BY <1>2 DEF ForceCloseInLoop
    <2> QED
      BY <2>1, IdleStep
  <1> QED
    BY <1>1, <1>2

LEMMA EstablishedType ==
    ASSUME NEW r \in Records
    PROVE  ConnectEstablished(r) \in Records
  <1>1. r.ups + 1 \in Nat /\ "KConnected" \in States \cup {"absent", "destroyed"}
    BY DEF Records, States
  <1> QED
    BY <1>1 DEF ConnectEstablished, Records

(* A connection is established once, when its descriptor is its own.          *)
LEMMA EstablishStep ==
    ASSUME ServerInv, NEW l \in Loops, NEW c \in Conns, Runs(l, "ConnectEstablished", c),
           EstablishFunctor(c, Pop(queue, l)),
           UNCHANGED <<poolVars, acceptorVars, nextConnId, peerClosed, call, late, overwritten>>
    PROVE  ServerInv'
  <1> DEFINE q == Pop(queue, l)
  <1>1. TypeOK /\ FdInv /\ LifeInv(queue, c) /\ (~overwritten => ~aborted /\ OrderInv(queue, c))
        /\ \A d \in Conns : LifeInv(queue, d)
    BY DEF ServerInv, InvWith
  <1>2. InvWith(q) /\ q \in Queues
    BY PopInv, Names
  <1>3. /\ In(queue, l, <<"ConnectEstablished", c>>)
        /\ AtMostOnce(queue, l, <<"ConnectEstablished", c>>) =>
             ~In(q, l, <<"ConnectEstablished", c>>)
    BY <1>1, RunsFacts, Names
  <1> HIDE DEF q
  <1>4. LifeInv(q, c) /\ (~overwritten => OrderInv(q, c))
    BY <1>2 DEF InvWith
  <1>5. l = conn[c].loop
    BY <1>1, <1>3, Names DEF LifeInv, Home
  <1>6. conn[c].state = "KConnecting" /\ ~In(q, l, <<"ConnectEstablished", c>>)
    BY <1>1, <1>3, <1>5 DEF LifeInv
  <1>7. /\ queue' = q /\ connections' = connections
        /\ conn' = [conn EXCEPT ![c] = ConnectEstablished(conn[c])]
        /\ aborted' = (conn[c].state # "KConnecting" \/ ~FdIsNew(conn[c].loop, conn[c].fd))
    BY DEF EstablishFunctor, q
  <1>8. conn[c] \in Records /\ conn \in [Conns -> Records]
        /\ ConnectEstablished(conn[c]) \in Records
    BY <1>1, RecordsType, EstablishedType
  <1>9. /\ conn' \in [Conns -> Records] /\ conn'[c] = ConnectEstablished(conn[c])
        /\ \A d \in Conns \ {c} : conn'[d] = conn[d]
    BY <1>7, <1>8
  <1>10. /\ conn'[c].state = "KConnected" /\ conn'[c].added /\ conn'[c].read
         /\ conn'[c].ups = conn[c].ups + 1 /\ conn'[c].downs = conn[c].downs
         /\ conn'[c].loop = conn[c].loop /\ conn'[c].fd = conn[c].fd
    BY <1>8, <1>9 DEF ConnectEstablished, Records
  <1>11. Exists(c) /\ Exists(c)' /\ Up(c)' /\ \A f : Home(f, c)' = Home(f, c)
    BY <1>6, <1>10 DEF Exists, Up, States, Home
  <1>12. StepOf(c, q)
    BY <1>1, <1>2, <1>7, <1>9, <1>10, <1>11, RecordsType, ViewRefl DEF StepOf
  <1>13. /\ conn[c].ups = 0 /\ conn[c].downs = 0 /\ c \in connections
         /\ ~conn[c].added /\ conn[c].loop \in Loops /\ call[c] = "none"
    BY <1>1, <1>6, <1>11, TypeFacts DEF LifeInv
  <1>14. LifeInv(queue, c)'
    <2>1. UNCHANGED <<loops, nextConnId, call, late>>
      BY DEF poolVars
    <2> QED
      BY <1>4, <1>5, <1>6, <1>7, <1>10, <1>11, <1>13, <2>1, Names DEF LifeInv
  <1>15. OrderInv(q, c) => OrderInv(queue, c)'
    BY <1>6, <1>7, <1>10, <1>11, <1>13, Names DEF OrderInv
  <1>16. FdIsNew(conn[c].loop, conn[c].fd)
    <2>1. ASSUME NEW d \in Conns, conn[d].added, conn[d].fd = conn[c].fd PROVE FALSE
      <3>1. Exists(d)
        BY <1>1, <2>1 DEF LifeInv
      <3>2. d = c
        BY <1>1, <1>11, <2>1, <3>1 DEF FdInv
      <3> QED
        BY <1>13, <2>1, <3>2
    <2> QED
      BY <2>1 DEF FdIsNew, Registered
  <1>17. ~aborted'
    BY <1>6, <1>7, <1>16
  <1> QED
    BY <1>2, <1>4, <1>12, <1>14, <1>15, <1>17, StepFrame

LEMMA RemoveConnectionInLoopStep ==
    ASSUME ServerInv, NEW l \in Loops, NEW c \in Conns, Runs(l, "removeConnectionInLoop", c),
           RemoveConnectionInLoop(c, Pop(queue, l)), UNCHANGED conn,
           UNCHANGED <<poolVars, acceptorVars, nextConnId, peerClosed, call, late, overwritten>>
    PROVE  ServerInv'
  <1> DEFINE q == Pop(queue, l)
             f == "removeConnectionInLoop"
             g == "ConnectDestoryed"
             loop == conn[c].loop
  <1>1. TypeOK /\ LifeInv(queue, c) /\ (~overwritten => ~aborted /\ OrderInv(queue, c))
    BY DEF ServerInv, InvWith
  <1>2. /\ In(queue, l, <<f, c>>) /\ q \in Queues
        /\ \A d \in Conns \ {c} : View(queue, q, d)
        /\ AtMostOnce(queue, l, <<f, c>>) => ~In(q, l, <<f, c>>)
    BY <1>1, RunsFacts, Names
  <1>3. l = BaseLoop /\ Exists(c)
    BY <1>1, <1>2, Names DEF LifeInv, Home, RawFunctors
  <1>4. LifeInv(q, c)
    <2>1. queue[l] # << >> /\ Head(queue[l]) # <<g, c>>
      BY DEF Runs
    <2> QED
      BY <1>1, <2>1, PopLife
  <1>5. loop \in Loops /\ g \in Functors
    BY <1>1, TypeFacts, Names
  <1>6. /\ queue' = Push(q, loop, g, c) /\ connections' = connections \ {c}
        /\ aborted' = (c \notin connections)
    BY DEF RemoveConnectionInLoop
  <1>7. queue' \in Queues /\ Pushed(q, queue', loop, g, c)
        /\ \A d \in Conns \ {c} : View(q, queue', d)
    BY <1>2, <1>5, <1>6, PushView, PushOwn, PushOthers
  <1>8. \A d \in Conns \ {c} : View(queue, queue', d)
    BY <1>2, <1>7, ViewTransitive
  <1>9. \A k \in Loops, h \in Functors :
           /\ In(q, k, <<h, c>>) => In(queue, k, <<h, c>>)
           /\ AtMostOnce(queue, k, <<h, c>>) => AtMostOnce(q, k, <<h, c>>)
    <2>1. queue \in Queues /\ queue[l] # << >>
      BY <1>1, TypeFacts DEF Runs
    <2>2. ASSUME NEW k \in Loops, NEW h \in Functors
          PROVE  /\ In(q, k, <<h, c>>) => In(queue, k, <<h, c>>)
                 /\ AtMostOnce(queue, k, <<h, c>>) => AtMostOnce(q, k, <<h, c>>)
      <3>1. <<h, c>> \in Functors \X Conns
        OBVIOUS
      <3> QED
        BY <2>1, <3>1, PopView
    <2> QED
      BY <2>2
  <1> HIDE DEF q
  <1>10. StepOf(c, queue)
    BY <1>1, <1>3, <1>6, <1>7, <1>8, RecordsType DEF StepOf
  <1>11. UNCHANGED <<loops, nextConnId, call, late>> /\ (\A h : Home(h, c)' = Home(h, c))
         /\ (Exists(c)' <=> Exists(c)) /\ (Up(c)' <=> Up(c))
    BY DEF poolVars, Home, Exists, Up
  (* A removal is on its way only after the connection was reported down.     *)
  <1>12. conn[c].downs # 0 /\ conn[c].state # "KConnecting"
    BY <1>1, <1>2, <1>3 DEF LifeInv
  <1>13. LifeInv(queue, c)'
    <2>1. conn[c].state # "absent"
      BY <1>3 DEF Exists, States
    <2> QED
      BY <1>3, <1>4, <1>5, <1>6, <1>7, <1>11, <1>12, <2>1, Names DEF LifeInv, Pushed, Home
  <1>14. ~overwritten => ~aborted' /\ OrderInv(queue, c)'
    <2> SUFFICES ASSUME ~overwritten PROVE ~aborted' /\ OrderInv(queue, c)'
      OBVIOUS
    <2>1. /\ OrderInv(queue, c) /\ conn[c].state = "KDisconnected" /\ c \in connections
          /\ conn[c].added /\ ~In(q, BaseLoop, <<f, c>>)
          /\ ~In(queue, loop, <<g, c>>)
      BY <1>1, <1>2, <1>3 DEF OrderInv
    <2>2. ~In(q, loop, <<g, c>>) /\ ~In(queue', BaseLoop, <<f, c>>)
      BY <1>5, <1>7, <1>9, <2>1, Names DEF Pushed
    <2>3. OrderInv(queue, c)'
      BY <1>5, <1>6, <1>7, <1>9, <1>11, <2>1, <2>2, Names DEF OrderInv, Pushed, Up
    <2> QED
      BY <1>6, <2>1, <2>3
  <1> QED
    BY <1>10, <1>13, <1>14, StepFrame DEF ServerInv

(* The last functor: the channel leaves the poller.                           *)
LEMMA ConnectDestoryedStep ==
    ASSUME ServerInv, NEW l \in Loops, NEW c \in Conns, Runs(l, "ConnectDestoryed", c),
           ConnectDestoryed(c, Pop(queue, l)),
           UNCHANGED <<poolVars, acceptorVars, nextConnId, peerClosed, call, late, overwritten>>
    PROVE  ServerInv'
  <1> DEFINE q == Pop(queue, l)
             f == "ConnectDestoryed"
             r == IF DestroyReports(c) THEN TakeDown(conn[c]) ELSE conn[c]
  <1>1. TypeOK /\ LifeInv(queue, c) /\ (~overwritten => ~aborted /\ OrderInv(queue, c))
    BY DEF ServerInv, InvWith
  <1>2. /\ In(queue, l, <<f, c>>) /\ q \in Queues
        /\ \A d \in Conns \ {c} : View(queue, q, d)
        /\ AtMostOnce(queue, l, <<f, c>>) => ~In(q, l, <<f, c>>)
    BY <1>1, RunsFacts, Names
  <1>3. l = conn[c].loop /\ Exists(c)
    BY <1>1, <1>2, Names DEF LifeInv, Home, RawFunctors
  <1>4. conn[c].downs # 0 /\ conn[c].state # "KConnecting" /\ conn[c].downs \in Nat
    BY <1>1, <1>2, <1>3 DEF LifeInv, TypeOK
  <1>5. conn[c] \in Records /\ r \in Records
    BY <1>1, RecordsType, TakeDownType
  <1>6. /\ r.loop = conn[c].loop /\ r.fd = conn[c].fd /\ r.added = conn[c].added /\ r.downs # 0
        /\ r.state \in States /\ r.state # "KConnecting"
        /\ conn[c].state = "KDisconnected" => r = conn[c]
    BY <1>3, <1>4, <1>5 DEF DestroyReports, TakeDown, Records, Exists, States
  <1>7. queue' = q /\ connections' = connections
        /\ conn' = [conn EXCEPT ![c] = [r EXCEPT !.added = FALSE]]
        /\ aborted' = (r.read \/ ~r.added)
    BY DEF ConnectDestoryed
  <1> HIDE DEF r
  <1>8. [r EXCEPT !.added = FALSE] \in Records /\ conn \in [Conns -> Records]
    BY <1>1, <1>5, RecordsType DEF Records
  <1>9. /\ conn' \in [Conns -> Records] /\ conn'[c] = [r EXCEPT !.added = FALSE]
        /\ \A d \in Conns \ {c} : conn'[d] = conn[d]
    BY <1>7, <1>8
  <1>10. /\ conn'[c].state = r.state /\ conn'[c].loop = conn[c].loop /\ conn'[c].fd = conn[c].fd
         /\ ~conn'[c].added /\ conn'[c].read = r.read /\ conn'[c].downs # 0
         /\ conn'[c].ups = r.ups /\ conn'[c].downs = r.downs
    BY <1>5, <1>6, <1>9 DEF Records
  <1>11. aborted' \in BOOLEAN
    BY <1>5, <1>7 DEF Records
  <1>12. \A k \in Loops, h \in Functors :
           /\ In(q, k, <<h, c>>) => In(queue, k, <<h, c>>)
           /\ AtMostOnce(queue, k, <<h, c>>) => AtMostOnce(q, k, <<h, c>>)
           /\ \A g \in Functors :
                Before(queue, k, <<h, c>>, <<g, c>>) => Before(q, k, <<h, c>>, <<g, c>>)
    <2>1. queue \in Queues /\ queue[l] # << >>
      BY <1>1, TypeFacts DEF Runs
    <2>2. ASSUME NEW k \in Loops, NEW h \in Functors
          PROVE  /\ In(q, k, <<h, c>>) => In(queue, k, <<h, c>>)
                 /\ AtMostOnce(queue, k, <<h, c>>) => AtMostOnce(q, k, <<h, c>>)
                 /\ \A g \in Functors :
                      Before(queue, k, <<h, c>>, <<g, c>>) => Before(q, k, <<h, c>>, <<g, c>>)
      <3>1. <<h, c>> \in Functors \X Conns /\ \A g \in Functors : <<g, c>> \in Functors \X Conns
        OBVIOUS
      <3> QED
        BY <2>1, <3>1, PopView
    <2> QED
      BY <2>2
  <1> HIDE DEF q
  <1>13. Exists(c)' /\ (\A h : Home(h, c)' = Home(h, c)) /\ conn[c].loop \in Loops
    BY <1>1, <1>6, <1>10, TypeFacts DEF Exists, Home
  <1>14. \A d \in Conns \ {c} : View(queue, queue', d)
    BY <1>2, <1>7
  <1>15. StepOf(c, queue)
    BY <1>1, <1>2, <1>3, <1>7, <1>9, <1>10, <1>11, <1>14, RecordsType DEF StepOf
  <1>16. UNCHANGED <<loops, nextConnId, call, late>>
    BY DEF poolVars
  <1>17. LifeInv(queue, c)'
    <2>1. conn[c].state # "absent" /\ conn'[c].state # "absent" /\ conn'[c].state # "KConnecting"
      BY <1>3, <1>6, <1>10 DEF Exists, States
    <2> QED
      BY <1>1, <1>3, <1>4, <1>7, <1>10, <1>12, <1>13, <1>16, <2>1, Names DEF LifeInv, Home
  <1>18. ~overwritten => ~aborted' /\ OrderInv(queue, c)'
    <2> SUFFICES ASSUME ~overwritten PROVE ~aborted' /\ OrderInv(queue, c)'
      OBVIOUS
    <2>1. /\ OrderInv(queue, c) /\ conn[c].state = "KDisconnected" /\ c \notin connections
          /\ conn[c].added /\ ~In(q, conn[c].loop, <<f, c>>)
          /\ r = conn[c]
      BY <1>1, <1>2, <1>3, <1>6 DEF OrderInv
    <2>2. ~Up(c) /\ ~Up(c)'
      BY <1>6, <1>10, <2>1 DEF Up
    <2>3. ~conn[c].read
      BY <2>1, <2>2 DEF OrderInv
    <2>4. OrderInv(queue, c)'
      BY <1>7, <1>10, <1>12, <1>13, <2>1, <2>2, <2>3, Names DEF OrderInv
    <2> QED
      BY <1>7, <2>1, <2>3, <2>4
  <1> QED
    BY <1>15, <1>17, <1>18, StepFrame DEF ServerInv

LEMMA RunFunctorStep ==
    ASSUME ServerInv, NEW l \in Loops, RunFunctor(l)
    PROVE  ServerInv'
  <1> DEFINE f == Head(queue[l])[1]
             c == Head(queue[l])[2]
             q == Pop(queue, l)
  <1>1. queue \in Queues /\ queue[l] # << >>
    BY TypeFacts DEF RunFunctor, ServerInv, InvWith
  <1>2. Head(queue[l]) \in Functors \X Conns
    BY <1>1, PopView
  <1>3. f \in Functors /\ c \in Conns /\ Runs(l, f, c)
    BY <1>1, <1>2 DEF Runs
  <1>4. UNCHANGED <<poolVars, acceptorVars, nextConnId, peerClosed, call, late, overwritten>>
    BY DEF RunFunctor
  <1>5. CASE f = "ConnectEstablished"
    <2>1. EstablishFunctor(c, q)
      BY <1>5, Zenon DEF RunFunctor, Pop, RawFunctors
    <2> QED
      BY <1>3, <1>4, <1>5, <2>1, EstablishStep
  <1>6. CASE f = "forceCloseInLoop"
    <2>1. ForceCloseInLoop(c, q)
      BY <1>6, Zenon DEF RunFunctor, Pop, RawFunctors
    <2>2. InvWith(q) /\ q \in Queues
      BY <1>3, <1>6, PopInv
    <2> QED
      BY <1>3, <1>4, <2>1, <2>2, ForceCloseInLoopStep
  <1>7. CASE f = "ConnectDestoryed"
    <2>1. ConnectDestoryed(c, q)
      BY <1>7, Zenon DEF RunFunctor, Pop, RawFunctors
    <2> QED
      BY <1>3, <1>4, <1>7, <2>1, ConnectDestoryedStep
  <1>8. CASE f = "removeConnectionInLoop"
    <2>1. RemoveConnectionInLoop(c, q) /\ UNCHANGED conn
      BY <1>8, Zenon DEF RunFunctor, Pop, RawFunctors
    <2> QED
      BY <1>3, <1>4, <1>8, <2>1, RemoveConnectionInLoopStep
  <1>9. CASE f \in RawFunctors
    <2>1. queue' = q /\ UNCHANGED <<conn, connections, aborted>>
      BY <1>9, Zenon DEF RunFunctor, Pop, RawFunctors
    <2>2. InvWith(q) /\ q \in Queues
      BY <1>3, <1>9, PopInv, Names
    <2> QED
      BY <1>3, <1>4, <2>1, <2>2, IdleStep
  <1> QED
    BY <1>3, <1>5, <1>6, <1>7, <1>8, <1>9 DEF Functors

-----------------------------------------------------------------------------
(* A new connection, with the lowest free descriptor, in the next loop.       *)

LEMMA AbsentIsOnce ==
    ASSUME NEW q, NEW l, NEW x, ~In(q, l, x)
    PROVE  AtMostOnce(q, l, x)
  BY DEF In, AtMostOnce

LEMMA NextLoop ==
    ASSUME TypeOK, PoolInv
    PROVE  /\ Pool!GetNextLoop \in Loops
           /\ Pool!GetNextLoop = BaseLoop \/ \E i \in 1..Len(loops) : Pool!GetNextLoop = loops[i]
           /\ Pool!AdvanceNextLoop =>
                nextLoopIdx' \in Nat /\ (IF loops = << >> THEN nextLoopIdx' = 0 ELSE nextLoopIdx' < Len(loops))
  <1>1. loops \in Seq(IoLoops) /\ nextLoopIdx \in Nat
    BY DEF TypeOK, Pool!PoolTypeOK
  <1>2. CASE loops = << >>
    BY <1>2 DEF Pool!GetNextLoop, Pool!AdvanceNextLoop, Loops
  <1>3. CASE loops # << >>
    <2>1. Len(loops) \in Nat \ {0} /\ nextLoopIdx < Len(loops)
      BY <1>1, <1>3 DEF PoolInv
    <2>2. nextLoopIdx + 1 \in 1..Len(loops) /\ Pool!GetNextLoop = loops[nextLoopIdx + 1]
      BY <1>1, <1>3, <2>1 DEF Pool!GetNextLoop
    <2>3. loops[nextLoopIdx + 1] \in IoLoops
      BY <1>1, <2>2
    <2>4. \A m, n \in Nat : n # 0 => m % n \in Nat /\ m % n < n
      OBVIOUS
    <2>5. Pool!AdvanceNextLoop => nextLoopIdx' = (nextLoopIdx + 1) % Len(loops)
      BY <1>3 DEF Pool!AdvanceNextLoop
    <2>6. Pool!AdvanceNextLoop => nextLoopIdx' \in Nat /\ nextLoopIdx' < Len(loops)
      BY <1>1, <2>1, <2>4, <2>5
    <2> QED
      BY <1>3, <2>2, <2>3, <2>6 DEF Loops
  <1> QED
    BY <1>2, <1>3

New(io, fd) == [NoConn EXCEPT !.state = "KConnecting", !.loop = io, !.fd = fd]

LEMMA NewRecord ==
    ASSUME NEW io \in Loops, NEW fd \in Nat
    PROVE  LET new == New(io, fd)
               up == ConnectEstablished(new)
           IN
           /\ new \in Records /\ up \in Records
           /\ new.state = "KConnecting" /\ up.state = "KConnected"
           /\ new.loop = io /\ new.fd = fd /\ new.downs = 0 /\ new.ups = 0
           /\ ~new.added /\ ~new.read
           /\ up.loop = io /\ up.fd = fd /\ up.downs = 0 /\ up.ups = 1
           /\ up.added /\ up.read
  <1> DEFINE new == New(io, fd)
             up == ConnectEstablished(new)
  <1>1. NoConn \in Records
    BY DEF NoConn, Records, Acc!NoFd, Loops
  <1>2. new \in Records
    BY <1>1 DEF Records, States, New
  <1>3. /\ new.state = "KConnecting" /\ new.loop = io /\ new.fd = fd
        /\ new.downs = 0 /\ new.ups = 0 /\ ~new.added /\ ~new.read
    BY DEF NoConn, New
  <1> HIDE DEF new
  <1>4. up \in Records
    BY <1>2, EstablishedType
  <1>5. up.loop = io /\ up.fd = fd /\ up.downs = 0 /\ up.ups = 1 /\ up.added /\ up.read
        /\ up.state = "KConnected"
    BY <1>2, <1>3 DEF ConnectEstablished, Records
  <1> QED
    BY <1>2, <1>3, <1>4, <1>5 DEF new

(* What NewConnection does to its connection and to its loop's queue.         *)
LEMMA NewConnectionEffect ==
    ASSUME TypeOK, PoolInv, nextConnId \in Conns, LifeInv(queue, nextConnId),
           NEW fd \in Nat, NewConnection(fd)
    PROVE  LET c == nextConnId
               io == Pool!GetNextLoop
           IN  /\ conn' \in [Conns -> Records] /\ queue' \in Queues
               /\ \A d \in Conns \ {c} : conn'[d] = conn[d] /\ View(queue, queue', d)
               /\ conn'[c].loop = io /\ conn'[c].fd = fd /\ conn'[c].downs = 0
               /\ \/ /\ io = BaseLoop /\ queue' = queue
                     /\ conn'[c].state = "KConnected" /\ conn'[c].added /\ conn'[c].read
                     /\ conn'[c].ups = 1
                     /\ aborted' = ~FdIsNew(io, fd)
                  \/ /\ io # BaseLoop
                     /\ Pushed(queue, queue', io, "ConnectEstablished", c)
                     /\ conn'[c].state = "KConnecting" /\ ~conn'[c].added /\ ~conn'[c].read
                     /\ conn'[c].ups = 0
                     /\ aborted' = aborted
  <1> DEFINE c == nextConnId
             io == Pool!GetNextLoop
             new == New(io, fd)
  <1>1. conn \in [Conns -> Records] /\ queue \in Queues /\ io \in Loops
    BY RecordsType, NextLoop
  <1> DEFINE up == ConnectEstablished(new)
  <1>2. /\ new \in Records /\ up \in Records
        /\ new.state = "KConnecting" /\ up.state = "KConnected"
        /\ new.loop = io /\ new.fd = fd /\ new.downs = 0 /\ new.ups = 0
        /\ ~new.added /\ ~new.read
        /\ up.loop = io /\ up.fd = fd /\ up.downs = 0 /\ up.ups = 1
        /\ up.added /\ up.read
    BY <1>1, NewRecord
  <1>5. CASE io = BaseLoop
    <2>1. conn' = [conn EXCEPT ![c] = up] /\ queue' = queue
          /\ aborted' = ~FdIsNew(io, fd)
      BY <1>5, Zenon DEF NewConnection, New
    <2> HIDE DEF new, up, io
    <2>2. /\ conn' \in [Conns -> Records] /\ conn'[c] = up
          /\ \A d \in Conns \ {c} : conn'[d] = conn[d]
      BY <1>1, <1>2, <2>1
    <2>3. /\ conn'[c].state = "KConnected" /\ conn'[c].added /\ conn'[c].read
          /\ conn'[c].ups = 1 /\ conn'[c].loop = io /\ conn'[c].fd = fd /\ conn'[c].downs = 0
      BY <1>2, <2>2
    <2>4. queue' \in Queues /\ \A d \in Conns \ {c} : View(queue, queue', d)
      BY <1>1, <2>1, ViewRefl
    <2> QED
      BY <1>5, <2>1, <2>2, <2>3, <2>4 DEF io
  <1>6. CASE io # BaseLoop
    <2>1. conn' = [conn EXCEPT ![c] = new] /\ queue' = Push(queue, io, "ConnectEstablished", c)
          /\ aborted' = aborted
      BY <1>6, Zenon DEF NewConnection, New
    <2> HIDE DEF new, up, io
    <2>2. /\ conn' \in [Conns -> Records] /\ conn'[c] = new
          /\ \A d \in Conns \ {c} : conn'[d] = conn[d]
      BY <1>1, <1>2, <2>1
    <2>3. /\ conn'[c].state = "KConnecting" /\ ~conn'[c].added /\ ~conn'[c].read
          /\ conn'[c].ups = 0 /\ conn'[c].loop = io /\ conn'[c].fd = fd /\ conn'[c].downs = 0
      BY <1>2, <2>2
    <2>4. queue' \in Queues /\ \A d \in Conns \ {c} : View(queue, queue', d)
      BY <1>1, <2>1, Names, PushView, PushOthers
    <2>5. Pushed(queue, queue', io, "ConnectEstablished", c)
      BY <1>1, <2>1, Names, PushOwn
    <2> QED
      BY <1>6, <2>1, <2>2, <2>3, <2>4, <2>5 DEF io
  <1> QED
    BY <1>5, <1>6

LEMMA AcceptsStep ==
    ASSUME ServerInv, NEW c \in Conns, c = nextConnId, NEW io, io = Pool!GetNextLoop,
           NEW fd \in Nat \ OpenDescriptors, NewConnection(fd),
           backlog > 0, backlog' = backlog - 1, UNCHANGED <<isListening, acceptable, fdLimit>>
    PROVE  ServerInv'
  <1>1. TypeOK /\ PoolInv /\ AcceptInv /\ FdInv /\ (\A d \in Conns : LifeInv(queue, d))
        /\ (~overwritten => ~aborted /\ \A d \in Conns : OrderInv(queue, d))
    BY DEF ServerInv, InvWith
  <1>2. /\ fdLimit \in Nat /\ backlog \in Nat /\ nextConnId \in 1..(MaxConns + 1)
        /\ nextConnId + backlog <= MaxConns + 1 /\ MaxConns \in Nat
    BY <1>1, ServerAssumption DEF TypeOK, Acc!AcceptorTypeOK, AcceptInv
  <1>3. c \in Conns /\ nextConnId' = nextConnId + 1 /\ nextConnId + 1 \in 1..(MaxConns + 1)
    BY <1>2 DEF NewConnection, Conns
  <1>4. /\ connections' = connections \cup {c} /\ Pool!AdvanceNextLoop
        /\ UNCHANGED <<numThreads, loops, starter, thread, peerClosed, call, late, overwritten>>
    BY DEF NewConnection
  <1>5. LifeInv(queue, c) /\ conn[c].state = "absent" /\ call[c] = "none"
        /\ \A l \in Loops, f \in Functors : ~In(queue, l, <<f, c>>)
    <2>1. LifeInv(queue, c) /\ nextConnId <= c
      BY <1>1, <1>2, TypeFacts
    <2>2. conn[c].state = "absent"
      BY <2>1 DEF LifeInv
    <2> QED
      BY <1>1, <1>3, <2>1, <2>2 DEF LifeInv, Exists, States
  <1>6. /\ conn' \in [Conns -> Records] /\ queue' \in Queues
        /\ \A d \in Conns \ {c} : conn'[d] = conn[d] /\ View(queue, queue', d)
        /\ conn'[c].loop = io /\ conn'[c].fd = fd /\ conn'[c].downs = 0
        /\ \/ /\ io = BaseLoop /\ queue' = queue
              /\ conn'[c].state = "KConnected" /\ conn'[c].added /\ conn'[c].read
              /\ conn'[c].ups = 1
              /\ aborted' = ~FdIsNew(io, fd)
           \/ /\ io # BaseLoop
              /\ Pushed(queue, queue', io, "ConnectEstablished", c)
              /\ conn'[c].state = "KConnecting" /\ ~conn'[c].added /\ ~conn'[c].read
              /\ conn'[c].ups = 0
              /\ aborted' = aborted
    BY <1>1, <1>3, <1>5, NewConnectionEffect
  <1>7. io \in Loops /\ (io = BaseLoop \/ \E i \in 1..Len(loops) : io = loops[i])
        /\ nextLoopIdx' \in Nat /\ (IF loops = << >> THEN nextLoopIdx' = 0 ELSE nextLoopIdx' < Len(loops))
    BY <1>1, <1>4, NextLoop
  (* No descriptor in use is given out.                                     *)
  <1>8. \A d \in Conns : Exists(d) => conn[d].fd # fd
    BY DEF OpenDescriptors
  <1>9. FdIsNew(io, fd)
    BY <1>1, <1>8 DEF FdIsNew, Registered, LifeInv
  <1>10. aborted' \in BOOLEAN /\ (~aborted => ~aborted')
    <2>1. (~FdIsNew(io, fd)) = FALSE
      BY <1>9
    <2>2. aborted' = FALSE \/ aborted' = aborted
      BY <1>6, <2>1, Zenon
    <2>3. aborted \in BOOLEAN
      BY <1>1, RecordsType
    <2>4. CASE aborted' = FALSE
      BY <2>4
    <2>5. CASE aborted' = aborted
      BY <2>3, <2>5, Zenon
    <2> QED
      BY <2>2, <2>4, <2>5
  <1>11. FdInv'
    <2>1. \A d \in Conns \ {c} : (Exists(d)' <=> Exists(d)) /\ conn'[d].fd = conn[d].fd
      BY <1>6 DEF Exists
    <2> QED
      BY <1>1, <1>6, <1>8, <2>1 DEF FdInv
  <1>12. PoolInv'
    BY <1>1, <1>4, <1>7 DEF PoolInv, Pool!Published
  <1>13. AcceptInv'
    BY <1>2, <1>3 DEF AcceptInv
  <1>14. TypeOK'
    <2>1. Pool!PoolTypeOK'
      BY <1>1, <1>4, <1>7 DEF TypeOK, Pool!PoolTypeOK
    <2>2. Acc!AcceptorTypeOK'
      BY <1>1, <1>2 DEF TypeOK, Acc!AcceptorTypeOK
    <2>3. connections' \subseteq Conns /\ nextConnId' \in 1..(MaxConns + 1)
      BY <1>1, <1>3, <1>4 DEF TypeOK
    <2> QED
      BY <1>1, <1>4, <1>6, <1>10, <2>1, <2>2, <2>3 DEF TypeOK, Queues, Records
  <1>15. ASSUME NEW d \in Conns, d # c
         PROVE  /\ LifeInv(queue, d)'
                /\ OrderInv(queue, d) => OrderInv(queue, d)'
    <2>1. nextConnId' <= d <=> nextConnId <= d
      BY <1>1, <1>2, <1>3, <1>15, TypeFacts
    <2>2. Same(d) /\ View(queue, queue', d)
      BY <1>4, <1>6, <1>15, <2>1 DEF Same
    <2> QED
      BY <1>1, <2>2, LifeFrame, OrderFrame
  <1>16. c \in connections' /\ call'[c] = "none" /\ ~(nextConnId' <= c)
         /\ \A f : Home(f, c)' = IF f = "removeConnectionInLoop" THEN BaseLoop ELSE io
    BY <1>2, <1>3, <1>4, <1>5, <1>6 DEF Home
  <1>17. Exists(c)' /\ conn'[c].state # "absent"
    BY <1>6 DEF Exists, States
  <1>18. \A l \in Loops, f \in Functors :
           /\ In(queue, l, <<f, c>>)' => io # BaseLoop /\ l = io /\ f = "ConnectEstablished"
           /\ AtMostOnce(queue, l, <<f, c>>)'
    <2>1. ASSUME NEW l \in Loops, NEW f \in Functors
          PROVE  /\ In(queue', l, <<f, c>>) => io # BaseLoop /\ l = io /\ f = "ConnectEstablished"
                 /\ AtMostOnce(queue', l, <<f, c>>)
      <3>1. ~In(queue, l, <<f, c>>) /\ AtMostOnce(queue, l, <<f, c>>)
        BY <1>5, AbsentIsOnce
      <3>2. CASE queue' = queue
        BY <3>1, <3>2
      <3>3. CASE io # BaseLoop /\ Pushed(queue, queue', io, "ConnectEstablished", c)
        BY <3>1, <3>3 DEF Pushed
      <3> QED
        BY <1>6, <3>2, <3>3
    <2>2. \A l \in Loops, f \in Functors :
             /\ In(queue', l, <<f, c>>) => io # BaseLoop /\ l = io /\ f = "ConnectEstablished"
             /\ AtMostOnce(queue', l, <<f, c>>)
      BY <2>1
    <2> QED
      BY <2>2 DEF In, AtMostOnce
  <1>19. LifeInv(queue, c)'
    BY <1>4, <1>6, <1>7, <1>16, <1>17, <1>18, Names DEF LifeInv
  <1>20. OrderInv(queue, c)'
    BY <1>6, <1>7, <1>16, <1>18, Names DEF OrderInv, Up
  <1> QED
    BY <1>1, <1>4, <1>10, <1>11, <1>12, <1>13, <1>14, <1>15, <1>19, <1>20 DEF ServerInv, InvWith

LEMMA HandleAcceptStep ==
    ASSUME ServerInv, HandleAccept
    PROVE  ServerInv'
  <1> DEFINE fd == Acc!Accept(OpenDescriptors)
  <1>1. TypeOK /\ PoolInv /\ AcceptInv /\ FdInv /\ (\A d \in Conns : LifeInv(queue, d))
        /\ (~overwritten => ~aborted /\ \A d \in Conns : OrderInv(queue, d))
    BY DEF ServerInv, InvWith
  <1>2. /\ fdLimit \in Nat /\ backlog \in Nat /\ nextConnId \in 1..(MaxConns + 1)
        /\ nextConnId + backlog <= MaxConns + 1 /\ MaxConns \in Nat
    BY <1>1, ServerAssumption DEF TypeOK, Acc!AcceptorTypeOK, AcceptInv
  <1>3. CASE Acc!HandleReadFails(OpenDescriptors) /\ UNCHANGED <<poolVars, serverVars>>
    <2>1. UNCHANGED vars
      BY <1>3 DEF vars, acceptorVars, Acc!HandleReadFails
    <2>2. TypeOK' /\ PoolInv' /\ AcceptInv' /\ FdInv'
      BY <1>1, <2>1 DEF vars, poolVars, acceptorVars, serverVars, TypeOK, Pool!PoolTypeOK,
         Acc!AcceptorTypeOK, PoolInv, Pool!Published, AcceptInv, FdInv, Exists
    <2>3. \A d \in Conns : Same(d) /\ View(queue, queue', d)
      BY <2>1, ViewRefl DEF vars, poolVars, serverVars, Same
    <2>4. aborted' = aborted /\ overwritten' = overwritten
      BY <2>1 DEF vars, serverVars
    <2> QED
      BY <1>1, <2>2, <2>3, <2>4, LifeFrame, OrderFrame DEF ServerInv, InvWith
  <1>4. CASE Acc!HandleReadAccepts(OpenDescriptors) /\ NewConnection(fd)
    <2>1. /\ backlog > 0 /\ fd # Acc!NoFd /\ backlog' = backlog - 1
          /\ UNCHANGED <<isListening, acceptable, fdLimit>>
      BY <1>4 DEF Acc!HandleReadAccepts, Acc!Readable
    <2>2. nextConnId \in Conns
      BY <1>2, <2>1 DEF Conns
    <2>3. fd \in Nat \ OpenDescriptors
      BY <1>2, <2>1, AcceptsFree
    <2> HIDE DEF fd
    <2> QED
      BY <1>4, <2>1, <2>2, <2>3, AcceptsStep
  <1> QED
    BY <1>3, <1>4 DEF HandleAccept

-----------------------------------------------------------------------------
(* Steps that leave the connections alone.                                    *)

LEMMA QuietStep ==
    ASSUME ServerInv, UNCHANGED <<connections, nextConnId, queue, conn, call, late, overwritten, aborted>>,
           \A i \in 1..Len(loops) : i \in 1..Len(loops') /\ loops'[i] = loops[i],
           TypeOK', PoolInv', AcceptInv'
    PROVE  ServerInv'
  <1>1. TypeOK /\ FdInv /\ (\A d \in Conns : LifeInv(queue, d))
        /\ (~overwritten => ~aborted /\ \A d \in Conns : OrderInv(queue, d))
    BY DEF ServerInv, InvWith
  <1>2. FdInv'
    BY <1>1 DEF FdInv, Exists
  <1>3. \A d \in Conns : Same(d) /\ View(queue, queue', d)
    BY ViewRefl DEF Same
  <1> QED
    BY <1>1, <1>2, <1>3, LifeFrame, OrderFrame DEF ServerInv, InvWith

LEMMA PoolFacts ==
    ASSUME TypeOK, PoolInv
    PROVE  /\ numThreads \in Seq(IoLoops) /\ loops \in Seq(IoLoops)
           /\ Len(numThreads) \in Nat /\ Len(loops) \in Nat
           /\ \A i, j \in 1..Len(numThreads) : numThreads[i] = numThreads[j] => i = j
           /\ Len(loops) < Len(numThreads) => numThreads[Len(loops) + 1] \in IoLoops
           /\ thread \in [IoLoops -> Pool!Threads] /\ nextLoopIdx \in Nat
  <1>1. /\ numThreads \in Seq(IoLoops) /\ loops \in Seq(IoLoops)
        /\ thread \in [IoLoops -> Pool!Threads] /\ nextLoopIdx \in Nat
    BY DEF TypeOK, Pool!PoolTypeOK
  <1>2. \A i, j \in 1..Len(numThreads) : numThreads[i] = numThreads[j] => i = j
    BY <1>1, ServerAssumption DEF PoolInv, IsInjective
  <1>3. Len(loops) < Len(numThreads) => numThreads[Len(loops) + 1] \in IoLoops
    BY <1>1
  <1> QED
    BY <1>1, <1>2, <1>3

LEMMA StartPoolStep ==
    ASSUME ServerInv, StartPool
    PROVE  ServerInv'
  <1>1. TypeOK /\ PoolInv /\ AcceptInv
    BY DEF ServerInv, InvWith
  <1>2. /\ UNCHANGED <<acceptorVars, serverVars>>
        /\ UNCHANGED <<connections, nextConnId, queue, conn, call, late, overwritten, aborted>>
    BY DEF StartPool, serverVars
  <1>3. AcceptInv' /\ (Pool!PoolTypeOK' => TypeOK')
    BY <1>1, <1>2 DEF AcceptInv, acceptorVars, serverVars, TypeOK, Acc!AcceptorTypeOK
  <1> DEFINE l == numThreads[Len(loops) + 1]
  <1>4. CASE Pool!CreateThread
    <2>1. UNCHANGED <<numThreads, loops, nextLoopIdx>>
      BY <1>4 DEF Pool!CreateThread
    <2>2. CASE Len(loops) < Len(numThreads)
      <3>1. starter = "create" /\ starter' = "test" /\ thread' = [thread EXCEPT ![l] = "preparing"]
        BY <1>4, <2>2 DEF Pool!CreateThread
      <3>2. Pool!PoolTypeOK'
        BY <1>1, <2>1, <3>1, PoolFacts DEF TypeOK, Pool!PoolTypeOK, Pool!Threads, Pool!Starters
      <3>3. \A i \in 1..Len(loops) : loops[i] # l /\ loops[i] \in IoLoops
        BY <1>1, <2>2, PoolFacts DEF PoolInv
      <3>4. PoolInv'
        BY <1>1, <2>1, <2>2, <3>1, <3>3, PoolFacts DEF PoolInv, Pool!Published
      <3> QED
        BY <1>2, <1>3, <2>1, <3>2, <3>4, QuietStep
    <2>3. CASE ~(Len(loops) < Len(numThreads))
      <3>1. starter = "create" /\ starter' = "started" /\ thread' = thread
        BY <1>4, <2>3 DEF Pool!CreateThread
      <3>2. Pool!PoolTypeOK' /\ PoolInv'
        BY <1>1, <2>1, <3>1 DEF TypeOK, Pool!PoolTypeOK, Pool!Starters, PoolInv, Pool!Published
      <3> QED
        BY <1>2, <1>3, <2>1, <3>2, QuietStep
    <2> QED
      BY <2>2, <2>3
  <1>5. CASE Pool!StartLoop
    <2>1. UNCHANGED <<numThreads, nextLoopIdx, thread>> /\ starter = "test"
      BY <1>5 DEF Pool!StartLoop
    <2>2. Len(loops) < Len(numThreads)
      BY <1>1, <2>1 DEF PoolInv
    <2>3. CASE Pool!MayTake(l)
      <3>1. starter' = "create" /\ loops' = Append(loops, l)
        BY <1>5, <2>3 DEF Pool!StartLoop
      <3>2. /\ Len(loops') = Len(loops) + 1 /\ loops' \in Seq(IoLoops) /\ loops' # << >>
            /\ \A i \in 1..Len(loops) : loops'[i] = loops[i]
            /\ loops'[Len(loops) + 1] = l
        BY <1>1, <2>2, <3>1, PoolFacts
      <3>3. Pool!PoolTypeOK'
        BY <1>1, <2>1, <3>1, <3>2 DEF TypeOK, Pool!PoolTypeOK, Pool!Starters
      <3>4. \A i \in 1..Len(loops') : i \in 1..Len(loops) \/ i = Len(loops) + 1
        BY <1>1, <3>2, PoolFacts
      <3>5. Pool!Published(l) /\ \A k \in IoLoops : thread[k] # "preparing"
        BY <1>1, <2>1, <2>3 DEF Pool!MayTake, Pool!Published, PoolInv
      <3>6. nextLoopIdx < Len(loops')
        BY <1>1, <3>2, PoolFacts DEF PoolInv
      <3>7. PoolInv'
        BY <1>1, <2>1, <2>2, <3>1, <3>2, <3>4, <3>5, <3>6, PoolFacts DEF PoolInv, Pool!Published
      <3> QED
        BY <1>1, <1>2, <1>3, <3>2, <3>3, <3>7, PoolFacts, QuietStep
    <2>4. CASE ~Pool!MayTake(l)
      <3>1. starter' = "wait" /\ loops' = loops
        BY <1>5, <2>4 DEF Pool!StartLoop
      <3>2. Pool!PoolTypeOK' /\ PoolInv'
        BY <1>1, <2>1, <3>1 DEF TypeOK, Pool!PoolTypeOK, Pool!Starters, PoolInv, Pool!Published
      <3> QED
        BY <1>2, <1>3, <3>1, <3>2, QuietStep
    <2> QED
      BY <2>3, <2>4
  <1> QED
    BY <1>4, <1>5 DEF StartPool

LEMMA SpuriousWakeupStep ==
    ASSUME ServerInv, SpuriousWakeup
    PROVE  ServerInv'
  <1>1. TypeOK /\ PoolInv /\ AcceptInv
    BY DEF ServerInv, InvWith
  <1>2. /\ UNCHANGED <<acceptorVars, serverVars>>
        /\ UNCHANGED <<connections, nextConnId, queue, conn, call, late, overwritten, aborted>>
    BY DEF SpuriousWakeup, serverVars
  <1>3. AcceptInv' /\ (Pool!PoolTypeOK' => TypeOK')
    BY <1>1, <1>2 DEF AcceptInv, acceptorVars, serverVars, TypeOK, Acc!AcceptorTypeOK
  <1>4. Pool!PoolTypeOK' /\ PoolInv' /\ loops' = loops
    BY <1>1 DEF SpuriousWakeup, Pool!SpuriousWakeup, TypeOK, Pool!PoolTypeOK, Pool!Starters,
       PoolInv, Pool!Published
  <1> QED
    BY <1>2, <1>3, <1>4, QuietStep

LEMMA ThreadFuncStep ==
    ASSUME ServerInv, NEW l \in IoLoops, ThreadFunc(l)
    PROVE  ServerInv'
  <1>1. TypeOK /\ PoolInv /\ AcceptInv
    BY DEF ServerInv, InvWith
  <1>2. /\ UNCHANGED <<acceptorVars, serverVars>>
        /\ UNCHANGED <<connections, nextConnId, queue, conn, call, late, overwritten, aborted>>
    BY DEF ThreadFunc, serverVars
  <1>3. AcceptInv' /\ (Pool!PoolTypeOK' => TypeOK')
    BY <1>1, <1>2 DEF AcceptInv, acceptorVars, serverVars, TypeOK, Acc!AcceptorTypeOK
  <1>4. CASE Pool!Publish(l)
    <2>1. /\ UNCHANGED <<numThreads, loops, nextLoopIdx>> /\ thread[l] = "preparing"
          /\ thread' = [thread EXCEPT ![l] = "published"]
          /\ starter' = IF starter = "wait" THEN "test" ELSE starter
      BY <1>4 DEF Pool!Publish, Pool!Notified
    <2>2. Pool!PoolTypeOK'
      BY <1>1, <2>1 DEF TypeOK, Pool!PoolTypeOK, Pool!Threads, Pool!Starters
    <2>3. \A i \in 1..Len(loops) : loops[i] \in IoLoops
      BY <1>1, PoolFacts
    <2>4. PoolInv'
      BY <1>1, <2>1, <2>3, PoolFacts DEF PoolInv, Pool!Published
    <2> QED
      BY <1>2, <1>3, <2>1, <2>2, <2>4, QuietStep
  <1>5. CASE Pool!EnterLoop(l)
    <2>1. /\ UNCHANGED <<numThreads, loops, nextLoopIdx, starter>> /\ thread[l] = "published"
          /\ thread' = [thread EXCEPT ![l] = "looping"]
      BY <1>5 DEF Pool!EnterLoop
    <2>2. Pool!PoolTypeOK'
      BY <1>1, <2>1 DEF TypeOK, Pool!PoolTypeOK, Pool!Threads
    <2>3. \A i \in 1..Len(loops) : loops[i] \in IoLoops
      BY <1>1, PoolFacts
    <2>4. PoolInv'
      BY <1>1, <2>1, <2>3, PoolFacts DEF PoolInv, Pool!Published
    <2> QED
      BY <1>2, <1>3, <2>1, <2>2, <2>4, QuietStep
  <1> QED
    BY <1>4, <1>5 DEF ThreadFunc, Pool!ThreadFunc

LEMMA ListenArriveStep ==
    ASSUME ServerInv, Listen \/ Arrive
    PROVE  ServerInv'
  <1>1. TypeOK /\ PoolInv /\ AcceptInv
    BY DEF ServerInv, InvWith
  <1>2. UNCHANGED <<poolVars, serverVars>>
    BY DEF Listen, Arrive
  <1>3. backlog \in Nat /\ nextConnId \in Nat /\ MaxConns \in Nat
    BY <1>1, ServerAssumption DEF TypeOK, Acc!AcceptorTypeOK
  <1>4. Acc!AcceptorTypeOK'
    <2>1. Acc!AcceptorTypeOK
      BY <1>1 DEF TypeOK
    <2>2. CASE Listen
      BY <2>1, <2>2 DEF Listen, Acc!Listen, Acc!AcceptorTypeOK
    <2>3. CASE Arrive
      BY <2>1, <2>3 DEF Arrive, Acc!Arrive, Acc!AcceptorTypeOK
    <2> QED
      BY <2>2, <2>3
  <1>5. TypeOK' /\ PoolInv'
    BY <1>1, <1>2, <1>4 DEF poolVars, serverVars, TypeOK, Pool!PoolTypeOK, PoolInv, Pool!Published
  <1>6. AcceptInv'
    <2>1. nextConnId' = nextConnId
      BY <1>2 DEF serverVars
    <2>2. CASE Listen
      BY <1>1, <2>1, <2>2 DEF Listen, Acc!Listen, AcceptInv
    <2>3. CASE Arrive
      BY <1>3, <2>1, <2>3 DEF Arrive, Acc!Arrive, AcceptInv
    <2> QED
      BY <2>2, <2>3
  <1> QED
    BY <1>2, <1>5, <1>6, QuietStep DEF poolVars, serverVars

-----------------------------------------------------------------------------
(* The theorems                                                               *)

LEMMA InitServerInv == Init => ServerInv
  <1> SUFFICES ASSUME Init PROVE ServerInv
    OBVIOUS
  <1>1. numThreads \in ThreadPools /\ Pool!PoolInit /\ fdLimit \in FdLimits /\ Acc!AcceptorInit
    BY DEF Init
  <1>2. /\ connections = {} /\ nextConnId = 1 /\ queue = [l \in Loops |-> << >>]
        /\ conn = [c \in Conns |-> NoConn] /\ peerClosed = {} /\ late = {}
        /\ call = [c \in Conns |-> "none"] /\ overwritten = FALSE /\ aborted = FALSE
    BY DEF Init
  <1>3. numThreads \in Seq(IoLoops)
    BY <1>1, ServerAssumption DEF IoLoops
  <1>4. Pool!PoolTypeOK
    BY <1>1, <1>3 DEF Pool!PoolTypeOK, Pool!PoolInit, Pool!Starters, Pool!Threads
  <1>5. Acc!AcceptorTypeOK
    BY <1>1, ServerAssumption DEF Acc!AcceptorTypeOK, Acc!AcceptorInit
  <1>6. NoConn \in Records
    BY DEF NoConn, Records, Acc!NoFd, Loops
  <1>7. TypeOK
    <2>1. nextConnId \in 1..(MaxConns + 1)
      BY <1>2, ServerAssumption
    <2>2. queue \in [Loops -> Seq(Functors \X Conns)]
      BY <1>2
    <2>3. conn \in [Conns -> Records]
      BY <1>2, <1>6
    <2> QED
      BY <1>2, <1>4, <1>5, <2>1, <2>2, <2>3 DEF TypeOK, Records, Calls
  <1>8. PoolInv
    <2>1. loops = << >> /\ Len(loops) = 0 /\ Len(numThreads) \in Nat
      BY <1>1, <1>3 DEF Pool!PoolInit
    <2> QED
      BY <1>1, <2>1 DEF PoolInv, Pool!PoolInit
  <1>9. AcceptInv
    BY <1>1, <1>2, ServerAssumption DEF AcceptInv, Acc!AcceptorInit
  <1>10. \A c \in Conns : conn[c] = NoConn /\ conn[c].state = "absent" /\ conn[c].loop = BaseLoop
                          /\ ~conn[c].added /\ ~conn[c].read /\ call[c] = "none" /\ c \in Nat /\ 1 <= c
    BY <1>2 DEF NoConn, Conns
  <1>11. FdInv
    BY <1>10 DEF FdInv, Exists, States
  <1>12. \A c \in Conns, l \in Loops, f \in Functors :
           ~In(queue, l, <<f, c>>) /\ AtMostOnce(queue, l, <<f, c>>)
    BY <1>2 DEF In, AtMostOnce
  <1>13. ASSUME NEW c \in Conns PROVE LifeInv(queue, c)
    BY <1>2, <1>10, <1>12, Names DEF LifeInv, Exists, States
  <1>14. ASSUME NEW c \in Conns PROVE OrderInv(queue, c)
    BY <1>2, <1>10, <1>12, Names DEF OrderInv, Up
  <1> QED
    BY <1>2, <1>7, <1>8, <1>9, <1>11, <1>13, <1>14 DEF ServerInv, InvWith

LEMMA NextServerInv == ServerInv /\ [Next]_vars => ServerInv'
  <1> SUFFICES ASSUME ServerInv, [Next]_vars PROVE ServerInv'
    OBVIOUS
  <1>1. CASE StartPool
    BY <1>1, StartPoolStep
  <1>8. CASE SpuriousWakeup
    BY <1>8, SpuriousWakeupStep
  <1>2. CASE Listen \/ Arrive
    BY <1>2, ListenArriveStep
  <1>3. CASE HandleAccept
    BY <1>3, HandleAcceptStep
  <1>4. ASSUME NEW l \in IoLoops, ThreadFunc(l) PROVE ServerInv'
    BY <1>4, ThreadFuncStep
  <1>5. ASSUME NEW l \in Loops, RunFunctor(l) PROVE ServerInv'
    BY <1>5, RunFunctorStep
  <1>6. ASSUME NEW c \in Conns,
               \/ HandleEvent(c) \/ Shutdown(c) \/ ForceClose(c) \/ PeerCloses(c)
               \/ \E op \in Tested : CallTests(c, op)
               \/ Call(c) \/ Destructor(c)
        PROVE  ServerInv'
    BY <1>6, HandleEventStep, ShutdownStep, ForceCloseStep, PeerClosesStep, CallTestsStep,
       CallSetsStateStep, CallQueuesStep, DestructorStep DEF Call
  <1>7. CASE UNCHANGED vars
    <2>1. UNCHANGED <<connections, nextConnId, queue, conn, call, late, overwritten, aborted>>
          /\ loops' = loops
      BY <1>7 DEF vars, serverVars, poolVars
    <2>2. TypeOK' /\ PoolInv' /\ AcceptInv'
      BY <1>7 DEF ServerInv, InvWith, vars, poolVars, acceptorVars, serverVars, TypeOK,
         Pool!PoolTypeOK, Acc!AcceptorTypeOK, PoolInv, Pool!Published, AcceptInv
    <2> QED
      BY <2>1, <2>2, QuietStep
  <1> QED
    BY <1>1, <1>2, <1>3, <1>4, <1>5, <1>6, <1>7, <1>8 DEF Next

(* The inductive invariant, over every step of the base thread, of the loops  *)
(* and of the calling threads.                                                *)
THEOREM ServerInvariant == Spec => []ServerInv
  BY InitServerInv, NextServerInv, PTL DEF Spec

LEMMA ServerInvImplies == ServerInv => LoopsPublished /\ DescriptorInv /\ MapInv /\ CallbacksPaired
                                        /\ NoAssertFails /\ RawFunctorsSafe
  <1> SUFFICES ASSUME ServerInv
               PROVE  LoopsPublished /\ DescriptorInv /\ MapInv /\ CallbacksPaired
                      /\ NoAssertFails /\ RawFunctorsSafe
    OBVIOUS
  <1>1. TypeOK /\ PoolInv /\ FdInv /\ (\A c \in Conns : LifeInv(queue, c))
        /\ (~overwritten => ~aborted /\ \A c \in Conns : OrderInv(queue, c))
    BY DEF ServerInv, InvWith
  <1>2. ASSUME NEW c \in Conns, NEW f \in Functors, Queued(f, c)
        PROVE  In(queue, Home(f, c), <<f, c>>)
    <2>1. PICK l \in Loops : In(queue, l, <<f, c>>)
      BY <1>1, <1>2, QueuedIs
    <2>2. l = Home(f, c)
      BY <1>1, <2>1 DEF LifeInv
    <2> QED
      BY <2>1, <2>2
  <1>3. \A c \in Conns, f \in Functors : Home(f, c) \in Loops
    BY <1>1, TypeFacts, Names DEF Home
  <1>4. \A c \in Conns, f \in Functors : Queued(f, c) <=> In(queue, Home(f, c), <<f, c>>)
    <2>1. ASSUME NEW c \in Conns, NEW f \in Functors PROVE Queued(f, c) <=> In(queue, Home(f, c), <<f, c>>)
      <3> DEFINE h == Home(f, c)
      <3>1. h \in Loops
        BY <1>3
      <3> HIDE DEF h
      <3>2. In(queue, h, <<f, c>>) => Queued(f, c)
        BY <1>1, <3>1, QueuedIs
      <3> QED
        BY <1>2, <3>2 DEF h
    <2> QED
      BY <2>1
  <1>5. LoopsPublished
    <2>1. numThreads \in Seq(IoLoops) /\ loops \in Seq(IoLoops) /\ Len(loops) <= Len(numThreads)
          /\ \A i \in 1..Len(loops) : loops[i] = numThreads[i] /\ Pool!Published(loops[i])
      BY <1>1, PoolFacts DEF PoolInv
    <2>2. IsPrefix(loops, numThreads)
      <3>1. SubSeq(loops, 1, Len(loops)) = loops
        BY <2>1
      <3>2. SubSeq(numThreads, 1, Len(loops)) = loops
        BY <2>1
      <3> QED
        BY <2>1, <3>1, <3>2 DEF IsPrefix
    <2>3. ASSUME NEW l \in IoLoops, Contains(loops, l) PROVE Pool!Published(l)
      BY <2>1, <2>3 DEF Contains
    <2>4. ASSUME NEW l \in IoLoops, queue[l] # << >> PROVE Pool!Published(l)
      <3>1. l \in Loops /\ l # BaseLoop
        BY ServerAssumption DEF Loops, IoLoops
      <3>2. queue \in Queues
        BY <1>1, TypeFacts
      <3>3. Head(queue[l]) \in Functors \X Conns /\ In(queue, l, Head(queue[l]))
        BY <2>4, <3>1, <3>2, PopView
      <3>4. PICK f \in Functors, c \in Conns : In(queue, l, <<f, c>>)
        BY <3>3
      <3>5. l = conn[c].loop
        BY <1>1, <3>1, <3>4 DEF LifeInv, Home
      <3>6. PICK i \in 1..Len(loops) : l = loops[i]
        BY <1>1, <3>1, <3>5 DEF LifeInv
      <3> QED
        BY <2>1, <3>6
    <2>5. ASSUME NEW k \in IoLoops, NEW l \in IoLoops,
                 thread[k] = "preparing", thread[l] = "preparing"
          PROVE  k = l
      BY <1>1, <2>5 DEF PoolInv
    <2> QED
      BY <2>2, <2>3, <2>4, <2>5 DEF LoopsPublished
  <1>6. DescriptorInv
    BY <1>1 DEF DescriptorInv, FdInv, LifeInv, OpenDescriptors
  <1>7. MapInv
    <2>1. ASSUME ~overwritten, NEW c \in Conns
          PROVE  /\ c \in connections <=>
                      conn[c].state = "KConnecting" \/ Up(c) \/ Queued("removeConnectionInLoop", c)
                 /\ Queued("ConnectDestoryed", c) =>
                      conn[c].state = "KDisconnected" /\ c \notin connections
      <3>1. LifeInv(queue, c) /\ OrderInv(queue, c)
        BY <1>1, <2>1
      <3>2. Queued("removeConnectionInLoop", c) <=> In(queue, BaseLoop, <<"removeConnectionInLoop", c>>)
        BY <1>4, Names DEF Home
      <3>3. Queued("ConnectDestoryed", c) <=> In(queue, conn[c].loop, <<"ConnectDestoryed", c>>)
        BY <1>4, Names DEF Home
      <3>4. conn[c].state = "KConnecting" \/ Up(c) => c \in connections
        BY <3>1 DEF LifeInv, OrderInv, Exists, States, Up
      <3> QED
        BY <3>1, <3>2, <3>3, <3>4 DEF OrderInv
    <2> QED
      BY <1>1, <2>1 DEF MapInv
  <1>8. CallbacksPaired
    <2>1. ASSUME ~overwritten, NEW c \in Conns
          PROVE  /\ conn[c].downs <= conn[c].ups /\ conn[c].ups <= 1
                 /\ Up(c) => conn[c].ups = 1 /\ conn[c].downs = 0
                 /\ conn[c].state = "destroyed" => conn[c].downs = 1
      <3>1. LifeInv(queue, c) /\ OrderInv(queue, c)
        BY <1>1, <2>1
      <3>2. conn[c].state \in States \cup {"absent", "destroyed"}
        BY <1>1 DEF TypeOK
      <3>3. CASE conn[c].state = "absent"
        <4>1. conn[c].ups = 0 /\ conn[c].downs = 0
          BY <3>1, <3>3 DEF LifeInv, NoConn
        <4> QED
          BY <3>3, <4>1 DEF Up
      <3>4. CASE conn[c].state = "KConnecting"
        <4>1. conn[c].ups = 0 /\ conn[c].downs = 0
          BY <3>1, <3>4 DEF LifeInv
        <4> QED
          BY <3>4, <4>1 DEF Up
      <3>5. CASE Up(c)
        BY <3>1, <3>5 DEF OrderInv, Up
      <3>6. CASE conn[c].state \in {"KDisconnected", "destroyed"}
        BY <3>1, <3>6 DEF OrderInv, Up
      <3> QED
        BY <3>2, <3>3, <3>4, <3>5, <3>6 DEF States, Up
    <2> QED
      BY <2>1 DEF CallbacksPaired
  <1>9. NoAssertFails
    BY <1>1 DEF NoAssertFails
  <1>10. RawFunctorsSafe
    <2>1. ASSUME NEW c \in Conns, NEW f \in RawFunctors, Queued(f, c) PROVE Exists(c) \/ c \in late
      <3>1. In(queue, conn[c].loop, <<f, c>>)
        BY <1>4, <2>1, Names DEF Home
      <3> QED
        BY <1>1, <3>1 DEF LifeInv
    <2> QED
      BY <2>1 DEF RawFunctorsSafe
  <1> QED
    BY <1>5, <1>6, <1>7, <1>8, <1>9, <1>10

(* start() never takes a loop that its thread has not published.              *)
THEOREM LoopsArePublished == Spec => []LoopsPublished
  BY ServerInvariant, ServerInvImplies, PTL

(* A registered channel's descriptor is open and its own, whatever descriptors *)
(* the kernel gives out again.                                                *)
THEOREM DescriptorsAreOwn == Spec => []DescriptorInv
  BY ServerInvariant, ServerInvImplies, PTL

(* connections_ agrees with the states and the functors on their way.         *)
THEOREM MapAgrees == Spec => []MapInv
  BY ServerInvariant, ServerInvImplies, PTL

(* The connection callback comes in pairs, whatever threads close.            *)
THEOREM CallbacksArePaired == Spec => []CallbacksPaired
  BY ServerInvariant, ServerInvImplies, PTL

(* The asserts of connectEstablished, handleClose, removeConnectionInLoop,    *)
(* the poller and ~TcpConnection hold, until a call overwrites KDisconnected. *)
THEOREM ServerAssertsHold == Spec => []NoAssertFails
  BY ServerInvariant, ServerInvImplies, PTL

(* sendInLoop and shutdownInLoop, bound to this, find the connection alive.   *)
THEOREM RawFunctorsFindTheirConnection == Spec => []RawFunctorsSafe
  BY ServerInvariant, ServerInvImplies, PTL
=============================================================================
