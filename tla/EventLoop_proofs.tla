--------------------------- MODULE EventLoop_proofs ---------------------------
(* Theorems of EventLoop for any functors, threads, channels and bounds.      *)
EXTENDS EventLoop, SequenceTheorems, TLAPS

USE DEF AllThreads, UserCode

(* queueInLoop pushes at the tail, so what was queued stays where it was.     *)
LEMMA PushConcat ==
    ASSUME NEW S, NEW s \in Seq(S), NEW t \in Seq(S), NEW x \in S
    PROVE  s \o Append(t, x) = Append(s \o t, x)
  BY SMT

(* Taking the first functor of the batch takes it from the whole queue.       *)
LEMMA PopConcat ==
    ASSUME NEW S, NEW s \in Seq(S), NEW t \in Seq(S), s # << >>
    PROVE  /\ s \o t # << >>
           /\ Head(s \o t) = Head(s)
           /\ Tail(s \o t) = Tail(s) \o t
  BY SMT

(* A call nested in a functor, or its return, leaves the outermost functor.   *)
LEMMA OutermostFunctor ==
    ASSUME NEW S, NEW s \in Seq(S), NEW x \in S, s # << >>
    PROVE  /\ Head(Append(s, x)) = Head(s)
           /\ Append(s, x) # << >>
           /\ Len(s) > 1 => /\ SubSeq(s, 1, Len(s) - 1) # << >>
                            /\ Head(SubSeq(s, 1, Len(s) - 1)) = Head(s)
  <1>1. Head(Append(s, x)) = Head(s) /\ Append(s, x) # << >>
    OBVIOUS
  <1>2. ASSUME Len(s) > 1
        PROVE  /\ SubSeq(s, 1, Len(s) - 1) # << >>
               /\ Head(SubSeq(s, 1, Len(s) - 1)) = Head(s)
    <2>1. 1 \in 1..Len(s) /\ Len(s) - 1 \in 1..Len(s) /\ Head(s) = s[1]
      BY <1>2
    <2>2. Head(SubSeq(s, 1, Len(s) - 1)) = s[1]
      BY <2>1, HeadTailOfSubSeq
    <2>3. Len(SubSeq(s, 1, Len(s) - 1)) = Len(s) - 1
      BY <1>2, <2>1, SubSeqProperties, ElementOfSeq
    <2>4. SubSeq(s, 1, Len(s) - 1) # << >>
      BY <1>2, <2>3
    <2> QED
      BY <2>1, <2>2, <2>4
  <1> QED
    BY <1>1, <1>2

-----------------------------------------------------------------------------
LEMMA LoopTyping == TypeOK /\ [Next]_vars => TypeOK'
  <1> SUFFICES ASSUME TypeOK, [Next]_vars PROVE TypeOK'
    OBVIOUS
  <1>1. ASSUME NEW t \in AllThreads, NEW f \in Tasks, QueueInLoop(t, f) PROVE TypeOK'
    BY <1>1 DEF TypeOK, QueueInLoop
  <1>2. ASSUME NEW t \in AllThreads, WakeupToHandlePendingFunctors(t) PROVE TypeOK'
    BY <1>2 DEF TypeOK, WakeupToHandlePendingFunctors
  <1>3. ASSUME NEW f \in Tasks, RunInLoop(f) PROVE TypeOK'
    BY <1>3 DEF TypeOK, RunInLoop
  <1>4. CASE NestedReturn
    BY <1>4 DEF TypeOK, NestedReturn
  <1>5. CASE EnterLoop
    BY <1>5 DEF TypeOK, EnterLoop
  <1>6. CASE PollWakeup \/ PollEvents \/ PollTimeout
    BY <1>6 DEF TypeOK, PollWakeup, PollEvents, PollTimeout, PollReturns
  <1>7. CASE HandleWakeupChannelRead
    BY <1>7 DEF TypeOK, HandleWakeupChannelRead
  <1>8. ASSUME NEW c \in Channels, HandleEvent(c) PROVE TypeOK'
    BY <1>8 DEF TypeOK, HandleEvent
  <1>9. CASE HandlerReturns
    BY <1>9 DEF TypeOK, HandlerReturns
  <1>10. CASE HandlePendingFunctors
    BY <1>10 DEF TypeOK, HandlePendingFunctors
  <1>11. CASE SwapFunctors
    BY <1>11 DEF TypeOK, SwapFunctors
  <1>12. CASE RunFunctor
    BY <1>12 DEF TypeOK, RunFunctor
  <1>13. CASE FunctorReturns
    BY <1>13 DEF TypeOK, FunctorReturns
  <1>14. CASE EndOfFunctors
    BY <1>14 DEF TypeOK, EndOfFunctors
  <1>15. CASE UNCHANGED vars
    BY <1>15 DEF TypeOK, vars
  <1> QED
    BY <1>1, <1>2, <1>3, <1>4, <1>5, <1>6, <1>7, <1>8, <1>9, <1>10, <1>11, <1>12,
       <1>13, <1>14, <1>15 DEF Next

(* The steps of a caller keep the invariant: whoever pushes a functor while   *)
(* the loop may be about to sleep is also about to write the eventfd.         *)
LEMMA CallersKeepLoopInv ==
    ASSUME LoopInv,
           \/ \E t \in AllThreads, f \in Tasks : QueueInLoop(t, f)
           \/ \E t \in AllThreads : WakeupToHandlePendingFunctors(t)
           \/ \E f \in Tasks : RunInLoop(f)
           \/ NestedReturn
    PROVE  LoopInv'
  <1> USE DEF LoopInv
  <1>0. TypeOK'
    BY LoopTyping DEF Next
  <1>1. ASSUME NEW t \in AllThreads, NEW f \in Tasks, QueueInLoop(t, f) PROVE LoopInv'
    <2>1. WakeupInv'
      <3>1. CASE t \in Threads
        <4>1. NeedsWakeup(t)' /\ t \in pushed'
          BY <1>1, <3>1, LoopAssumption DEF QueueInLoop, NeedsWakeup
        <4> QED
          BY <4>1 DEF WakeupInv, WakeupUnderWay
      <3>2. CASE t = LoopThread /\ pc = "starting"
        <4>1. Len(pendingFunctors') = Len(pendingFunctors) + 1 /\ early' = early + 1
          BY <1>1, <3>2 DEF QueueInLoop, TypeOK
        <4>2. WakeupUnderWay => WakeupUnderWay'
          BY <1>1 DEF QueueInLoop, WakeupUnderWay, NeedsWakeup
        <4> QED
          BY <1>1, <3>2, <4>1, <4>2 DEF WakeupInv, TypeOK, QueueInLoop
      <3>3. CASE t = LoopThread /\ pc = "handler"
        BY <1>1, <3>3 DEF QueueInLoop, WakeupInv
      <3>4. CASE t = LoopThread /\ pc = "functor"
        <4>1. NeedsWakeup(t)' /\ t \in pushed'
          BY <1>1, <3>4 DEF QueueInLoop, NeedsWakeup, FlagInv
        <4> QED
          BY <4>1 DEF WakeupInv, WakeupUnderWay
      <3> QED
        BY <1>1, <3>1, <3>2, <3>3, <3>4 DEF QueueInLoop, CanCall
    <2> QED
      BY <1>0, <1>1, <2>1 DEF QueueInLoop, CanCall, FlagInv, StackInv, BatchInv, CallerInv, ActiveInv
  <1>2. ASSUME NEW t \in AllThreads, WakeupToHandlePendingFunctors(t) PROVE LoopInv'
    <2>1. WakeupUnderWay => WakeupUnderWay'
      BY <1>2 DEF WakeupUnderWay, WakeupToHandlePendingFunctors, NeedsWakeup, TypeOK
    <2> QED
      BY <1>0, <1>2, <2>1 DEF WakeupToHandlePendingFunctors, WakeupInv, FlagInv, StackInv,
         BatchInv, CallerInv, ActiveInv
  <1>3. ASSUME NEW f \in Tasks, RunInLoop(f) PROVE LoopInv'
    BY <1>0, <1>3, OutermostFunctor DEF TypeOK, RunInLoop, CanCall, FlagInv, StackInv, BatchInv,
       CallerInv, ActiveInv, WakeupInv, WakeupUnderWay, NeedsWakeup
  <1>4. ASSUME NestedReturn PROVE LoopInv'
    <2>1. StackInv'
      BY <1>4, OutermostFunctor DEF TypeOK, NestedReturn, StackInv
    <2> QED
      BY <1>0, <1>4, <2>1 DEF NestedReturn, FlagInv, BatchInv, CallerInv, ActiveInv, WakeupInv,
         WakeupUnderWay, NeedsWakeup
  <1> QED
    BY <1>1, <1>2, <1>3, <1>4

(* The steps of loop() keep it: the eventfd is read only between the poll and *)
(* the swap that empties the queue, and the flag drops only in the loop       *)
(* thread, when it is not itself inside queueInLoop.                          *)
LEMMA LoopKeepsLoopInv ==
    ASSUME LoopInv,
           \/ EnterLoop \/ PollWakeup \/ PollEvents \/ PollTimeout
           \/ HandleWakeupChannelRead
           \/ \E c \in Channels : HandleEvent(c)
           \/ HandlerReturns
           \/ HandlePendingFunctors \/ SwapFunctors \/ RunFunctor
           \/ FunctorReturns \/ EndOfFunctors
    PROVE  LoopInv'
  <1> USE DEF LoopInv, FlagInv, StackInv, BatchInv, CallerInv, ActiveInv, WakeupInv,
              WakeupUnderWay, NeedsWakeup
  <1>0. TypeOK'
    BY LoopTyping DEF Next
  <1>1. CASE EnterLoop
    BY <1>0, <1>1 DEF EnterLoop, LoopThreadFree
  <1>2. CASE PollWakeup \/ PollEvents \/ PollTimeout
    BY <1>0, <1>2 DEF PollWakeup, PollEvents, PollTimeout, PollReturns
  <1>3. CASE HandleWakeupChannelRead
    BY <1>0, <1>3 DEF HandleWakeupChannelRead
  <1>4. ASSUME NEW c \in Channels, HandleEvent(c) PROVE LoopInv'
    BY <1>0, <1>4 DEF HandleEvent
  <1>5. CASE HandlerReturns
    BY <1>0, <1>5 DEF HandlerReturns, LoopThreadFree
  <1>6. CASE HandlePendingFunctors
    BY <1>0, <1>6 DEF HandlePendingFunctors
  <1>7. CASE SwapFunctors
    BY <1>0, <1>7 DEF SwapFunctors, TypeOK
  <1>8. CASE RunFunctor
    BY <1>0, <1>8 DEF RunFunctor
  <1>9. CASE FunctorReturns
    BY <1>0, <1>9 DEF FunctorReturns, LoopThreadFree
  <1>10. CASE EndOfFunctors
    BY <1>0, <1>10 DEF EndOfFunctors
  <1> QED
    BY <1>1, <1>2, <1>3, <1>4, <1>5, <1>6, <1>7, <1>8, <1>9, <1>10

(* Type correctness, the flag, the batch and the pending wakeup, in every     *)
(* reachable state.                                                           *)
THEOREM LoopInvariant == Spec => []LoopInv
  <1>1. Init => LoopInv
    <2> SUFFICES ASSUME Init PROVE LoopInv
      OBVIOUS
    <2>1. TypeOK
      <3>1. /\ pendingFunctors \in Seq(Tasks)
            /\ functors \in Seq(Tasks)
            /\ stack \in Seq(Tasks)
        BY EmptySeq DEF Init
      <3>2. wakeupFd \in 0..1 /\ early \in Nat
        BY DEF Init
      <3>3. isCallingPendingFunctors \in BOOLEAN
        BY DEF Init
      <3>4. /\ activeChanels \in SUBSET (Channels \cup {WakeupChannel})
            /\ pushed \in SUBSET AllThreads
            /\ pc \in UserCode
        BY DEF Init
      <3> QED
        BY <3>1, <3>2, <3>3, <3>4 DEF TypeOK
    <2>2. WakeupInv
      <3>1. Len(pendingFunctors) = 0 /\ early = 0
        BY DEF Init
      <3> QED
        BY <3>1 DEF WakeupInv
    <2> QED
      BY <2>1, <2>2 DEF Init, LoopInv, FlagInv, StackInv, BatchInv, CallerInv, ActiveInv
  <1>2. LoopInv /\ [Next]_vars => LoopInv'
    <2>1. ASSUME LoopInv, UNCHANGED vars PROVE LoopInv'
      BY <2>1 DEF vars, LoopInv, TypeOK, FlagInv, StackInv, BatchInv, CallerInv, ActiveInv,
         WakeupInv, WakeupUnderWay, NeedsWakeup
    <2> QED
      BY <2>1, CallersKeepLoopInv, LoopKeepsLoopInv DEF Next
  <1> QED
    BY <1>1, <1>2, PTL DEF Spec

(* queueInLoop and handlePendingFunctors lose no wakeup, whatever the number  *)
(* of threads, functors and channels.                                         *)
THEOREM NoWakeupIsLost == Spec => []NoLostWakeup
  <1>1. LoopInv => NoLostWakeup
    BY DEF LoopInv, WakeupInv, NoLostWakeup
  <1> QED
    BY <1>1, LoopInvariant, PTL

-----------------------------------------------------------------------------
(* A step of the loop is a step of the queue its callers see, or a stutter.   *)
LEMMA StepSimulation == LoopInv /\ [Next]_vars => [TQ!Next]_TQ!vars
  <1> SUFFICES ASSUME LoopInv, [Next]_vars PROVE [TQ!Next]_TQ!vars
    OBVIOUS
  <1> USE DEF LoopInv, TQ!vars
  <1>1. ASSUME NEW t \in AllThreads, NEW f \in Tasks, QueueInLoop(t, f)
        PROVE  TQ!Enqueue(f)
    BY <1>1, PushConcat DEF QueueInLoop, TypeOK, TQ!Enqueue
  <1>2. ASSUME NEW t \in AllThreads, WakeupToHandlePendingFunctors(t) PROVE UNCHANGED TQ!vars
    BY <1>2 DEF WakeupToHandlePendingFunctors
  <1>3. ASSUME NEW f \in Tasks, RunInLoop(f) PROVE UNCHANGED TQ!vars
    BY <1>3, OutermostFunctor DEF RunInLoop, StackInv, TypeOK
  <1>4. ASSUME NestedReturn PROVE UNCHANGED TQ!vars
    BY <1>4, OutermostFunctor DEF NestedReturn, StackInv, TypeOK
  <1>5. ASSUME \/ EnterLoop \/ PollWakeup \/ PollEvents \/ PollTimeout
               \/ HandleWakeupChannelRead
               \/ \E c \in Channels : HandleEvent(c)
               \/ HandlerReturns
               \/ HandlePendingFunctors \/ EndOfFunctors
        PROVE  UNCHANGED TQ!vars
    BY <1>5 DEF EnterLoop, PollWakeup, PollEvents, PollTimeout, PollReturns,
       HandleWakeupChannelRead, HandleEvent, HandlerReturns, HandlePendingFunctors, EndOfFunctors
  <1>6. ASSUME SwapFunctors PROVE UNCHANGED TQ!vars
    <2>1. functors = << >> /\ functors' = pendingFunctors /\ pendingFunctors' = << >>
      BY <1>6 DEF SwapFunctors, BatchInv
    <2>2. functors' \o pendingFunctors' = functors \o pendingFunctors
      BY <2>1, ConcatEmptySeq DEF TypeOK
    <2> QED
      BY <1>6, <2>2 DEF SwapFunctors
  <1>7. ASSUME RunFunctor PROVE TQ!Start
    <2>1. /\ functors # << >>
          /\ functors' = Tail(functors)
          /\ pendingFunctors' = pendingFunctors
          /\ pc = "functors" /\ pc' = "functor"
          /\ Head(stack') = Head(functors)
      BY <1>7 DEF RunFunctor, TypeOK
    <2> QED
      BY <2>1, PopConcat DEF TypeOK, TQ!Start
  <1>8. ASSUME FunctorReturns PROVE TQ!Finish
    <2>1. Head(stack) \in Tasks
      <3>1. stack \in Seq(Tasks) /\ Len(stack) = 1
        BY <1>8 DEF FunctorReturns, TypeOK
      <3> QED
        BY <3>1
    <2>2. /\ pc = "functor" /\ pc' = "functors"
          /\ UNCHANGED <<functors, pendingFunctors>>
      BY <1>8 DEF FunctorReturns
    <2>3. Head(stack) # NoTask
      BY <2>1, LoopAssumption
    <2> QED
      BY <2>2, <2>3 DEF TQ!Finish
  <1>9. ASSUME UNCHANGED vars PROVE UNCHANGED TQ!vars
    BY <1>9 DEF vars
  <1> QED
    BY <1>1, <1>2, <1>3, <1>4, <1>5, <1>6, <1>7, <1>8, <1>9 DEF Next, TQ!Next

(* The loop runs the functors one at a time and in the order of the pushes:   *)
(* the swap of vectors, the flag and the eventfd are invisible to callers.    *)
THEOREM LoopImplementsTaskQueue == Spec => ImplementsTaskQueue
  <1>1. Init => TQ!Init
    BY DEF Init, TQ!Init
  <1> QED
    BY <1>1, StepSimulation, LoopInvariant, PTL DEF Spec, ImplementsTaskQueue, TQ!Spec
=============================================================================
