------------------------------ MODULE EventLoop ------------------------------
(* net/Eventloop.cpp: one loop thread that polls, dispatches the ready        *)
(* channels and then runs the functors other threads (or its own handlers)    *)
(* left in pendingFunctors_, and the foreign threads that leave them there.   *)
(*                                                                            *)
(* The steps are those that other threads can observe: a critical section of  *)
(* mtx_, a read or a write of the eventfd, a call into user code.             *)
EXTENDS Naturals, Sequences

CONSTANTS
    Tasks,          \* the functors that may be queued (each any number of times)
    NoTask,
    Threads,        \* threads other than the loop's own
    LoopThread,     \* the thread whose id the constructor kept in threadId_
    Channels,       \* registered channels other than wakeupChannel_
    WakeupChannel,  \* the channel of wakeupFd_
    MaxPending,     \* bound: functors queued and not started
    MaxDepth        \* bound: functors nested by runInLoop in the loop thread

ASSUME LoopAssumption ==
    /\ NoTask \notin Tasks
    /\ LoopThread \notin Threads
    /\ WakeupChannel \notin Channels
    /\ MaxPending \in Nat
    /\ MaxDepth \in Nat

VARIABLES
    pc,                         \* where the loop thread is
    pendingFunctors,            \* pendingFunctors_, guarded by mtx_
    functors,                   \* what is left of the vector swapped out of it
    isCallingPendingFunctors,
    wakeupFd,                   \* the eventfd: 1 when its counter is not 0, which is all that is read of it
    activeChanels,              \* ready channels not yet handled
    pushed,                     \* threads between the unlock and the wakeup test of queueInLoop
    stack,                      \* functors being executed by the loop thread, outermost first
    early                       \* how many of pendingFunctors the loop thread queued before loop()

vars == <<pc, pendingFunctors, functors, isCallingPendingFunctors, wakeupFd,
          activeChanels, pushed, stack, early>>

AllThreads == Threads \cup {LoopThread}

(* The loop thread is in code of the library's user: the thread's init        *)
(* callback, a channel's callback or a functor.                               *)
UserCode == {"starting", "handler", "functor"}

TypeOK ==
    /\ pc \in UserCode \cup {"poll", "dispatch", "swap", "functors"}
    /\ pendingFunctors \in Seq(Tasks)
    /\ functors \in Seq(Tasks)
    /\ isCallingPendingFunctors \in BOOLEAN
    /\ wakeupFd \in 0..1
    /\ activeChanels \in SUBSET (Channels \cup {WakeupChannel})
    /\ pushed \in SUBSET AllThreads
    /\ stack \in Seq(Tasks)
    /\ early \in Nat

Init ==
    /\ pc = "starting"
    /\ pendingFunctors = << >>
    /\ functors = << >>
    /\ isCallingPendingFunctors = FALSE
    /\ wakeupFd = 0
    /\ activeChanels = {}
    /\ pushed = {}
    /\ stack = << >>
    /\ early = 0

-----------------------------------------------------------------------------
(* Callers.  The loop thread calls only from user code, and goes on only      *)
(* when the call has returned.                                                *)

CanCall(t) == t \notin pushed /\ (t = LoopThread => pc \in UserCode)

LoopThreadFree == LoopThread \notin pushed

(* The critical section of queueInLoop.                                       *)
QueueInLoop(t, f) ==
    /\ CanCall(t)
    /\ Len(pendingFunctors) + Len(functors) < MaxPending
    /\ pendingFunctors' = Append(pendingFunctors, f)
    /\ pushed' = pushed \cup {t}
    /\ early' = IF t = LoopThread /\ pc = "starting" THEN early + 1 ELSE early
    /\ UNCHANGED <<pc, functors, isCallingPendingFunctors, wakeupFd, activeChanels, stack>>

(* Mutant: the loop thread never wakes itself, not even from a functor.       *)
NeedsWakeupForeign(t) == t # LoopThread

(* The rest of queueInLoop, after the lock is released.                       *)
NeedsWakeup(t) == t # LoopThread \/ isCallingPendingFunctors

WakeupToHandlePendingFunctors(t) ==
    /\ t \in pushed
    /\ pushed' = pushed \ {t}
    /\ wakeupFd' = IF NeedsWakeup(t) THEN 1 ELSE wakeupFd
    /\ UNCHANGED <<pc, pendingFunctors, functors, isCallingPendingFunctors,
                   activeChanels, stack, early>>

(* runInLoop in the loop thread calls the functor there and then; from any    *)
(* other thread it is queueInLoop.                                            *)
RunInLoop(f) ==
    /\ CanCall(LoopThread)
    /\ Len(stack) < MaxDepth
    /\ stack' = Append(stack, f)
    /\ UNCHANGED <<pc, pendingFunctors, functors, isCallingPendingFunctors,
                   wakeupFd, activeChanels, pushed, early>>

(* A functor called by runInLoop returns to the user code that called it.     *)
NestedReturn ==
    /\ pc \in UserCode /\ LoopThreadFree
    /\ Len(stack) > IF pc = "functor" THEN 1 ELSE 0
    /\ stack' = SubSeq(stack, 1, Len(stack) - 1)
    /\ UNCHANGED <<pc, pendingFunctors, functors, isCallingPendingFunctors,
                   wakeupFd, activeChanels, pushed, early>>

-----------------------------------------------------------------------------
(* EventLoop::loop                                                            *)

EnterLoop ==
    /\ pc = "starting" /\ LoopThreadFree /\ stack = << >>
    /\ pc' = "poll"
    /\ UNCHANGED <<pendingFunctors, functors, isCallingPendingFunctors, wakeupFd,
                   activeChanels, pushed, stack, early>>

PollReturns(ready) ==
    /\ pc = "poll"
    /\ pc' = "dispatch"
    /\ activeChanels' = ready
    /\ UNCHANGED <<pendingFunctors, functors, isCallingPendingFunctors, wakeupFd,
                   pushed, stack, early>>

(* The eventfd is readable, perhaps with other channels.                      *)
PollWakeup == /\ wakeupFd > 0
              /\ \E ready \in SUBSET Channels : PollReturns(ready \cup {WakeupChannel})

(* Only other channels are ready.                                             *)
PollEvents == /\ wakeupFd = 0
              /\ \E ready \in (SUBSET Channels) \ {{}} : PollReturns(ready)

(* Mutant: poll without a timeout.                                            *)
PollForever == FALSE

(* kPollTimeMs elapsed, or a signal interrupted the call.                     *)
PollTimeout == wakeupFd = 0 /\ PollReturns({})

HandleWakeupChannelRead ==
    /\ pc = "dispatch"
    /\ WakeupChannel \in activeChanels
    /\ activeChanels' = activeChanels \ {WakeupChannel}
    /\ wakeupFd' = 0
    /\ UNCHANGED <<pc, pendingFunctors, functors, isCallingPendingFunctors, pushed,
                   stack, early>>

HandleEvent(c) ==
    /\ pc = "dispatch"
    /\ c \in activeChanels \ {WakeupChannel}
    /\ activeChanels' = activeChanels \ {c}
    /\ pc' = "handler"
    /\ UNCHANGED <<pendingFunctors, functors, isCallingPendingFunctors, wakeupFd,
                   pushed, stack, early>>

HandlerReturns ==
    /\ pc = "handler" /\ LoopThreadFree /\ stack = << >>
    /\ pc' = "dispatch"
    /\ UNCHANGED <<pendingFunctors, functors, isCallingPendingFunctors, wakeupFd,
                   activeChanels, pushed, stack, early>>

-----------------------------------------------------------------------------
(* EventLoop::handlePendingFunctors                                           *)

(* Mutant: the flag stays down while the functors run.                        *)
HandlePendingFunctorsNoFlag ==
    /\ pc = "dispatch"
    /\ activeChanels = {}
    /\ pc' = "swap"
    /\ UNCHANGED <<pendingFunctors, functors, isCallingPendingFunctors, wakeupFd,
                   activeChanels, pushed, stack, early>>

HandlePendingFunctors ==
    /\ pc = "dispatch"
    /\ activeChanels = {}
    /\ isCallingPendingFunctors' = TRUE
    /\ pc' = "swap"
    /\ UNCHANGED <<pendingFunctors, functors, wakeupFd, activeChanels, pushed, stack, early>>

SwapFunctors ==
    /\ pc = "swap"
    /\ functors' = pendingFunctors
    /\ pendingFunctors' = << >>
    /\ early' = 0
    /\ pc' = "functors"
    /\ UNCHANGED <<isCallingPendingFunctors, wakeupFd, activeChanels, pushed, stack>>

RunFunctor ==
    /\ pc = "functors"
    /\ functors # << >>
    /\ functors' = Tail(functors)
    /\ stack' = <<Head(functors)>>
    /\ pc' = "functor"
    /\ UNCHANGED <<pendingFunctors, isCallingPendingFunctors, wakeupFd, activeChanels,
                   pushed, early>>

FunctorReturns ==
    /\ pc = "functor" /\ LoopThreadFree /\ Len(stack) = 1
    /\ stack' = << >>
    /\ pc' = "functors"
    /\ UNCHANGED <<pendingFunctors, functors, isCallingPendingFunctors, wakeupFd,
                   activeChanels, pushed, early>>

(* Mutants: functors queued during the run are thrown away, or run in the     *)
(* same iteration.                                                            *)
EndOfFunctorsClears ==
    /\ pc = "functors"
    /\ functors = << >>
    /\ isCallingPendingFunctors' = FALSE
    /\ pendingFunctors' = << >>
    /\ pc' = "poll"
    /\ UNCHANGED <<functors, wakeupFd, activeChanels, pushed, stack, early>>

EndOfFunctorsDrains ==
    /\ pc = "functors"
    /\ functors = << >>
    /\ functors' = pendingFunctors
    /\ pendingFunctors' = << >>
    /\ isCallingPendingFunctors' = (pendingFunctors # << >>)
    /\ pc' = IF pendingFunctors # << >> THEN "functors" ELSE "poll"
    /\ UNCHANGED <<wakeupFd, activeChanels, pushed, stack, early>>

EndOfFunctors ==
    /\ pc = "functors"
    /\ functors = << >>
    /\ isCallingPendingFunctors' = FALSE
    /\ pc' = "poll"
    /\ UNCHANGED <<pendingFunctors, functors, wakeupFd, activeChanels, pushed, stack, early>>

-----------------------------------------------------------------------------
Next ==
    \/ \E t \in AllThreads, f \in Tasks : QueueInLoop(t, f)
    \/ \E t \in AllThreads : WakeupToHandlePendingFunctors(t)
    \/ \E f \in Tasks : RunInLoop(f)
    \/ NestedReturn
    \/ EnterLoop
    \/ PollWakeup
    \/ PollEvents
    \/ PollTimeout
    \/ HandleWakeupChannelRead
    \/ \E c \in Channels : HandleEvent(c)
    \/ HandlerReturns
    \/ HandlePendingFunctors
    \/ SwapFunctors
    \/ RunFunctor
    \/ FunctorReturns
    \/ EndOfFunctors

Spec == Init /\ [][Next]_vars

(* Threads are scheduled and user code returns: strong fairness for the       *)
(* returns, at every depth, because user code may call runInLoop any number   *)
(* of times before it returns.                                                *)
(* A poll with a readable eventfd returns; nothing says that a channel ever   *)
(* becomes ready, and nothing is assumed of the 10 s timeout.                 *)
PromptFairness ==
    /\ \A t \in AllThreads : WF_vars(WakeupToHandlePendingFunctors(t))
    /\ \A depth \in 1..MaxDepth : SF_vars(Len(stack) = depth /\ NestedReturn)
    /\ SF_vars(EnterLoop)
    /\ WF_vars(PollWakeup)
    /\ WF_vars(HandleWakeupChannelRead)
    /\ \A c \in Channels : WF_vars(HandleEvent(c))
    /\ SF_vars(HandlerReturns)
    /\ WF_vars(HandlePendingFunctors)
    /\ WF_vars(SwapFunctors)
    /\ WF_vars(RunFunctor)
    /\ SF_vars(FunctorReturns)
    /\ WF_vars(EndOfFunctors)

PromptSpec == Spec /\ PromptFairness

-----------------------------------------------------------------------------
(* Properties                                                                 *)

(* A wakeup is in the eventfd or a caller is about to write one.              *)
WakeupUnderWay == wakeupFd > 0 \/ \E t \in pushed : NeedsWakeup(t)

(* No lost wakeup: the loop thread never sits in poll beside a functor that   *)
(* was queued since loop() began, or by another thread at any time, unless    *)
(* the eventfd is readable or is about to be.  queueInLoop writes after it    *)
(* released mtx_, and handlePendingFunctors raises its flag before the swap;  *)
(* either order wrong would lose a functor for up to 10 s.                    *)
NoLostWakeup == pc = "poll" /\ Len(pendingFunctors) > early => WakeupUnderWay

(* The invariant that carries NoLostWakeup through an iteration.  The wakeup  *)
(* may be missing only between the poll's return and the swap, when the       *)
(* functors are about to be collected anyway.                                 *)
FlagInv == isCallingPendingFunctors <=> pc \in {"swap", "functors", "functor"}
StackInv == /\ pc \notin UserCode => stack = << >>
            /\ pc = "functor" => stack # << >>
BatchInv == pc \notin {"functors", "functor"} => functors = << >>
CallerInv == LoopThread \in pushed => pc \in UserCode
ActiveInv == pc \notin {"dispatch", "handler"} => activeChanels = {}
WakeupInv == pc \notin {"dispatch", "handler", "swap"} =>
                (Len(pendingFunctors) > early => WakeupUnderWay)

LoopInv == /\ TypeOK
           /\ FlagInv
           /\ StackInv
           /\ BatchInv
           /\ CallerInv
           /\ ActiveInv
           /\ WakeupInv

(* A functor queued since loop() began, or by another thread, is collected by *)
(* the loop thread without help from the poll timeout or from any channel.    *)
Collected == Len(pendingFunctors) > early ~> pendingFunctors = << >>

(* The functors of one iteration cannot keep the loop from its channels, even *)
(* when each of them queues another: the loop runs a swapped-out batch.       *)
BackToPoll == isCallingPendingFunctors ~> pc = "poll"

(* The loop implements the queue its callers see.                             *)
TQ == INSTANCE TaskQueue
        WITH queue <- functors \o pendingFunctors,
             current <- IF pc = "functor" THEN Head(stack) ELSE NoTask

(* Every functor runs, one at a time and in the order of the pushes.          *)
ImplementsTaskQueue == TQ!Spec

(* If the poll also returns when its timeout expires, the queue is fair:      *)
(* every functor runs eventually, early ones included.                        *)
TimeoutMakesFair == WF_vars(PollTimeout) => TQ!Fairness
=============================================================================
