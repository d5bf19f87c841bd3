------------------------- MODULE EventLoopThreadPool -------------------------
(* net/EventLoopThreadPool.cpp and net/EventLoopThread.cpp: start() runs in   *)
(* the base thread.  For one loop after the other it creates a thread and     *)
(* waits, on a mutex and a condition, until that thread has built its loop    *)
(* and published it in loop_.  getNextLoop hands the loops out in turn.       *)
EXTENDS Naturals, Sequences, SequencesExt

CONSTANTS
    BaseLoop,       \* baseloop_
    IoLoops         \* the loops the pool's threads may run

VARIABLES
    numThreads,     \* the loops of the threads to start, in order
    loops,          \* loops_
    nextLoopIdx,
    starter,        \* where the base thread is in start(): see Starters
    thread          \* where each loop's thread is in threadFunc: see Threads

(* About to create a thread, about to test loop_ under the mutex, in          *)
(* cond_.wait, or back from start().                                          *)
Starters == {"create", "test", "wait", "started"}

(* Not created; building the loop and running the init callback; loop_ is     *)
(* published but loop() not yet entered; in loop().                           *)
Threads == {"none", "preparing", "published", "looping"}

PoolTypeOK ==
    /\ numThreads \in Seq(IoLoops) /\ loops \in Seq(IoLoops)
    /\ nextLoopIdx \in Nat
    /\ starter \in Starters
    /\ thread \in [IoLoops -> Threads]

PoolInit ==
    /\ loops = << >>
    /\ nextLoopIdx = 0
    /\ starter = "create"
    /\ thread = [l \in IoLoops |-> "none"]

Published(l) == thread[l] \in {"published", "looping"}

-----------------------------------------------------------------------------
(* The base thread.                                                           *)

(* Mutant: a wait without a predicate.                                        *)
MayTakeUnchecked(l) == TRUE

MayTake(l) == Published(l)

CreateThread ==
    /\ starter = "create"
    /\ IF Len(loops) < Len(numThreads)
       THEN /\ thread' = [thread EXCEPT ![numThreads[Len(loops) + 1]] = "preparing"]
            /\ starter' = "test"
       ELSE starter' = "started" /\ UNCHANGED thread
    /\ UNCHANGED <<numThreads, loops, nextLoopIdx>>

StartLoop ==
    LET l == numThreads[Len(loops) + 1]
    IN  /\ starter = "test"
        /\ IF MayTake(l)
           THEN loops' = Append(loops, l) /\ starter' = "create"
           ELSE starter' = "wait" /\ UNCHANGED loops
        /\ UNCHANGED <<numThreads, nextLoopIdx, thread>>

(* cond_.wait may return although nobody notified.                            *)
SpuriousWakeup ==
    /\ starter = "wait"
    /\ starter' = "test"
    /\ UNCHANGED <<numThreads, loops, nextLoopIdx, thread>>

GetNextLoop == IF loops = << >> THEN BaseLoop ELSE loops[nextLoopIdx + 1]

AdvanceNextLoop ==
    nextLoopIdx' = IF loops = << >> THEN 0 ELSE (nextLoopIdx + 1) % Len(loops)

-----------------------------------------------------------------------------
(* A loop's thread.                                                           *)

(* Mutant: nobody is notified.                                                *)
NotifiedNot == starter

(* cond_.notify_one.                                                          *)
Notified == IF starter = "wait" THEN "test" ELSE starter

Publish(l) ==
    /\ thread[l] = "preparing"
    /\ thread' = [thread EXCEPT ![l] = "published"]
    /\ starter' = Notified
    /\ UNCHANGED <<numThreads, loops, nextLoopIdx>>

EnterLoop(l) ==
    /\ thread[l] = "published"
    /\ thread' = [thread EXCEPT ![l] = "looping"]
    /\ UNCHANGED <<numThreads, loops, nextLoopIdx, starter>>

ThreadFunc(l) == Publish(l) \/ EnterLoop(l)
=============================================================================
