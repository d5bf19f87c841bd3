------------------------------ MODULE ThreadPool ------------------------------
(* threadpool/threadpool.{h,cpp}: worker threads that take tasks from one     *)
(* queue under a mutex and a condition variable, and a destructor that raises *)
(* m_bStop, notifies and joins.  The destructor does not take the mutex, so   *)
(* the steps of a worker inside its critical section are separate actions.    *)
EXTENDS Naturals, Sequences

CONSTANTS
    Workers,        \* m_threads
    Nobody,         \* nobody holds the mutex
    MaxTasks        \* bound: tasks added

ASSUME PoolAssumption == Workers # {} /\ Nobody \notin Workers /\ MaxTasks \in Nat

VARIABLES
    pc,             \* each worker: "lock", "test", "sleep", "waiting", "take", "run", "exited"
    mutex,          \* who holds m_mutex across steps
    taskQueue,      \* m_taskQueue: tasks are numbered as they are added
    stop,           \* m_bStop
    destructor,     \* "not called", "stop", "join" or "returned"
    added,          \* number of tasks added
    started         \* history: the tasks taken from the queue, in order

vars == <<pc, mutex, taskQueue, stop, destructor, added, started>>

TypeOK ==
    /\ pc \in [Workers -> {"lock", "test", "sleep", "waiting", "take", "run", "exited"}]
    /\ mutex \in Workers \cup {Nobody}
    /\ taskQueue \in Seq(1..MaxTasks)
    /\ stop \in BOOLEAN
    /\ destructor \in {"not called", "stop", "join", "returned"}
    /\ added \in 0..MaxTasks
    /\ started \in Seq(1..MaxTasks)

Init ==
    /\ pc = [w \in Workers |-> "lock"]
    /\ mutex = Nobody
    /\ taskQueue = << >>
    /\ stop = FALSE
    /\ destructor = "not called"
    /\ added = 0
    /\ started = << >>

Waiting == {w \in Workers : pc[w] = "waiting"}

-----------------------------------------------------------------------------
(* Mutant: no notification.                                                   *)
NotifyNone == UNCHANGED pc

(* addTask: the whole body is one critical section, so it is one step.        *)
(* notify_one wakes any one of the waiting workers, if there is one.          *)
NotifyOne ==
    IF Waiting = {} THEN UNCHANGED pc
    ELSE \E w \in Waiting : pc' = [pc EXCEPT ![w] = "lock"]

AddTask ==
    /\ mutex = Nobody
    /\ added < MaxTasks
    /\ added' = added + 1
    /\ taskQueue' = Append(taskQueue, added + 1)
    /\ NotifyOne
    /\ UNCHANGED <<mutex, stop, destructor, started>>

(* Other threads use the pool until it is destroyed, its own tasks later too. *)
UserAdds == destructor = "not called" /\ AddTask
TaskAdds == (\E w \in Workers : pc[w] = "run") /\ AddTask

-----------------------------------------------------------------------------
(* threadFunc                                                                 *)

Goto(w, place) == pc' = [pc EXCEPT ![w] = place]

Lock(w) ==
    /\ pc[w] = "lock" /\ mutex = Nobody
    /\ mutex' = w
    /\ Goto(w, "test")
    /\ UNCHANGED <<taskQueue, stop, destructor, added, started>>

(* Mutant: the predicate looks only at the queue.                             *)
MayTakeTasksOnly == taskQueue # << >>

(* The predicate of m_cond.wait, evaluated with the mutex held.               *)
MayTake == stop \/ taskQueue # << >>

Test(w) ==
    /\ pc[w] = "test"
    /\ Goto(w, IF MayTake THEN "take" ELSE "sleep")
    /\ UNCHANGED <<mutex, taskQueue, stop, destructor, added, started>>

(* wait releases the mutex and sleeps in one step, some time after the test.  *)
Sleep(w) ==
    /\ pc[w] = "sleep"
    /\ mutex' = Nobody
    /\ Goto(w, "waiting")
    /\ UNCHANGED <<taskQueue, stop, destructor, added, started>>

SpuriousWakeup(w) ==
    /\ pc[w] = "waiting"
    /\ Goto(w, "lock")
    /\ UNCHANGED <<mutex, taskQueue, stop, destructor, added, started>>

(* Mutant: a worker leaves although tasks are left.                           *)
MayExitAtOnce == stop

(* What is left in the queue is consumed before a worker leaves.              *)
MayExit == stop /\ taskQueue = << >>

Exit(w) ==
    /\ pc[w] = "take" /\ MayExit
    /\ mutex' = Nobody
    /\ Goto(w, "exited")
    /\ UNCHANGED <<taskQueue, stop, destructor, added, started>>

(* Mutant: the newest task is taken.                                          *)
TakeNewest(w) ==
    /\ pc[w] = "take" /\ ~MayExit
    /\ started' = Append(started, taskQueue[Len(taskQueue)])
    /\ taskQueue' = SubSeq(taskQueue, 1, Len(taskQueue) - 1)
    /\ mutex' = Nobody
    /\ Goto(w, "run")
    /\ UNCHANGED <<stop, destructor, added>>

Take(w) ==
    /\ pc[w] = "take" /\ ~MayExit
    /\ started' = Append(started, Head(taskQueue))
    /\ taskQueue' = Tail(taskQueue)
    /\ mutex' = Nobody
    /\ Goto(w, "run")
    /\ UNCHANGED <<stop, destructor, added>>

TaskReturns(w) ==
    /\ pc[w] = "run"
    /\ Goto(w, "lock")
    /\ UNCHANGED <<mutex, taskQueue, stop, destructor, added, started>>

-----------------------------------------------------------------------------
(* ~ThreadPool                                                                *)

Stop ==
    /\ destructor = "not called"
    /\ stop' = TRUE
    /\ destructor' = "stop"
    /\ UNCHANGED <<pc, mutex, taskQueue, added, started>>

NotifyAll ==
    /\ destructor = "stop"
    /\ pc' = [w \in Workers |-> IF w \in Waiting THEN "lock" ELSE pc[w]]
    /\ destructor' = "join"
    /\ UNCHANGED <<mutex, taskQueue, stop, added, started>>

Join ==
    /\ destructor = "join"
    /\ \A w \in Workers : pc[w] = "exited"
    /\ destructor' = "returned"
    /\ UNCHANGED <<pc, mutex, taskQueue, stop, added, started>>

-----------------------------------------------------------------------------
Step(w) == Lock(w) \/ Test(w) \/ Sleep(w) \/ Exit(w) \/ Take(w) \/ TaskReturns(w)

Next ==
    \/ UserAdds
    \/ TaskAdds
    \/ \E w \in Workers : Step(w) \/ SpuriousWakeup(w)
    \/ Stop
    \/ NotifyAll
    \/ Join

Spec == Init /\ [][Next]_vars

(* Workers are scheduled and tasks return; a worker that keeps asking for the *)
(* mutex gets it.  Nothing makes a wakeup spurious or the program end, but a  *)
(* destructor that has begun goes on.                                         *)
FairSpec ==
    /\ Spec
    /\ \A w \in Workers : SF_vars(Lock(w)) /\ WF_vars(Step(w))
    /\ WF_vars(NotifyAll)
    /\ WF_vars(Join)

-----------------------------------------------------------------------------
(* Properties                                                                 *)

(* Each task is taken once and in the order of the additions, whatever the    *)
(* workers' interleaving, and a worker holds the mutex exactly between Lock   *)
(* and its release.                                                           *)
TakenInOrder ==
    /\ TypeOK
    /\ started \o taskQueue = [i \in 1..added |-> i]
    /\ \A w \in Workers : mutex = w <=> pc[w] \in {"test", "sleep", "take"}

(* The destructor returns only after every task added before or during it has *)
(* been run to its end.                                                       *)
NothingLeftBehind ==
    destructor = "returned" =>
        Len(started) = added /\ \A w \in Workers : pc[w] = "exited"

(* Every task added is run: notify_one wakes enough workers, also when the    *)
(* worker it picks finds that another has taken the task.                     *)
TasksRun == \A i \in 1..MaxTasks : added >= i ~> Len(started) >= i

(* The destructor returns, however many workers are asleep, at work or on     *)
(* their way, unless one of them missed the notification: it had tested       *)
(* m_bStop before the destructor set it, which it does without the mutex, and *)
(* went to sleep after the notification.  Such a worker is joined for ever,   *)
(* unless its wakeup is spurious.                                             *)
NobodyMissedIt == \A w \in Workers : pc[w] \notin {"sleep", "waiting"}
DestructorReturns == destructor = "join" /\ NobodyMissedIt ~> destructor = "returned"
=============================================================================
