--------------------------- MODULE ThreadPool_proofs ---------------------------
(* Theorems of ThreadPool for any number of workers and tasks.                *)
EXTENDS ThreadPool, SequenceTheorems, TLAPS

(* A task that goes from the head of the queue to the end of what was started *)
(* leaves the two, put together, as they were.                                *)
LEMMA TakeConcat ==
    ASSUME NEW S, NEW s \in Seq(S), NEW t \in Seq(S), t # << >>
    PROVE  Append(s, Head(t)) \o Tail(t) = s \o t
  BY SMT

LEMMA PushConcat ==
    ASSUME NEW S, NEW s \in Seq(S), NEW t \in Seq(S), NEW x \in S
    PROVE  s \o Append(t, x) = Append(s \o t, x)
  BY SMT

(* The numbers of the tasks, when one more is added.                          *)
LEMMA AppendNext ==
    ASSUME NEW n \in Nat
    PROVE  Append([i \in 1..n |-> i], n + 1) = [i \in 1..(n + 1) |-> i]
  BY SMT

-----------------------------------------------------------------------------
(* What the workers rely on.  A worker that goes on to take a task has seen a *)
(* task or the stop, and holds the mutex since; nobody leaves before the      *)
(* stop; and the last one to leave finds no task, as only a worker that runs  *)
(* a task may add one after the stop.                                         *)
StopInv == stop <=> destructor # "not called"
TakeInv == \A w \in Workers : pc[w] = "take" => MayTake
ExitInv ==
    /\ \A w \in Workers : pc[w] = "exited" => stop
    /\ (\A w \in Workers : pc[w] = "exited") => taskQueue = << >>
    /\ destructor = "returned" => \A w \in Workers : pc[w] = "exited"

PoolInv == TakenInOrder /\ StopInv /\ TakeInv /\ ExitInv

-----------------------------------------------------------------------------
(* A worker that takes a task finds one.                                      *)
LEMMA TakeFinds ==
    ASSUME NEW w \in Workers, TakeInv, Take(w)
    PROVE  taskQueue # << >>
  BY DEF TakeInv, Take, MayTake, MayExit

LEMMA AddedBound ==
    ASSUME TypeOK, AddTask
    PROVE  added \in Nat /\ added + 1 \in 1..MaxTasks /\ added' \in 0..MaxTasks
  <1>1. MaxTasks \in Nat
    BY PoolAssumption DEF PoolAssumption
  <1>2. added \in 0..MaxTasks /\ added < MaxTasks /\ added' = added + 1
    BY DEF TypeOK, AddTask
  <1> QED
    BY <1>1, <1>2

LEMMA PoolTyping == TypeOK /\ TakeInv /\ [Next]_vars => TypeOK'
  <1> SUFFICES ASSUME TypeOK, TakeInv, [Next]_vars PROVE TypeOK'
    OBVIOUS
  <1>1. CASE AddTask
    <2>1. added + 1 \in 1..MaxTasks /\ added' \in 0..MaxTasks
      BY <1>1, AddedBound
    <2>2. taskQueue' \in Seq(1..MaxTasks)
      BY <1>1, <2>1, AppendProperties DEF TypeOK, AddTask
    <2>3. pc' \in [Workers -> {"lock", "test", "sleep", "waiting", "take", "run", "exited"}]
      BY <1>1 DEF TypeOK, AddTask, NotifyOne, Waiting
    <2> QED
      BY <1>1, <2>1, <2>2, <2>3 DEF TypeOK, AddTask
  <1>2. ASSUME NEW w \in Workers, Lock(w) \/ Test(w) \/ Sleep(w) \/ SpuriousWakeup(w)
        PROVE  TypeOK'
    BY <1>2 DEF TypeOK, Lock, Test, Sleep, SpuriousWakeup, Goto
  <1>3. ASSUME NEW w \in Workers, Exit(w) \/ TaskReturns(w) PROVE TypeOK'
    BY <1>3 DEF TypeOK, Exit, TaskReturns, Goto
  <1>4. ASSUME NEW w \in Workers, Take(w) PROVE TypeOK'
    <2>1. taskQueue' \in Seq(1..MaxTasks) /\ started' \in Seq(1..MaxTasks)
      BY <1>4, TakeFinds, HeadTailProperties, AppendProperties DEF TypeOK, Take
    <2> QED
      BY <1>4, <2>1 DEF TypeOK, Take, Goto
  <1>5. CASE Stop \/ NotifyAll \/ Join
    BY <1>5 DEF TypeOK, Stop, NotifyAll, Join
  <1>6. CASE UNCHANGED vars
    BY <1>6 DEF TypeOK, vars
  <1> QED
    BY <1>1, <1>2, <1>3, <1>4, <1>5, <1>6 DEF Next, Step, UserAdds, TaskAdds

(* Tasks are numbered, queued and started in one order.                       *)
InOrder == started \o taskQueue = [i \in 1..added |-> i]

LEMMA OrderStep == TypeOK /\ TakeInv /\ InOrder /\ [Next]_vars => InOrder'
  <1> SUFFICES ASSUME TypeOK, TakeInv, InOrder, [Next]_vars PROVE InOrder'
    OBVIOUS
  <1>1. CASE AddTask
    <2>1. added \in Nat /\ added + 1 \in 1..MaxTasks
      BY <1>1, AddedBound
    <2>2. started' \o taskQueue' = Append(started \o taskQueue, added + 1)
      <3>1. /\ started \in Seq(1..MaxTasks) /\ taskQueue \in Seq(1..MaxTasks)
            /\ started' = started /\ taskQueue' = Append(taskQueue, added + 1)
        BY <1>1 DEF TypeOK, AddTask
      <3> QED
        BY <2>1, <3>1, PushConcat
    <2> QED
      BY <1>1, <2>1, <2>2, AppendNext DEF InOrder, AddTask
  <1>2. ASSUME NEW w \in Workers, Take(w) PROVE InOrder'
    <2>1. started' \o taskQueue' = started \o taskQueue
      <3>1. /\ started \in Seq(1..MaxTasks) /\ taskQueue \in Seq(1..MaxTasks)
            /\ started' = Append(started, Head(taskQueue)) /\ taskQueue' = Tail(taskQueue)
        BY <1>2 DEF TypeOK, Take
      <3> QED
        BY <1>2, <3>1, TakeFinds, TakeConcat
    <2> QED
      BY <1>2, <2>1 DEF InOrder, Take
  <1>3. CASE UNCHANGED <<started, taskQueue, added>>
    BY <1>3 DEF InOrder
  <1> QED
    BY <1>1, <1>2, <1>3 DEF Next, Step, UserAdds, TaskAdds, Lock, Test, Sleep, SpuriousWakeup,
       Exit, TaskReturns, Stop, NotifyAll, Join, vars

(* One worker at a time is inside the critical section.                       *)
MutexInv == \A w \in Workers : mutex = w <=> pc[w] \in {"test", "sleep", "take"}

LEMMA MutexStep == TypeOK /\ MutexInv /\ [Next]_vars => MutexInv'
  <1> SUFFICES ASSUME TypeOK, MutexInv, [Next]_vars PROVE MutexInv'
    OBVIOUS
  <1> USE PoolAssumption DEF MutexInv, TypeOK, PoolAssumption
  <1>1. CASE AddTask
    BY <1>1 DEF AddTask, NotifyOne, Waiting
  <1>2. ASSUME NEW w \in Workers, Lock(w) PROVE MutexInv'
    BY <1>2 DEF Lock, Goto
  <1>3. ASSUME NEW w \in Workers, Test(w) PROVE MutexInv'
    BY <1>3 DEF Test, Goto
  <1>4. ASSUME NEW w \in Workers, Sleep(w) \/ Exit(w) \/ Take(w) PROVE MutexInv'
    BY <1>4 DEF Sleep, Exit, Take, Goto
  <1>5. ASSUME NEW w \in Workers, SpuriousWakeup(w) \/ TaskReturns(w) PROVE MutexInv'
    BY <1>5 DEF SpuriousWakeup, TaskReturns, Goto
  <1>6. CASE Stop \/ NotifyAll \/ Join
    BY <1>6 DEF Stop, NotifyAll, Join, Waiting
  <1>7. CASE UNCHANGED vars
    BY <1>7 DEF vars
  <1> QED
    BY <1>1, <1>2, <1>3, <1>4, <1>5, <1>6, <1>7 DEF Next, Step, UserAdds, TaskAdds

-----------------------------------------------------------------------------
LEMMA TakeStep == TypeOK /\ MutexInv /\ TakeInv /\ [Next]_vars => TakeInv'
  <1> SUFFICES ASSUME TypeOK, MutexInv, TakeInv, [Next]_vars PROVE TakeInv'
    OBVIOUS
  <1> USE DEF TakeInv, MayTake
  <1>1. CASE AddTask
    (* The queue is not empty then.                                           *)
    <2>1. taskQueue' # << >>
      <3>1. taskQueue \in Seq(1..MaxTasks) /\ taskQueue' = Append(taskQueue, added + 1)
        BY <1>1 DEF TypeOK, AddTask
      <3> QED
        BY <1>1, <3>1, AddedBound, AppendProperties
    <2> QED
      BY <2>1
  <1>2. ASSUME NEW w \in Workers, Lock(w) \/ Sleep(w) \/ SpuriousWakeup(w) \/ TaskReturns(w)
        PROVE  TakeInv'
    BY <1>2 DEF TypeOK, Lock, Sleep, SpuriousWakeup, TaskReturns, Goto
  <1>3. ASSUME NEW w \in Workers, Test(w) PROVE TakeInv'
    BY <1>3 DEF TypeOK, Test, Goto
  <1>4. ASSUME NEW w \in Workers, Exit(w) \/ Take(w) PROVE TakeInv'
    (* Nobody else is about to take: that takes the mutex.                    *)
    <2>1. \A v \in Workers : pc[v] = "take" => v = w
      BY <1>4 DEF MutexInv, Exit, Take
    <2> QED
      BY <1>4, <2>1 DEF TypeOK, Exit, Take, Goto
  <1>5. CASE Stop \/ Join
    BY <1>5 DEF Stop, Join
  <1>6. CASE NotifyAll
    BY <1>6 DEF TypeOK, NotifyAll, Waiting
  <1>7. CASE UNCHANGED vars
    BY <1>7 DEF vars
  <1> QED
    BY <1>1, <1>2, <1>3, <1>4, <1>5, <1>6, <1>7 DEF Next, Step, UserAdds, TaskAdds

LEMMA StopStep == TypeOK /\ StopInv /\ [Next]_vars => StopInv'
  <1> SUFFICES ASSUME TypeOK, StopInv, [Next]_vars PROVE StopInv'
    OBVIOUS
  <1>1. CASE Stop
    BY <1>1 DEF StopInv, Stop
  <1>2. CASE NotifyAll
    BY <1>2 DEF StopInv, NotifyAll
  <1>3. CASE Join
    BY <1>3 DEF StopInv, Join
  <1>4. CASE UNCHANGED <<stop, destructor>>
    BY <1>4 DEF StopInv
  <1> QED
    BY <1>1, <1>2, <1>3, <1>4 DEF Next, Step, UserAdds, TaskAdds, AddTask, Lock, Test, Sleep,
       SpuriousWakeup, Exit, Take, TaskReturns, vars

LEMMA ExitStep == TypeOK /\ StopInv /\ TakeInv /\ ExitInv /\ [Next]_vars => ExitInv'
  <1> SUFFICES ASSUME TypeOK, StopInv, TakeInv, ExitInv, [Next]_vars PROVE ExitInv'
    OBVIOUS
  <1>1. CASE AddTask /\ (UserAdds \/ TaskAdds)
    (* Somebody is left to run the task.                                      *)
    <2>1. \E w \in Workers : pc[w] # "exited"
      BY <1>1, PoolAssumption DEF UserAdds, TaskAdds, StopInv, ExitInv, PoolAssumption
    <2>2. \A w \in Workers : pc'[w] = "exited" <=> pc[w] = "exited"
      BY <1>1 DEF TypeOK, AddTask, NotifyOne, Waiting
    <2> QED
      BY <1>1, <2>1, <2>2 DEF ExitInv, AddTask
  <1>2. ASSUME NEW w \in Workers,
               Lock(w) \/ Test(w) \/ Sleep(w) \/ SpuriousWakeup(w) \/ TaskReturns(w) \/ Take(w)
        PROVE  ExitInv'
    <2>1. pc[w] # "exited" /\ pc'[w] # "exited"
      BY <1>2 DEF TypeOK, Lock, Test, Sleep, SpuriousWakeup, TaskReturns, Take, Goto
    <2>2. \A v \in Workers \ {w} : pc'[v] = pc[v]
      BY <1>2 DEF TypeOK, Lock, Test, Sleep, SpuriousWakeup, TaskReturns, Take, Goto
    <2>3. stop' = stop /\ destructor' = destructor
      BY <1>2 DEF Lock, Test, Sleep, SpuriousWakeup, TaskReturns, Take
    <2> QED
      BY <2>1, <2>2, <2>3 DEF ExitInv
  <1>3. ASSUME NEW w \in Workers, Exit(w) PROVE ExitInv'
    BY <1>3 DEF TypeOK, ExitInv, Exit, MayExit, Goto
  <1>4. CASE Stop \/ Join
    <2>1. CASE Stop
      BY <1>4, <2>1 DEF ExitInv, Stop
    <2>2. CASE Join
      BY <1>4, <2>2 DEF ExitInv, Join
    <2> QED
      BY <1>4, <2>1, <2>2
  <1>5. CASE NotifyAll
    BY <1>5 DEF TypeOK, ExitInv, NotifyAll, Waiting
  <1>6. CASE UNCHANGED vars
    BY <1>6 DEF ExitInv, vars
  <1> QED
    BY <1>1, <1>2, <1>3, <1>4, <1>5, <1>6 DEF Next, Step, UserAdds, TaskAdds

-----------------------------------------------------------------------------
(* threadFunc and addTask: the inductive invariant of the pool, for any       *)
(* number of workers and tasks.                                               *)
THEOREM PoolInvariant == Spec => []PoolInv
  <1>1. Init => PoolInv
    <2>1. Init => TakenInOrder
      <3> SUFFICES ASSUME Init PROVE TakenInOrder
        OBVIOUS
      <3>1. TypeOK
        <4>1. << >> \in Seq(1..MaxTasks) /\ 0 \in 0..MaxTasks
          BY PoolAssumption, EmptySeq DEF PoolAssumption
        <4> QED
          BY <4>1 DEF Init, TypeOK
      <3>3. MutexInv
        BY PoolAssumption DEF Init, MutexInv, PoolAssumption
      <3>2. InOrder
        <4>1. << >> \o << >> = [i \in 1..0 |-> i]
          BY SMT
        <4> QED
          BY <4>1 DEF Init, InOrder
      <3> QED
        BY <3>1, <3>2, <3>3 DEF TakenInOrder, MutexInv, InOrder
    <2> QED
      BY <2>1, PoolAssumption DEF Init, PoolInv, StopInv, TakeInv, ExitInv, PoolAssumption
  <1>2. PoolInv /\ [Next]_vars => PoolInv'
    <2>1. TakenInOrder <=> TypeOK /\ InOrder /\ MutexInv
      BY DEF TakenInOrder, InOrder, MutexInv
    <2>2. TakenInOrder' <=> TypeOK' /\ InOrder' /\ MutexInv'
      BY DEF TakenInOrder, InOrder, MutexInv
    <2> QED
      BY <2>1, <2>2, PoolTyping, OrderStep, MutexStep, TakeStep, StopStep, ExitStep DEF PoolInv
  <1> QED
    BY <1>1, <1>2, PTL DEF Spec

(* addTask and threadFunc: tasks are taken once each, in the order in which   *)
(* they were added, by a worker that holds the mutex.                         *)
THEOREM TasksAreTakenInOrder == Spec => []TakenInOrder
  <1>1. PoolInv => TakenInOrder
    BY DEF PoolInv
  <1> QED
    BY <1>1, PoolInvariant, PTL

(* ~ThreadPool: when it returns every task was taken and every worker, having *)
(* run its last one, has left.                                                *)
THEOREM DestructorLeavesNothing == Spec => []NothingLeftBehind
  <1>1. PoolInv => NothingLeftBehind
    <2> SUFFICES ASSUME PoolInv, destructor = "returned" PROVE NothingLeftBehind
      BY DEF NothingLeftBehind
    <2>1. (\A w \in Workers : pc[w] = "exited") /\ taskQueue = << >>
      BY DEF PoolInv, ExitInv
    <2>2. /\ started \in Seq(1..MaxTasks) /\ added \in 0..MaxTasks
          /\ started \o << >> = [i \in 1..added |-> i]
      BY <2>1 DEF PoolInv, TakenInOrder, TypeOK
    <2>3. Len(started) = added
      <3>1. started = [i \in 1..added |-> i]
        BY <2>2, ConcatEmptySeq
      <3>2. added \in Nat
        BY <2>2, PoolAssumption DEF PoolAssumption
      <3> QED
        BY <3>1, <3>2
    <2> QED
      BY <2>1, <2>3 DEF NothingLeftBehind
  <1> QED
    BY <1>1, PoolInvariant, PTL
=============================================================================
