------------------------------ MODULE TaskQueue ------------------------------
(* What EventLoop::queueInLoop promises its callers, without the lock, the    *)
(* eventfd, the swap of vectors or the poller: functors wait in one queue and *)
(* the loop thread runs them one at a time, in the order they were queued.    *)
EXTENDS Naturals, Sequences

CONSTANTS
    Tasks,      \* the functors that callers queue
    NoTask      \* not a functor: none of the queue is running

VARIABLES
    queue,      \* functors queued and not yet started
    current     \* the functor of the queue that is running, or NoTask

vars == <<queue, current>>

Init == queue = << >> /\ current = NoTask

Enqueue(f) == /\ queue' = Append(queue, f)
              /\ UNCHANGED current

Start == /\ current = NoTask
         /\ queue # << >>
         /\ current' = Head(queue)
         /\ queue' = Tail(queue)

Finish == /\ current # NoTask
          /\ current' = NoTask
          /\ UNCHANGED queue

Next == Start \/ Finish \/ \E f \in Tasks : Enqueue(f)

Spec == Init /\ [][Next]_vars

(* The loop runs what is queued: no functor waits for ever.                   *)
Fairness == WF_vars(Start) /\ WF_vars(Finish)
=============================================================================
