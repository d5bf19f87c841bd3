------------------------------ MODULE TimerQueue ------------------------------
(* net/TimerQueue.cpp: the timers of one loop, ordered by expiration, behind  *)
(* one timerfd armed for the earliest.  Timers are added and cancelled by     *)
(* user code in the loop thread, timer callbacks included, and by another     *)
(* thread through the loop's queue of functors.                               *)
(*                                                                            *)
(* Time is counted in ticks of the 100 microseconds that a timerfd is armed   *)
(* for at least.                                                              *)
EXTENDS Integers, Sequences, FiniteSets

CONSTANTS
    MaxTimers,      \* bound: timers that are created
    Delays,         \* delays and intervals that users ask for; 0 as an interval: once
    MaxTime,        \* bound: ticks
    Start,          \* the time at the start
    Wrap            \* number of values of the 32-bit product in Timestamp::getNow

ASSUME TimerAssumption ==
    /\ {MaxTimers, MaxTime, Wrap, Start} \subseteq Nat
    /\ Start <= MaxTime
    /\ Wrap > 0
    /\ Delays \subseteq Nat \ {0}

Timers == 1..MaxTimers      \* by sequence number

VARIABLES
    clock,          \* the real time
    armed,          \* when the timerfd becomes readable, or Never
    reported,       \* the poll has reported the timerfd, handelRead is still to run
    expiration,     \* each timer's expiration_
    interval,       \* each timer's interval_, 0 when it does not repeat
    timers,         \* timers_: pairs of an expiration and a timer
    activeTimers,
    expired,        \* handelRead's vector, with the timers not yet run
    toRun,
    callingExpiredTimers,
    cancelingTimers,
    now,            \* the time handelRead read when it began, 0 outside it
    pc,             \* the loop thread: "idle", "expired" in handelRead, "callback"
    functors,       \* additions and cancellations queued by the other thread
    created,        \* timers that exist or existed
    freed,          \* timers that were deleted
    ran,            \* history: timers whose callback has run
    cancelled,      \* history: timers for which cancelInLoop has run
    overtook        \* history: those of them that were still on their way to the loop

history == <<ran, cancelled, overtook>>
vars == <<clock, armed, reported, expiration, interval, timers, activeTimers, expired,
          toRun, callingExpiredTimers, cancelingTimers, now, pc, functors, created, freed,
          history>>

batch == <<reported, expired, toRun, callingExpiredTimers, now>>

Never == -1

TypeOK ==
    /\ clock \in 0..(MaxTime + 1)
    /\ armed \in Int
    /\ reported \in BOOLEAN
    /\ expiration \in [Timers -> Int]
    /\ interval \in [Timers -> Delays \cup {0}]
    /\ timers \subseteq Int \X Timers
    /\ activeTimers \subseteq Timers
    /\ expired \subseteq Timers /\ toRun \subseteq expired
    /\ callingExpiredTimers \in BOOLEAN
    /\ cancelingTimers \subseteq Timers
    /\ now \in Int
    /\ pc \in {"idle", "expired", "callback"}
    /\ functors \in Seq({"add", "cancel"} \X Timers)
    /\ created \subseteq Timers /\ freed \subseteq created
    /\ ran \subseteq created /\ cancelled \subseteq created /\ overtook \subseteq cancelled

Init ==
    /\ clock = Start
    /\ armed = Never
    /\ reported = FALSE
    /\ expiration = [t \in Timers |-> 0]
    /\ interval = [t \in Timers |-> 0]
    /\ timers = {} /\ activeTimers = {}
    /\ expired = {} /\ toRun = {}
    /\ callingExpiredTimers = FALSE
    /\ cancelingTimers = {}
    /\ now = 0
    /\ pc = "idle"
    /\ functors = << >>
    /\ created = {} /\ freed = {}
    /\ ran = {} /\ cancelled = {} /\ overtook = {}

-----------------------------------------------------------------------------
(* Timestamps.  getNow multiplies seconds by 1000000 in an int: the product   *)
(* wraps around and is negative half of the time.                             *)
GetNow == LET low == clock % Wrap IN IF 2 * low < Wrap THEN low ELSE low - Wrap

IsValid(timestamp) == timestamp > 0

(* Mutant: a time that has passed disarms the timerfd.                        *)
ResetTimerFdPast(when) == IF when - GetNow < 1 THEN Never ELSE clock + when - GetNow

(* resetTimerFd arms the timerfd relative to now, for one tick at least.      *)
ResetTimerFd(when) ==
    clock + (IF when - GetNow < 1 THEN 1 ELSE when - GetNow)

Earliest(entries) == CHOOSE e \in entries : \A f \in entries : e[1] <= f[1]

(* Mutant: the timerfd is armed only for the first timer.                     *)
EarliestChangedFirst(when) == timers = {}

(* insert says whether the earliest expiration changes.                       *)
EarliestChanged(when) == timers = {} \/ when < Earliest(timers)[1]

-----------------------------------------------------------------------------
(* addTimer and cancle.                                                       *)

(* runAfter and runEvery call addTimer with this time.                        *)
After(delay) == GetNow + delay

AddTimerInLoop(t, when) ==
    /\ timers' = timers \cup {<<when, t>>}
    /\ activeTimers' = activeTimers \cup {t}
    /\ armed' = IF EarliestChanged(when) THEN ResetTimerFd(when) ELSE armed

Create(t, delay, every) ==
    /\ t = Cardinality(created) + 1
    /\ clock + delay <= MaxTime
    /\ created' = created \cup {t}
    /\ expiration' = [expiration EXCEPT ![t] = After(delay)]
    /\ interval' = [interval EXCEPT ![t] = every]

OnTheWay == {functors[i][2] : i \in {j \in DOMAIN functors : functors[j][1] = "add"}}

RecordCancel(t) ==
    /\ cancelled' = cancelled \cup {t}
    /\ overtook' = IF t \in OnTheWay THEN overtook \cup {t} ELSE overtook
    /\ UNCHANGED ran

(* Mutant: a cancelled timer leaves activeTimers_ alone.                      *)
CancelInLoopHalf(t) ==
    /\ RecordCancel(t)
    /\ IF t \in activeTimers
       THEN activeTimers' = activeTimers \ {t} /\ freed' = freed \cup {t}
            /\ UNCHANGED cancelingTimers
       ELSE cancelingTimers' = cancelingTimers \cup {t} /\ UNCHANGED <<activeTimers, freed>>
    /\ UNCHANGED timers

(* The timer is among those that wait: it goes.  Otherwise, during the run of *)
(* the expired ones, it is marked, so that reset does not insert it again.    *)
(* In all other cases nothing happens, also when the timer is yet to come.    *)
CancelInLoop(t) ==
    /\ RecordCancel(t)
    /\ IF t \in activeTimers
       THEN /\ timers' = timers \ {<<expiration[t], t>>}
            /\ activeTimers' = activeTimers \ {t}
            /\ freed' = freed \cup {t}
            /\ UNCHANGED cancelingTimers
       ELSE /\ cancelingTimers' = IF callingExpiredTimers THEN cancelingTimers \cup {t}
                                  ELSE cancelingTimers
            /\ UNCHANGED <<timers, activeTimers, freed>>

UserCode == pc \in {"idle", "callback"}

(* In the loop thread runInLoop calls at once.                                *)
AddTimer(t, delay, every) ==
    /\ UserCode
    /\ Create(t, delay, every)
    /\ AddTimerInLoop(t, After(delay))
    /\ UNCHANGED <<clock, batch, cancelingTimers, pc, functors, freed, history>>

(* runInLoop calls at once here too; the timer may be another thread's.       *)
Cancel(t) ==
    /\ UserCode
    /\ t \in created \ cancelled
    /\ CancelInLoop(t)
    /\ UNCHANGED <<clock, armed, expiration, interval, batch, pc, functors, created>>

(* The other thread queues both, in the order of its calls.                   *)
ForeignAddTimer(t, delay, every) ==
    /\ Create(t, delay, every)
    /\ functors' = Append(functors, <<"add", t>>)
    /\ UNCHANGED <<clock, armed, timers, activeTimers, batch, cancelingTimers, pc,
                   freed, history>>

ForeignCancel(t) ==
    /\ t \in created
    /\ <<"cancel", t>> \notin {functors[i] : i \in DOMAIN functors}
    /\ t \notin cancelled
    /\ functors' = Append(functors, <<"cancel", t>>)
    /\ UNCHANGED <<clock, armed, expiration, interval, timers, activeTimers, batch,
                   cancelingTimers, pc, created, freed, history>>

RunFunctor ==
    /\ pc = "idle" /\ ~reported /\ functors # << >>
    /\ functors' = Tail(functors)
    /\ LET t == Head(functors)[2] IN
       \/ /\ Head(functors)[1] = "add"
          /\ AddTimerInLoop(t, expiration[t])
          /\ UNCHANGED <<cancelingTimers, freed, history>>
       \/ /\ Head(functors)[1] = "cancel"
          /\ CancelInLoop(t)
          /\ UNCHANGED armed
    /\ UNCHANGED <<clock, expiration, interval, batch, pc, created>>

-----------------------------------------------------------------------------
(* handelRead, when the poll has reported the timerfd.                        *)

IsExpired(when) == when <= GetNow

Readable == armed # Never /\ armed <= clock

Poll ==
    /\ pc = "idle" /\ ~reported
    /\ Readable
    /\ reported' = TRUE
    /\ UNCHANGED <<clock, armed, expiration, interval, timers, activeTimers, expired, toRun,
                   callingExpiredTimers, cancelingTimers, now, pc, functors, created, freed,
                   history>>

(* Handlers of the same round may have added or cancelled timers since.  When *)
(* one of them has armed the timerfd again, the read fails with EAGAIN, which *)
(* changes nothing.                                                           *)
GetExpired ==
    /\ pc = "idle" /\ reported
    /\ reported' = FALSE
    /\ armed' = IF Readable THEN Never ELSE armed
    /\ now' = GetNow
    /\ LET due == {e \in timers : IsExpired(e[1])} IN
       /\ timers' = timers \ due
       /\ activeTimers' = activeTimers \ {e[2] : e \in due}
       /\ expired' = {e[2] : e \in due}
       /\ toRun' = {e[2] : e \in due}
    /\ callingExpiredTimers' = TRUE
    /\ cancelingTimers' = {}
    /\ pc' = "expired"
    /\ UNCHANGED <<clock, expiration, interval, functors, created, freed, history>>

(* The vector is in the order of the expirations.                             *)
RunCallback(t) ==
    /\ pc = "expired"
    /\ t \in toRun /\ \A u \in toRun : expiration[t] <= expiration[u]
    /\ toRun' = toRun \ {t}
    /\ pc' = "callback"
    /\ ran' = ran \cup {t}
    /\ UNCHANGED <<clock, armed, reported, expiration, interval, timers, activeTimers, expired,
                   callingExpiredTimers, cancelingTimers, now, functors, created, freed,
                   cancelled, overtook>>

CallbackReturns ==
    /\ pc = "callback"
    /\ pc' = "expired"
    /\ UNCHANGED <<clock, armed, expiration, interval, timers, activeTimers, batch,
                   cancelingTimers, functors, created, freed, history>>

(* Mutant: reset does not look at the timers cancelled during the run.        *)
RestartsAlways(t) == interval[t] > 0

(* Repeating timers that no callback cancelled start again from the time at   *)
(* which handelRead began.                                                    *)
Restarts(t) == interval[t] > 0 /\ t \notin cancelingTimers

Reset ==
    /\ pc = "expired" /\ toRun = {}
    /\ LET again == {t \in expired : Restarts(t)} IN
       /\ expiration' = [t \in Timers |-> IF t \in again THEN now + interval[t] ELSE expiration[t]]
       /\ timers' = timers \cup {<<now + interval[t], t>> : t \in again}
       /\ activeTimers' = activeTimers \cup again
       /\ freed' = freed \cup (expired \ again)
    /\ armed' = IF timers' # {} /\ IsValid(Earliest(timers')[1])
                THEN ResetTimerFd(Earliest(timers')[1])
                ELSE armed
    /\ expired' = {} /\ now' = 0
    /\ callingExpiredTimers' = FALSE
    /\ pc' = "idle"
    /\ UNCHANGED <<clock, reported, interval, toRun, cancelingTimers, functors, created, history>>

(* Bound: the last tick, past MaxTime, comes when the loop is at rest, so that *)
(* whatever was armed by then fires.                                          *)
Tick ==
    /\ clock < MaxTime \/ (clock = MaxTime /\ pc = "idle" /\ ~reported /\ functors = << >>)
    /\ clock' = clock + 1
    /\ UNCHANGED <<armed, expiration, interval, timers, activeTimers, batch, cancelingTimers,
                   pc, functors, created, freed, history>>

Next ==
    \/ \E t \in Timers, delay \in Delays, every \in Delays \cup {0} :
          AddTimer(t, delay, every) \/ ForeignAddTimer(t, delay, every)
    \/ \E t \in Timers : Cancel(t) \/ ForeignCancel(t)
    \/ RunFunctor
    \/ Poll
    \/ GetExpired
    \/ \E t \in Timers : RunCallback(t)
    \/ CallbackReturns
    \/ Reset
    \/ Tick

Spec == Init /\ [][Next]_vars

(* Time passes, the loop turns, and callbacks return.                         *)
FairSpec ==
    /\ Spec
    /\ WF_vars(Tick) /\ WF_vars(RunFunctor) /\ WF_vars(Poll)
    /\ WF_vars(GetExpired)
    /\ WF_vars(\E t \in Timers : RunCallback(t)) /\ WF_vars(CallbackReturns) /\ WF_vars(Reset)

-----------------------------------------------------------------------------
(* Properties                                                                 *)

(* timers_ and activeTimers_ hold the same timers under their current         *)
(* expirations; every timer created and not deleted is in exactly one place:  *)
(* on its way to the loop, waiting, or among the expired.                     *)
PlacesInv ==
    /\ TypeOK
    /\ timers = {<<expiration[t], t>> : t \in activeTimers}
    /\ created = OnTheWay \cup activeTimers \cup expired \cup freed
    /\ OnTheWay \cap (activeTimers \cup expired \cup freed) = {}
    /\ activeTimers \cap (expired \cup freed) = {}
    /\ expired \cap freed = {}
    /\ callingExpiredTimers <=> pc # "idle"

(* While the loop is at rest with timers waiting, the timerfd is armed, and   *)
(* for no later than the first of them, or for the next tick when that is     *)
(* past: whatever callbacks added and cancelled, and however long they took.  *)
ArmedInTime ==
    pc = "idle" /\ timers # {} =>
        armed # Never /\ (armed <= Earliest(timers)[1] \/ armed <= clock + 1)

(* Armed at all, for any clock.                                               *)
ArmedWhenWaiting == pc = "idle" /\ timers # {} => armed # Never

(* Once cancelInLoop has run for a timer, it never waits again: it is deleted *)
(* at once, or at the end of the batch it expired in.  The one exception is a *)
(* cancellation the loop thread makes at once, while the timer's addition by  *)
(* another thread is still queued: that timer is added all the same.          *)
CancelIsFinal == cancelled \cap activeTimers \subseteq overtook

(* A timer that was created runs, or is cancelled, whatever callbacks, other  *)
(* threads and earlier timers do to the one timerfd meanwhile.                *)
Fires == \A t \in Timers : t \in created ~> t \in ran \cup cancelled
=============================================================================
