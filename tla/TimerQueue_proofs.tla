-------------------------- MODULE TimerQueue_proofs --------------------------
(* Theorems of TimerQueue, for any number of timers, any delays and any time. *)
EXTENDS TimerQueue, FiniteSetTheorems, SequenceTheorems, NaturalsInduction,
        WellFoundedInduction, TLAPS

-----------------------------------------------------------------------------
(* What a queue s holds.                                                      *)

In(s, x) == \E i \in 1..Len(s) : s[i] = x
AtMostOnce(s, x) == \A i, j \in 1..Len(s) : s[i] = x /\ s[j] = x => i = j

Calls == {"add", "cancel"} \X Timers

-----------------------------------------------------------------------------
(* The inductive invariants                                                   *)

(* Sequence numbers are given in order and each addition is queued once, so   *)
(* no timer gets into the loop twice; and cancelInLoop leaves a timer only    *)
(* where the loop, or reset at the end of the batch, will not insert it again. *)
TimerInv ==
    /\ PlacesInv
    /\ \E n \in 0..MaxTimers : created = 1..n
    /\ \A t \in Timers : AtMostOnce(functors, <<"add", t>>)
    /\ \A t \in Timers : In(functors, <<"cancel", t>>) => t \in created
    /\ pc = "idle" => expired = {}
    /\ cancelled \cap (activeTimers \cup OnTheWay) \subseteq overtook
    /\ cancelled \cap expired \subseteq overtook \cup cancelingTimers
    /\ now >= -Wrap /\ \A t \in Timers : expiration[t] >= -Wrap

(* As long as the product in getNow does not wrap around, expirations are     *)
(* valid timestamps.                                                          *)
ClockInv ==
    /\ now \in Nat
    /\ \A t \in Timers : expiration[t] \in Nat /\ (t \in created => expiration[t] > 0)
    /\ ArmedInTime

NoWrap == 2 * (MaxTime + 1) < Wrap

-----------------------------------------------------------------------------
(* Queues                                                                     *)

LEMMA AppendHas ==
    ASSUME NEW S, NEW s \in Seq(S), NEW e \in S
    PROVE  /\ Append(s, e) \in Seq(S)
           /\ \A x : /\ In(Append(s, e), x) <=> In(s, x) \/ x = e
                     /\ AtMostOnce(s, x) /\ ~(x = e /\ In(s, x)) => AtMostOnce(Append(s, e), x)
  <1> DEFINE r == Append(s, e)
             m == Len(s)
  <1>1. /\ m \in Nat /\ Len(r) = m + 1 /\ r[m + 1] = e
        /\ \A i \in 1..m : r[i] = s[i]
        /\ \A i \in 1..(m + 1) : i \in 1..m \/ i = m + 1
    OBVIOUS
  <1> HIDE DEF r, m
  <1>2. ASSUME NEW x PROVE In(r, x) <=> In(s, x) \/ x = e
    BY <1>1 DEF In, m
  <1>3. ASSUME NEW x, AtMostOnce(s, x), ~(x = e /\ In(s, x)) PROVE AtMostOnce(r, x)
    BY <1>1, <1>3 DEF In, AtMostOnce, m
  <1>4. r \in Seq(S)
    BY DEF r
  <1> QED
    BY <1>2, <1>3, <1>4 DEF r

LEMMA TailHas ==
    ASSUME NEW S, NEW s \in Seq(S), s # << >>
    PROVE  /\ Head(s) \in S /\ In(s, Head(s)) /\ Tail(s) \in Seq(S)
           /\ \A x : /\ In(Tail(s), x) => In(s, x)
                     /\ AtMostOnce(s, x) => AtMostOnce(Tail(s), x)
                     /\ AtMostOnce(s, x) /\ x = Head(s) => ~In(Tail(s), x)
  <1> DEFINE r == Tail(s)
             m == Len(s)
             h == Head(s)
  <1>1. /\ m \in Nat \ {0} /\ h = s[1] /\ Len(r) = m - 1
        /\ \A i \in 1..(m - 1) : i + 1 \in 1..m /\ r[i] = s[i + 1]
    OBVIOUS
  <1>2. r \in Seq(S) /\ h \in S
    OBVIOUS
  <1> HIDE DEF r, m, h
  <1>3. In(s, h)
    BY <1>1 DEF In, m
  <1>4. ASSUME NEW x, In(r, x) PROVE In(s, x)
    BY <1>1, <1>4 DEF In, m
  <1>5. ASSUME NEW x, AtMostOnce(s, x) PROVE AtMostOnce(r, x)
    <2> SUFFICES ASSUME NEW i \in 1..(m - 1), NEW j \in 1..(m - 1), r[i] = x, r[j] = x
                 PROVE  i = j
      BY <1>1 DEF AtMostOnce
    <2>1. i + 1 = j + 1
      BY <1>1, <1>5 DEF AtMostOnce, m
    <2> QED
      BY <2>1
  <1>6. ASSUME AtMostOnce(s, h) PROVE ~In(r, h)
    <2> SUFFICES ASSUME NEW i \in 1..(m - 1), r[i] = h
                 PROVE  FALSE
      BY <1>1 DEF In
    <2>1. i + 1 = 1
      BY <1>1, <1>6 DEF AtMostOnce, m
    <2> QED
      BY <2>1
  <1> QED
    BY <1>2, <1>3, <1>4, <1>5, <1>6 DEF r, h

(* The timers whose addition waits in the queue q.                            *)
Way(q) == {q[i][2] : i \in {j \in DOMAIN q : q[j][1] = "add"}}

LEMMA WayIs ==
    ASSUME NEW q \in Seq(Calls), NEW t
    PROVE  t \in Way(q) <=> In(q, <<"add", t>>)
  <1>1. \A i \in 1..Len(q) : q[i] = <<q[i][1], q[i][2]>>
    BY DEF Calls
  <1>2. DOMAIN q = 1..Len(q)
    OBVIOUS
  <1> QED
    BY <1>1, <1>2 DEF Way, In

LEMMA WayAppend ==
    ASSUME NEW q \in Seq(Calls), NEW t \in Timers, NEW f \in {"add", "cancel"}
    PROVE  /\ Append(q, <<f, t>>) \in Seq(Calls)
           /\ Way(Append(q, <<f, t>>)) = IF f = "add" THEN Way(q) \cup {t} ELSE Way(q)
           /\ \A x : /\ In(Append(q, <<f, t>>), x) <=> In(q, x) \/ x = <<f, t>>
                     /\ AtMostOnce(q, x) /\ ~(x = <<f, t>> /\ In(q, x)) =>
                          AtMostOnce(Append(q, <<f, t>>), x)
  <1> DEFINE e == <<f, t>>
             r == Append(q, e)
  <1>1. e \in Calls
    BY DEF Calls
  <1>2. /\ r \in Seq(Calls)
        /\ \A x : /\ In(r, x) <=> In(q, x) \/ x = e
                  /\ AtMostOnce(q, x) /\ ~(x = e /\ In(q, x)) => AtMostOnce(r, x)
    <2> HIDE DEF e
    <2> QED
      BY <1>1, AppendHas
  <1>3. \A u : u \in Way(r) <=> In(r, <<"add", u>>)
    BY <1>2, WayIs
  <1>4. \A u : u \in Way(q) <=> In(q, <<"add", u>>)
    BY WayIs
  <1>5. \A u : <<"add", u>> = e <=> f = "add" /\ u = t
    OBVIOUS
  <1> HIDE DEF e, r
  <1>6. Way(r) = IF f = "add" THEN Way(q) \cup {t} ELSE Way(q)
    BY <1>2, <1>3, <1>4, <1>5
  <1> QED
    BY <1>2, <1>6 DEF e, r

LEMMA WayTail ==
    ASSUME NEW q \in Seq(Calls), q # << >>
    PROVE  /\ Tail(q) \in Seq(Calls) /\ Head(q) \in Calls /\ In(q, Head(q))
           /\ Way(Tail(q)) \subseteq Way(q)
           /\ Head(q)[1] = "add" => Way(q) = Way(Tail(q)) \cup {Head(q)[2]}
           /\ Head(q)[1] # "add" => Way(q) = Way(Tail(q))
           /\ AtMostOnce(q, Head(q)) /\ Head(q)[1] = "add" => Head(q)[2] \notin Way(Tail(q))
           /\ \A x : /\ In(Tail(q), x) => In(q, x)
                     /\ AtMostOnce(q, x) => AtMostOnce(Tail(q), x)
  <1> DEFINE r == Tail(q)
             h == Head(q)
  <1>1. /\ h \in Calls /\ In(q, h) /\ r \in Seq(Calls)
        /\ \A x : /\ In(r, x) => In(q, x)
                  /\ AtMostOnce(q, x) => AtMostOnce(r, x)
                  /\ AtMostOnce(q, x) /\ x = h => ~In(r, x)
    BY TailHas
  <1>2. \A x : In(q, x) => In(r, x) \/ x = h
    <2>1. /\ Len(q) \in Nat /\ Len(r) = Len(q) - 1 /\ h = q[1]
          /\ \A i \in 1..(Len(q) - 1) : r[i] = q[i + 1]
      OBVIOUS
    <2> HIDE DEF r, h
    <2>2. ASSUME NEW x, NEW i \in 1..Len(q), q[i] = x PROVE In(r, x) \/ x = h
      <3>1. CASE i = 1
        BY <2>1, <2>2, <3>1
      <3>2. CASE i # 1
        <4>1. i - 1 \in 1..(Len(q) - 1) /\ (i - 1) + 1 = i
          BY <2>1, <3>2
        <4>2. r[i - 1] = x
          BY <2>1, <2>2, <4>1
        <4> QED
          BY <2>1, <4>1, <4>2 DEF In
      <3> QED
        BY <3>1, <3>2
    <2> QED
      BY <2>2 DEF In
  <1>3. \A u : u \in Way(q) <=> In(q, <<"add", u>>)
    BY WayIs
  <1>4. \A u : u \in Way(r) <=> In(r, <<"add", u>>)
    BY <1>1, WayIs
  <1>5. h = <<h[1], h[2]>>
    BY <1>1 DEF Calls
  <1> HIDE DEF r, h
  <1>6. \A u : <<"add", u>> = h <=> h[1] = "add" /\ u = h[2]
    BY <1>5
  <1>7. /\ Way(r) \subseteq Way(q)
        /\ h[1] = "add" => Way(q) = Way(r) \cup {h[2]}
        /\ h[1] # "add" => Way(q) = Way(r)
        /\ AtMostOnce(q, h) /\ h[1] = "add" => h[2] \notin Way(r)
    BY <1>1, <1>2, <1>3, <1>4, <1>6
  <1> QED
    BY <1>1, <1>7 DEF r, h

-----------------------------------------------------------------------------
(* Time and the earliest timer                                                *)

LEMMA NowIs ==
    ASSUME clock \in 0..(MaxTime + 1)
    PROVE  GetNow \in Int /\ GetNow >= -Wrap /\ (NoWrap => GetNow = clock)
  <1> clock \in Nat /\ Wrap \in Nat \ {0} /\ MaxTime \in Nat /\ clock <= MaxTime + 1
    BY TimerAssumption
  <1>1. clock % Wrap \in 0..(Wrap - 1) /\ (clock < Wrap => clock % Wrap = clock)
    OBVIOUS
  <1>2. NoWrap => 2 * clock < Wrap /\ clock < Wrap
    BY DEF NoWrap
  <1> QED
    BY <1>1, <1>2 DEF GetNow

LEMMA EarliestIs ==
    ASSUME NEW S, S # {}, S \subseteq Int \X Timers, \A e \in S : e[1] >= -Wrap
    PROVE  Earliest(S) \in S /\ \A f \in S : Earliest(S)[1] <= f[1]
  <1> Wrap \in Nat
    BY TimerAssumption
  <1> DEFINE V == {e[1] + Wrap : e \in S}
  <1>1. V # {} /\ V \subseteq Nat
    OBVIOUS
  <1>2. IsWellFoundedOn(OpToRel(<, Nat), Nat)
    BY NatLessThanWellFounded
  <1> HIDE DEF V
  <1>3. PICK x \in V : \A y \in V : ~(<<y, x>> \in OpToRel(<, Nat))
    BY <1>1, <1>2, WFMin
  <1>4. \A a, b \in Nat : a < b => <<a, b>> \in OpToRel(<, Nat)
    BY Zenon DEF OpToRel
  <1>5. \A y \in V : ~(y < x)
    BY <1>1, <1>3, <1>4, Zenon
  <1>6. \A y \in V : x <= y
    BY <1>1, <1>5
  <1>7. PICK e \in S : x = e[1] + Wrap
    BY DEF V
  <1>8. \A f \in S : e[1] <= f[1]
    <2>1. \A f \in S : f[1] + Wrap \in V /\ f[1] \in Int
      BY DEF V
    <2> QED
      BY <1>6, <1>7, <2>1
  <1> QED
    BY <1>8 DEF Earliest


(* timers_ when t joins the active timers, and when it leaves them.           *)
Entries(e, A) == {<<e[t], t>> : t \in A}
Joins(e, f, A, t) == Entries(e, A) \cup {<<f[t], t>>} = Entries(f, A \cup {t})
Leaves(e, A, t) == Entries(e, A) \ {<<e[t], t>>} = Entries(e, A \ {t})

LEMMA EntriesJoin ==
    ASSUME NEW e, NEW f, NEW A, NEW t, \A u \in A : u # t => f[u] = e[u], t \notin A
    PROVE  Joins(e, f, A, t)
  BY DEF Entries, Joins

LEMMA EntriesLeave ==
    ASSUME NEW e, NEW A, NEW t
    PROVE  Leaves(e, A, t)
  BY DEF Entries, Leaves

LEMMA EntriesType ==
    ASSUME NEW e \in [Timers -> Int], NEW A, A \subseteq Timers, \A t \in Timers : e[t] >= -Wrap
    PROVE  /\ Entries(e, A) \subseteq Int \X Timers
           /\ \A x \in Entries(e, A) : x[1] >= -Wrap
           /\ Entries(e, A) # {} <=> A # {}
  <1>1. ASSUME NEW x \in Entries(e, A) PROVE x \in Int \X Timers /\ x[1] >= -Wrap
    <2>1. PICK t \in A : x = <<e[t], t>>
      BY <1>1 DEF Entries
    <2>2. t \in Timers /\ e[t] \in Int /\ e[t] >= -Wrap
      OBVIOUS
    <2> QED
      BY <2>1, <2>2
  <1>2. Entries(e, A) # {} <=> A # {}
    BY DEF Entries
  <1> QED
    BY <1>1, <1>2

-----------------------------------------------------------------------------
(* The steps: places and cancellations                                        *)

LEMMA TimerFacts ==
    ASSUME TimerInv
    PROVE  /\ TypeOK
           /\ timers = Entries(expiration, activeTimers)
           /\ created = OnTheWay \cup activeTimers \cup expired \cup freed
           /\ OnTheWay \cap (activeTimers \cup expired \cup freed) = {}
           /\ activeTimers \cap (expired \cup freed) = {}
           /\ expired \cap freed = {}
           /\ callingExpiredTimers <=> pc # "idle"
           /\ OnTheWay = Way(functors) /\ functors \in Seq(Calls)
  BY DEF TimerInv, PlacesInv, Entries, OnTheWay, Way, TypeOK, Calls

LEMMA ReportedStays ==
    ASSUME TimerInv, UNCHANGED batch PROVE reported' \in BOOLEAN
  BY TimerFacts, Zenon DEF batch, TypeOK

LEMMA InitHolds == Init => TimerInv
  <1> SUFFICES ASSUME Init PROVE TimerInv
    OBVIOUS
  <1> {MaxTimers, MaxTime, Wrap, Start} \subseteq Nat /\ Wrap > 0 /\ Start <= MaxTime
    BY TimerAssumption
  <1>1. TypeOK
    <2>1. clock \in 0..(MaxTime + 1) /\ armed \in Int /\ now \in Int
      BY DEF Init, Never
    <2>2. expiration \in [Timers -> Int] /\ interval \in [Timers -> Delays \cup {0}]
      BY DEF Init
    <2>3. functors \in Seq({"add", "cancel"} \X Timers)
      BY DEF Init
    <2>4. reported \in BOOLEAN
      BY DEF Init
    <2> QED
      BY <2>1, <2>2, <2>3, <2>4 DEF Init, TypeOK
  <1>2. OnTheWay = {} /\ Len(functors) = 0 /\ 1..0 = {}
    BY DEF Init, OnTheWay
  <1>3. created = 1..0
    BY DEF Init
  <1>4. \A t \in Timers : ~In(functors, <<"cancel", t>>) /\ AtMostOnce(functors, <<"add", t>>)
    BY <1>2 DEF In, AtMostOnce
  <1>5. PlacesInv
    BY <1>1, <1>2 DEF Init, PlacesInv
  <1>6. now >= -Wrap /\ \A t \in Timers : expiration[t] >= -Wrap
    BY DEF Init
  <1>7. \E n \in 0..MaxTimers : created = 1..n
    BY <1>3
  <1> QED
    BY <1>2, <1>4, <1>5, <1>6, <1>7 DEF Init, TimerInv

LEMMA AddedKeeps ==
    ASSUME TimerInv, NEW t \in Timers, NEW when \in Int, when >= -Wrap, AddTimerInLoop(t, when),
           expiration' \in [Timers -> Int], expiration'[t] = when,
           \A u \in Timers : u # t => expiration'[u] = expiration[u],
           interval' \in [Timers -> Delays \cup {0}],
           t \notin activeTimers \cup expired \cup freed,
           created' = created \cup {t}, \E n \in 0..MaxTimers : created' = 1..n,
           functors' \in Seq(Calls), t \notin Way(functors'),
           Way(functors') \cup {t} = Way(functors) \cup {t},
           t \in cancelled => t \in overtook,
           \A u \in Timers : /\ AtMostOnce(functors', <<"add", u>>)
                             /\ In(functors', <<"cancel", u>>) => In(functors, <<"cancel", u>>),
           UNCHANGED <<clock, batch, cancelingTimers, pc, freed, history>>
    PROVE  TimerInv'
  <1>1. OnTheWay' = Way(functors')
    BY DEF OnTheWay, Way
  <1>2. /\ timers' = timers \cup {<<when, t>>} /\ activeTimers' = activeTimers \cup {t}
        /\ armed' \in {ResetTimerFd(when), armed}
        /\ UNCHANGED <<expired, toRun, callingExpiredTimers, now, ran, cancelled, overtook>>
    BY Zenon DEF AddTimerInLoop, batch, history
  <1>3. ResetTimerFd(when) \in Int
    <2>1. clock \in Int /\ GetNow \in Int
      BY NowIs, TimerFacts, TimerAssumption DEF TypeOK
    <2> QED
      BY <2>1 DEF ResetTimerFd
  <1>4. \A u \in Timers : expiration'[u] >= -Wrap
    BY DEF TimerInv
  <1>5. activeTimers' \subseteq Timers
    BY <1>2, TimerFacts DEF TypeOK
  <1>6. timers' = Entries(expiration', activeTimers')
    <2>1. \A u \in activeTimers : u # t => expiration'[u] = expiration[u]
      BY TimerFacts DEF TypeOK
    <2>2. Entries(expiration, activeTimers) \cup {<<expiration'[t], t>>}
            = Entries(expiration', activeTimers \cup {t})
      <3>1. Joins(expiration, expiration', activeTimers, t)
        BY <2>1, EntriesJoin
      <3> QED
        BY <3>1 DEF Joins
    <2> QED
      BY <1>2, <2>2, TimerFacts
  <1>7. TypeOK'
    <2>1. timers' \subseteq Int \X Timers
      BY <1>4, <1>5, <1>6, EntriesType
    <2>2. created' \subseteq Timers /\ armed' \in Int /\ freed' \subseteq created'
          /\ ran' \subseteq created' /\ cancelled' \subseteq created'
      BY <1>2, <1>3, TimerFacts DEF TypeOK
    <2>3. reported' \in BOOLEAN
      BY ReportedStays
    <2> QED
      BY <1>2, <1>5, <2>1, <2>2, <2>3, TimerFacts DEF TypeOK, Calls
  <1>8. PlacesInv'
    BY <1>1, <1>2, <1>6, <1>7, TimerFacts DEF PlacesInv, Entries
  <1>9. /\ (cancelled \cap (activeTimers \cup OnTheWay) \subseteq overtook)'
        /\ (cancelled \cap expired \subseteq overtook \cup cancelingTimers)'
        /\ (pc = "idle" => expired = {})'
        /\ now' >= -Wrap
    BY <1>1, <1>2, TimerFacts DEF TimerInv
  <1>10. \A u \in Timers : In(functors', <<"cancel", u>>) => u \in created'
    BY DEF TimerInv
  <1> QED
    BY <1>4, <1>8, <1>9, <1>10 DEF TimerInv

LEMMA CancelledKeeps ==
    ASSUME TimerInv, NEW t \in created, CancelInLoop(t),
           functors' \in Seq(Calls), Way(functors') = Way(functors),
           \A u \in Timers : /\ AtMostOnce(functors', <<"add", u>>)
                             /\ In(functors', <<"cancel", u>>) => In(functors, <<"cancel", u>>),
           UNCHANGED <<clock, armed, expiration, interval, batch, pc, created>>
    PROVE  TimerInv'
  <1>1. OnTheWay' = OnTheWay
    BY TimerFacts DEF OnTheWay, Way
  <1>2. /\ cancelled' = cancelled \cup {t} /\ ran' = ran
        /\ overtook' = IF t \in OnTheWay THEN overtook \cup {t} ELSE overtook
        /\ UNCHANGED <<expired, toRun, callingExpiredTimers, now>>
    BY DEF CancelInLoop, RecordCancel, batch
  <1>3. CASE t \in activeTimers
    <2>1. /\ timers' = timers \ {<<expiration[t], t>>} /\ activeTimers' = activeTimers \ {t}
          /\ freed' = freed \cup {t} /\ cancelingTimers' = cancelingTimers
      BY <1>3 DEF CancelInLoop
    <2>2. timers' = Entries(expiration', activeTimers')
      <3>1. Entries(expiration, activeTimers) \ {<<expiration[t], t>>}
              = Entries(expiration, activeTimers \ {t})
        <4>1. Leaves(expiration, activeTimers, t)
          BY EntriesLeave
        <4> QED
          BY <4>1 DEF Leaves
      <3> QED
        BY <2>1, <3>1, TimerFacts
    <2>3. t \notin OnTheWay /\ t \notin expired
      BY <1>3, TimerFacts
    <2>4. TypeOK'
      BY <1>2, <2>1, ReportedStays, TimerFacts DEF TypeOK, Calls
    <2>5. PlacesInv'
      BY <1>1, <1>2, <1>3, <2>1, <2>2, <2>3, <2>4, TimerFacts DEF PlacesInv, Entries
    <2>6. /\ (cancelled \cap (activeTimers \cup OnTheWay) \subseteq overtook)'
          /\ (cancelled \cap expired \subseteq overtook \cup cancelingTimers)'
      BY <1>1, <1>2, <2>1, <2>3 DEF TimerInv
    <2> QED
      BY <1>2, <2>5, <2>6 DEF TimerInv
  <1>4. CASE t \notin activeTimers
    <2>1. /\ cancelingTimers' = IF callingExpiredTimers THEN cancelingTimers \cup {t}
                                ELSE cancelingTimers
          /\ UNCHANGED <<timers, activeTimers, freed>>
      BY <1>4 DEF CancelInLoop
    <2>2. TypeOK'
      BY <1>2, <2>1, ReportedStays, TimerFacts DEF TypeOK, Calls
    <2>3. PlacesInv'
      BY <1>1, <1>2, <2>1, <2>2, TimerFacts DEF PlacesInv, Entries
    <2>4. (cancelled \cap (activeTimers \cup OnTheWay) \subseteq overtook)'
      BY <1>1, <1>2, <1>4, <2>1 DEF TimerInv
    <2>5. (cancelled \cap expired \subseteq overtook \cup cancelingTimers)'
      <3>1. t \in expired => callingExpiredTimers
        BY TimerFacts DEF TimerInv
      <3> QED
        BY <1>2, <2>1, <3>1 DEF TimerInv
    <2> QED
      BY <1>2, <2>3, <2>4, <2>5 DEF TimerInv
  <1> QED
    BY <1>3, <1>4


LEMMA CreateGives ==
    ASSUME TimerInv, NEW t \in Timers, NEW delay \in Delays, NEW every \in Delays \cup {0},
           Create(t, delay, every)
    PROVE  /\ t \notin created /\ created' = created \cup {t}
           /\ \E n \in 0..MaxTimers : created' = 1..n
           /\ After(delay) \in Int /\ After(delay) >= -Wrap
           /\ expiration' \in [Timers -> Int] /\ expiration'[t] = After(delay)
           /\ \A u \in Timers : u # t => expiration'[u] = expiration[u]
           /\ interval' \in [Timers -> Delays \cup {0}]
  <1> MaxTimers \in Nat /\ Wrap \in Nat /\ MaxTime \in Nat /\ delay \in Nat
    BY TimerAssumption
  <1>1. PICK n \in 0..MaxTimers : created = 1..n
    BY DEF TimerInv
  <1>2. Cardinality(created) = n
    BY <1>1, FS_Interval
  <1>3. t = n + 1 /\ created' = created \cup {t}
    BY <1>2 DEF Create
  <1>4. n + 1 \in 0..MaxTimers /\ created' = 1..(n + 1) /\ t \notin created
    BY <1>1, <1>3 DEF Timers
  <1>5. After(delay) \in Int /\ After(delay) >= -Wrap
    <2>1. GetNow \in Int /\ GetNow >= -Wrap
      BY NowIs, TimerFacts DEF TypeOK
    <2> QED
      BY <2>1 DEF After
  <1>6. /\ expiration' = [expiration EXCEPT ![t] = After(delay)]
        /\ interval' = [interval EXCEPT ![t] = every]
        /\ expiration \in [Timers -> Int] /\ interval \in [Timers -> Delays \cup {0}]
    BY TimerFacts DEF Create, TypeOK
  <1>7. /\ expiration' \in [Timers -> Int] /\ expiration'[t] = After(delay)
        /\ \A u \in Timers : u # t => expiration'[u] = expiration[u]
    BY <1>5, <1>6
  <1>8. interval' \in [Timers -> Delays \cup {0}]
    BY <1>6
  <1> QED
    BY <1>3, <1>4, <1>5, <1>7, <1>8

LEMMA AddTimerKeeps ==
    ASSUME TimerInv, NEW t \in Timers, NEW delay \in Delays, NEW every \in Delays \cup {0},
           AddTimer(t, delay, every)
    PROVE  TimerInv'
  <1> DEFINE when == After(delay)
  <1>1. /\ Create(t, delay, every) /\ AddTimerInLoop(t, when)
        /\ UNCHANGED <<clock, batch, cancelingTimers, pc, functors, freed, history>>
    BY DEF AddTimer
  <1>2. /\ t \notin created /\ created' = created \cup {t}
        /\ \E n \in 0..MaxTimers : created' = 1..n
        /\ when \in Int /\ when >= -Wrap
        /\ expiration' \in [Timers -> Int] /\ expiration'[t] = when
        /\ \A u \in Timers : u # t => expiration'[u] = expiration[u]
        /\ interval' \in [Timers -> Delays \cup {0}]
    BY <1>1, CreateGives
  <1> HIDE DEF when
  <1>3. t \notin activeTimers \cup expired \cup freed /\ t \notin Way(functors) /\ t \notin cancelled
    BY <1>2, TimerFacts DEF TypeOK
  <1>4. /\ functors' = functors /\ functors \in Seq(Calls)
        /\ \A u \in Timers : AtMostOnce(functors, <<"add", u>>)
    BY <1>1, TimerFacts DEF TimerInv
  <1>5. /\ functors' \in Seq(Calls) /\ t \notin Way(functors')
        /\ Way(functors') \cup {t} = Way(functors) \cup {t}
        /\ \A u \in Timers : /\ AtMostOnce(functors', <<"add", u>>)
                             /\ In(functors', <<"cancel", u>>) => In(functors, <<"cancel", u>>)
    BY <1>3, <1>4
  <1> QED
    BY <1>1, <1>2, <1>3, <1>5, AddedKeeps

LEMMA CancelKeeps ==
    ASSUME TimerInv, NEW t \in Timers, Cancel(t)
    PROVE  TimerInv'
  <1>1. /\ t \in created /\ CancelInLoop(t)
        /\ UNCHANGED <<clock, armed, expiration, interval, batch, pc, functors, created>>
    BY DEF Cancel
  <1>2. functors \in Seq(Calls) /\ \A u \in Timers : AtMostOnce(functors, <<"add", u>>)
    BY TimerFacts DEF TimerInv
  <1> QED
    BY <1>1, <1>2, CancelledKeeps

(* Steps that leave the places of the timers alone, except for the queue.     *)
LEMMA ForeignAddKeeps ==
    ASSUME TimerInv, NEW t \in Timers, NEW delay \in Delays, NEW every \in Delays \cup {0},
           ForeignAddTimer(t, delay, every)
    PROVE  TimerInv'
  <1>1. /\ Create(t, delay, every) /\ functors' = Append(functors, <<"add", t>>)
        /\ UNCHANGED <<clock, armed, timers, activeTimers, batch, cancelingTimers, pc,
                       freed, history>>
        /\ UNCHANGED <<expired, toRun, callingExpiredTimers, now, ran, cancelled, overtook>>
    BY DEF ForeignAddTimer, batch, history
  <1>2. /\ t \notin created /\ created' = created \cup {t}
        /\ \E n \in 0..MaxTimers : created' = 1..n
        /\ After(delay) \in Int /\ After(delay) >= -Wrap
        /\ expiration' \in [Timers -> Int] /\ expiration'[t] = After(delay)
        /\ \A u \in Timers : u # t => expiration'[u] = expiration[u]
        /\ interval' \in [Timers -> Delays \cup {0}]
    BY <1>1, CreateGives
  <1>3. t \notin activeTimers \cup expired \cup freed /\ t \notin Way(functors) /\ t \notin cancelled
    BY <1>2, TimerFacts DEF TypeOK
  <1>4. /\ functors' \in Seq(Calls) /\ Way(functors') = Way(functors) \cup {t}
        /\ \A x : /\ In(functors', x) <=> In(functors, x) \/ x = <<"add", t>>
                  /\ AtMostOnce(functors, x) /\ ~(x = <<"add", t>> /\ In(functors, x)) =>
                       AtMostOnce(functors', x)
    BY <1>1, TimerFacts, WayAppend
  <1>5. ~In(functors, <<"add", t>>)
    BY <1>3, TimerFacts, WayIs
  <1>6. OnTheWay' = Way(functors')
    BY DEF OnTheWay, Way
  <1>7. \A u \in Timers : expiration'[u] >= -Wrap
    BY <1>2 DEF TimerInv
  <1>8. timers' = Entries(expiration', activeTimers')
    <2>1. \A u \in activeTimers : expiration'[u] = expiration[u]
      BY <1>2, <1>3, TimerFacts DEF TypeOK
    <2>2. Entries(expiration', activeTimers) = Entries(expiration, activeTimers)
      BY <2>1 DEF Entries
    <2> QED
      BY <1>1, <2>2, TimerFacts
  <1>9. TypeOK'
    <2>1. created' \subseteq Timers
      BY <1>2, TimerFacts DEF TypeOK
    <2>2. reported' \in BOOLEAN
      BY <1>1, ReportedStays
    <2> QED
      BY <1>1, <1>2, <1>4, <2>1, <2>2, TimerFacts DEF TypeOK, Calls
  <1>10. PlacesInv'
    BY <1>1, <1>2, <1>3, <1>4, <1>6, <1>8, <1>9, TimerFacts DEF PlacesInv, Entries
  <1>11. /\ (cancelled \cap (activeTimers \cup OnTheWay) \subseteq overtook)'
         /\ (cancelled \cap expired \subseteq overtook \cup cancelingTimers)'
         /\ (pc = "idle" => expired = {})'
         /\ now' >= -Wrap
    BY <1>1, <1>3, <1>4, <1>6, TimerFacts DEF TimerInv
  <1>12. \A u \in Timers : /\ AtMostOnce(functors', <<"add", u>>)
                           /\ In(functors', <<"cancel", u>>) => u \in created'
    BY <1>2, <1>4, <1>5 DEF TimerInv
  <1> QED
    BY <1>2, <1>7, <1>10, <1>11, <1>12 DEF TimerInv


LEMMA ForeignCancelKeeps ==
    ASSUME TimerInv, NEW t \in Timers, ForeignCancel(t)
    PROVE  TimerInv'
  <1>1. /\ t \in created /\ functors' = Append(functors, <<"cancel", t>>)
        /\ UNCHANGED <<clock, armed, expiration, interval, timers, activeTimers, batch,
                       cancelingTimers, pc, created, freed, history>>
        /\ UNCHANGED <<expired, toRun, callingExpiredTimers, now, ran, cancelled, overtook>>
    BY DEF ForeignCancel, batch, history
  <1>2. /\ functors' \in Seq(Calls) /\ Way(functors') = Way(functors)
        /\ \A x : /\ In(functors', x) <=> In(functors, x) \/ x = <<"cancel", t>>
                  /\ AtMostOnce(functors, x) /\ ~(x = <<"cancel", t>> /\ In(functors, x)) =>
                       AtMostOnce(functors', x)
    BY <1>1, TimerFacts, WayAppend
  <1>3. OnTheWay' = OnTheWay
    BY <1>2, TimerFacts DEF OnTheWay, Way
  <1>4. TypeOK'
    <2>1. reported' \in BOOLEAN
      BY <1>1, ReportedStays
    <2> QED
      BY <1>1, <1>2, <2>1, TimerFacts DEF TypeOK, Calls
  <1>5. PlacesInv'
    BY <1>1, <1>3, <1>4, TimerFacts DEF PlacesInv, Entries
  <1>6. \A u \in Timers : /\ AtMostOnce(functors', <<"add", u>>)
                          /\ In(functors', <<"cancel", u>>) => u \in created'
    BY <1>1, <1>2 DEF TimerInv
  <1> QED
    BY <1>1, <1>3, <1>5, <1>6 DEF TimerInv

LEMMA RunFunctorKeeps ==
    ASSUME TimerInv, RunFunctor PROVE TimerInv'
  <1> DEFINE h == Head(functors)
             t == h[2]
  <1>1. /\ functors # << >> /\ functors' = Tail(functors)
        /\ \/ h[1] = "add" /\ AddTimerInLoop(t, expiration[t])
              /\ UNCHANGED <<cancelingTimers, freed, history>>
           \/ h[1] = "cancel" /\ CancelInLoop(t) /\ UNCHANGED armed
        /\ UNCHANGED <<clock, expiration, interval, batch, pc, created>>
    BY Zenon DEF RunFunctor
  <1>2. /\ functors' \in Seq(Calls) /\ h \in Calls /\ In(functors, h)
        /\ Way(functors') \subseteq Way(functors)
        /\ h[1] = "add" => Way(functors) = Way(functors') \cup {t}
        /\ h[1] # "add" => Way(functors) = Way(functors')
        /\ AtMostOnce(functors, h) /\ h[1] = "add" => t \notin Way(functors')
        /\ \A x : /\ In(functors', x) => In(functors, x)
                  /\ AtMostOnce(functors, x) => AtMostOnce(functors', x)
    BY <1>1, TimerFacts, WayTail
  <1>3. t \in Timers /\ h = <<h[1], t>>
    BY <1>2 DEF Calls
  <1> HIDE DEF h, t
  <1>4. \A u \in Timers : /\ AtMostOnce(functors', <<"add", u>>)
                          /\ In(functors', <<"cancel", u>>) => In(functors, <<"cancel", u>>)
    BY <1>2 DEF TimerInv
  <1>5. CASE h[1] = "add" /\ AddTimerInLoop(t, expiration[t])
             /\ UNCHANGED <<cancelingTimers, freed, history>>
    <2> DEFINE when == expiration[t]
    <2>1. when \in Int /\ when >= -Wrap /\ expiration' \in [Timers -> Int] /\ expiration'[t] = when
          /\ (\A u \in Timers : u # t => expiration'[u] = expiration[u])
          /\ interval' \in [Timers -> Delays \cup {0}]
      BY <1>1, <1>3, TimerFacts DEF TimerInv, TypeOK
    <2>2. AtMostOnce(functors, h)
      BY <1>3, <1>5 DEF TimerInv
    <2>3. /\ t \in Way(functors) /\ t \notin Way(functors')
          /\ Way(functors') \cup {t} = Way(functors) \cup {t}
      BY <1>2, <1>5, <2>2
    <2>4. t \notin activeTimers \cup expired \cup freed
      BY <2>3, TimerFacts
    <2>5. t \in cancelled => t \in overtook
      BY <2>3, TimerFacts DEF TimerInv
    <2>6. created' = created \cup {t} /\ \E n \in 0..MaxTimers : created' = 1..n
      BY <1>1, <2>3, TimerFacts DEF TimerInv
    <2>7. AddTimerInLoop(t, when)
      BY <1>5
    <2> HIDE DEF when
    <2> QED
      BY <1>1, <1>2, <1>3, <1>4, <1>5, <2>1, <2>3, <2>4, <2>5, <2>6, <2>7, AddedKeeps
  <1>6. CASE h[1] = "cancel" /\ CancelInLoop(t) /\ UNCHANGED armed
    <2>1. t \in created
      BY <1>2, <1>3, <1>6 DEF TimerInv
    <2>2. Way(functors') = Way(functors)
      BY <1>2, <1>6
    <2> QED
      BY <1>1, <1>2, <1>4, <1>6, <2>1, <2>2, CancelledKeeps
  <1> QED
    BY <1>1, <1>5, <1>6

LEMMA GetExpiredKeeps ==
    ASSUME TimerInv, GetExpired PROVE TimerInv'
  <1> DEFINE due  == {e \in timers : IsExpired(e[1])}
             gone == {e[2] : e \in due}
  <1>1. /\ pc = "idle" /\ armed' \in {armed, Never} /\ reported' = FALSE /\ now' = GetNow
        /\ timers' = timers \ due /\ activeTimers' = activeTimers \ gone
        /\ expired' = gone /\ toRun' = gone
        /\ callingExpiredTimers' = TRUE /\ cancelingTimers' = {} /\ pc' = "expired"
        /\ UNCHANGED <<clock, expiration, interval, functors, created, freed, ran, cancelled,
                       overtook>>
    BY Zenon DEF GetExpired, history
  <1>2. now' \in Int /\ now' >= -Wrap
    BY <1>1, NowIs, TimerFacts DEF TypeOK
  <1>3. timers = Entries(expiration, activeTimers) /\ activeTimers \subseteq Timers
    BY TimerFacts DEF TypeOK
  <1>4. /\ gone \subseteq activeTimers
        /\ \A u \in activeTimers : u \in gone <=> <<expiration[u], u>> \in due
    BY <1>3 DEF Entries
  <1> HIDE DEF gone
  <1>5. timers' = Entries(expiration', activeTimers')
    <2>1. \A x : x \in timers' <=> x \in Entries(expiration', activeTimers')
      <3>1. ASSUME NEW x \in timers' PROVE x \in Entries(expiration', activeTimers')
        <4>1. PICK u \in activeTimers : x = <<expiration[u], u>>
          BY <1>1, <1>3 DEF Entries
        <4>2. u \notin gone
          BY <1>1, <1>4, <4>1
        <4> QED
          BY <1>1, <4>1, <4>2 DEF Entries
      <3>2. ASSUME NEW x \in Entries(expiration', activeTimers') PROVE x \in timers'
        <4>1. PICK u \in activeTimers \ gone : x = <<expiration[u], u>>
          BY <1>1, <3>2 DEF Entries
        <4>2. x \in timers /\ x \notin due
          BY <1>3, <1>4, <4>1 DEF Entries
        <4> QED
          BY <1>1, <4>2
      <3> QED
        BY <3>1, <3>2
    <2> QED
      BY <2>1
  <1> HIDE DEF due
  <1>6. OnTheWay' = OnTheWay
    BY <1>1 DEF OnTheWay
  <1>7. expired = {}
    BY <1>1 DEF TimerInv
  <1>8. TypeOK'
    <2>1. armed' \in Int
      BY <1>1, TimerFacts DEF TypeOK, Never
    <2>2. reported' \in BOOLEAN
      <3>1. reported' = FALSE
        BY <1>1
      <3> QED
        BY <3>1
    <2> QED
      BY <1>1, <1>2, <1>4, <2>1, <2>2, TimerFacts DEF TypeOK
  <1>9. PlacesInv'
    BY <1>1, <1>4, <1>5, <1>6, <1>7, <1>8, TimerFacts DEF PlacesInv, Entries
  <1>10. /\ (cancelled \cap (activeTimers \cup OnTheWay) \subseteq overtook)'
         /\ (cancelled \cap expired \subseteq overtook \cup cancelingTimers)'
    BY <1>1, <1>4, <1>6 DEF TimerInv
  <1> QED
    BY <1>1, <1>2, <1>9, <1>10 DEF TimerInv

LEMMA RunStepsKeep ==
    ASSUME TimerInv, Poll \/ (\E t \in Timers : RunCallback(t)) \/ CallbackReturns \/ Tick
    PROVE  TimerInv'
  <1> MaxTime \in Nat
    BY TimerAssumption
  <1>1. UNCHANGED <<armed, expiration, interval, timers, activeTimers, expired,
                    callingExpiredTimers, cancelingTimers, now, functors, created, freed,
                    cancelled, overtook>>
    BY DEF Poll, RunCallback, CallbackReturns, Tick, batch, history
  <1>2. /\ pc' = pc \/ (pc # "idle" /\ pc' \in {"expired", "callback"})
        /\ toRun' \subseteq toRun /\ clock' \in {clock, clock + 1}
    BY DEF Poll, RunCallback, CallbackReturns, Tick, batch
  <1>3. ran' \subseteq created
    BY TimerFacts DEF Poll, RunCallback, CallbackReturns, Tick, batch, history, TypeOK
  <1>4. clock' \in 0..(MaxTime + 1)
    <2>1. clock \in 0..(MaxTime + 1)
      BY TimerFacts DEF TypeOK
    <2>2. clock' = clock \/ (clock <= MaxTime /\ clock' = clock + 1)
      BY <2>1 DEF Poll, RunCallback, CallbackReturns, Tick
    <2> QED
      BY <2>1, <2>2
  <1>5. OnTheWay' = OnTheWay
    BY <1>1 DEF OnTheWay
  <1>6. TypeOK'
    <2>1. reported' \in BOOLEAN
      BY TimerFacts DEF Poll, RunCallback, CallbackReturns, Tick, batch, TypeOK
    <2> QED
      BY <1>1, <1>2, <1>3, <1>4, <2>1, TimerFacts DEF TypeOK
  <1>7. PlacesInv'
    BY <1>1, <1>2, <1>5, <1>6, TimerFacts DEF PlacesInv, Entries
  <1> QED
    BY <1>1, <1>2, <1>5, <1>7 DEF TimerInv

(* What waits after reset: the timers that start again join the others.       *)
LEMMA ResetEffect ==
    ASSUME TimerInv, Reset
    PROVE  LET again == {t \in expired : Restarts(t)} IN
           /\ pc = "expired" /\ toRun = {}
           /\ expiration' \in [Timers -> Int]
           /\ \A t \in Timers : expiration'[t] = IF t \in again THEN now + interval[t]
                                                 ELSE expiration[t]
           /\ \A t \in Timers : expiration'[t] >= -Wrap
           /\ timers' = Entries(expiration', activeTimers')
           /\ timers' \subseteq Int \X Timers /\ \A x \in timers' : x[1] >= -Wrap
           /\ activeTimers' = activeTimers \cup again /\ activeTimers' \subseteq Timers
           /\ freed' = freed \cup (expired \ again)
           /\ armed' = IF timers' # {} /\ IsValid(Earliest(timers')[1])
                       THEN ResetTimerFd(Earliest(timers')[1]) ELSE armed
           /\ expired' = {} /\ now' = 0 /\ callingExpiredTimers' = FALSE /\ pc' = "idle"
           /\ UNCHANGED <<clock, reported, interval, toRun, cancelingTimers, functors, created,
                          ran, cancelled, overtook>>
  <1> DEFINE again == {t \in expired : Restarts(t)}
             fresh == [t \in Timers |-> IF t \in again THEN now + interval[t] ELSE expiration[t]]
  <1>1. /\ pc = "expired" /\ toRun = {}
        /\ expiration' = fresh
        /\ timers' = timers \cup {<<now + interval[t], t>> : t \in again}
        /\ activeTimers' = activeTimers \cup again
        /\ freed' = freed \cup (expired \ again)
        /\ armed' = IF timers' # {} /\ IsValid(Earliest(timers')[1])
                    THEN ResetTimerFd(Earliest(timers')[1]) ELSE armed
        /\ expired' = {} /\ now' = 0 /\ callingExpiredTimers' = FALSE /\ pc' = "idle"
        /\ UNCHANGED <<clock, reported, interval, toRun, cancelingTimers, functors, created,
                       ran, cancelled, overtook>>
    BY Zenon DEF Reset, history
  <1>2. again \subseteq expired /\ expired \subseteq Timers /\ activeTimers \subseteq Timers
        /\ activeTimers \cap again = {} /\ Wrap \in Nat
        /\ now \in Int /\ now >= -Wrap /\ interval \in [Timers -> Delays \cup {0}]
        /\ expiration \in [Timers -> Int] /\ \A t \in Timers : expiration[t] >= -Wrap
        /\ Delays \subseteq Nat
    BY TimerFacts, TimerAssumption DEF TimerInv, TypeOK
  <1> HIDE DEF again
  <1>3. /\ fresh \in [Timers -> Int]
        /\ \A t \in Timers : fresh[t] = IF t \in again THEN now + interval[t] ELSE expiration[t]
        /\ \A t \in Timers : fresh[t] >= -Wrap
    <2>1. \A t \in Timers : interval[t] \in Nat
      BY <1>2
    <2>2. \A t \in Timers : now + interval[t] \in Int /\ now + interval[t] >= -Wrap
      BY <1>2, <2>1
    <2> QED
      BY <1>2, <2>2
  <1> HIDE DEF fresh
  <1>4. timers' = Entries(fresh, activeTimers')
    <2>1. {<<now + interval[t], t>> : t \in again} = Entries(fresh, again)
      BY <1>2, <1>3 DEF Entries
    <2>2. \A u \in activeTimers : fresh[u] = expiration[u]
      BY <1>2, <1>3
    <2>3. Entries(expiration, activeTimers) \cup Entries(fresh, again)
             = Entries(fresh, activeTimers \cup again)
      BY <1>2, <2>2 DEF Entries
    <2> QED
      BY <1>1, <2>1, <2>3, TimerFacts
  <1>5. activeTimers' \subseteq Timers
    BY <1>1, <1>2
  <1>6. Entries(fresh, activeTimers') \subseteq Int \X Timers
        /\ \A x \in Entries(fresh, activeTimers') : x[1] >= -Wrap
    BY <1>3, <1>5, EntriesType
  <1> QED
    BY <1>1, <1>3, <1>4, <1>5, <1>6, Zenon DEF again

LEMMA ResetKeeps ==
    ASSUME TimerInv, Reset PROVE TimerInv'
  <1> DEFINE again == {t \in expired : Restarts(t)}
  <1>1. /\ pc = "expired" /\ toRun = {}
        /\ expiration' \in [Timers -> Int]
        /\ \A t \in Timers : expiration'[t] >= -Wrap
        /\ timers' = Entries(expiration', activeTimers')
        /\ timers' \subseteq Int \X Timers /\ \A x \in timers' : x[1] >= -Wrap
        /\ activeTimers' = activeTimers \cup again /\ activeTimers' \subseteq Timers
        /\ freed' = freed \cup (expired \ again)
        /\ armed' = IF timers' # {} /\ IsValid(Earliest(timers')[1])
                    THEN ResetTimerFd(Earliest(timers')[1]) ELSE armed
        /\ expired' = {} /\ now' = 0 /\ callingExpiredTimers' = FALSE /\ pc' = "idle"
        /\ UNCHANGED <<clock, reported, interval, toRun, cancelingTimers, functors, created,
                       ran, cancelled, overtook>>
    BY ResetEffect, Zenon
  <1>2. again \subseteq expired /\ again \cap cancelingTimers = {}
    BY DEF Restarts
  <1> HIDE DEF again
  <1>3. armed' \in Int
    <2>1. armed \in Int /\ clock \in Int /\ GetNow \in Int
      BY NowIs, TimerFacts, TimerAssumption DEF TypeOK
    <2>2. timers' # {} => Earliest(timers')[1] \in Int
      <3>1. timers' # {} => Earliest(timers') \in timers'
        BY <1>1, EarliestIs
      <3>2. \A x \in timers' : x[1] \in Int
        BY <1>1
      <3> QED
        BY <3>1, <3>2
    <2>3. timers' # {} => ResetTimerFd(Earliest(timers')[1]) \in Int
      BY <2>1, <2>2 DEF ResetTimerFd
    <2> QED
      BY <1>1, <2>1, <2>3
  <1>4. OnTheWay' = OnTheWay
    BY <1>1 DEF OnTheWay
  <1>5. TypeOK'
    <2>1. /\ freed' \subseteq created' /\ now' \in Int /\ pc' \in {"idle", "expired", "callback"}
          /\ callingExpiredTimers' \in BOOLEAN /\ expired' \subseteq Timers /\ toRun' \subseteq expired'
      <3>1. freed' \subseteq created'
        BY <1>1, TimerFacts
      <3>2. expired' \subseteq Timers /\ toRun' \subseteq expired'
        BY <1>1
      <3>3. now' \in Int
        BY <1>1
      <3> QED
        BY <1>1, <3>1, <3>2, <3>3, Zenon
    <2>2. /\ clock' \in 0..(MaxTime + 1) /\ interval' \in [Timers -> Delays \cup {0}]
          /\ reported' \in BOOLEAN
          /\ cancelingTimers' \subseteq Timers /\ functors' \in Seq({"add", "cancel"} \X Timers)
          /\ created' \subseteq Timers
          /\ ran' \subseteq created' /\ cancelled' \subseteq created' /\ overtook' \subseteq cancelled'
      BY <1>1, TimerFacts DEF TypeOK
    <2> QED
      BY <1>1, <1>3, <2>1, <2>2, Zenon DEF TypeOK
  <1>6. PlacesInv'
    BY <1>1, <1>2, <1>4, <1>5, TimerFacts DEF PlacesInv, Entries
  <1>7. (cancelled \cap (activeTimers \cup OnTheWay) \subseteq overtook)'
    BY <1>1, <1>2, <1>4 DEF TimerInv
  <1>8. 0 >= -Wrap
    BY TimerAssumption
  <1> QED
    BY <1>1, <1>6, <1>7, <1>8 DEF TimerInv


LEMMA TimerInvStep ==
    ASSUME TimerInv, [Next]_vars PROVE TimerInv'
  <1>1. CASE UNCHANGED vars
    <2>1. UNCHANGED <<clock, armed, reported, expiration, interval, timers, activeTimers,
                      expired, toRun, callingExpiredTimers, cancelingTimers, now, pc,
                      functors, created, freed, ran, cancelled, overtook>>
      BY <1>1 DEF vars, history
    <2>2. OnTheWay' = OnTheWay
      BY <2>1 DEF OnTheWay
    <2>3. TypeOK'
      BY <2>1, TimerFacts DEF TypeOK
    <2>4. PlacesInv'
      BY <2>1, <2>2, <2>3, TimerFacts DEF PlacesInv, Entries
    <2> QED
      BY <2>1, <2>2, <2>4 DEF TimerInv
  <1>2. ASSUME NEW t \in Timers, NEW delay \in Delays, NEW every \in Delays \cup {0},
               AddTimer(t, delay, every) \/ ForeignAddTimer(t, delay, every)
        PROVE  TimerInv'
    BY <1>2, AddTimerKeeps, ForeignAddKeeps
  <1>3. ASSUME NEW t \in Timers, Cancel(t) \/ ForeignCancel(t) PROVE TimerInv'
    BY <1>3, CancelKeeps, ForeignCancelKeeps
  <1>4. CASE RunFunctor
    BY <1>4, RunFunctorKeeps
  <1>5. CASE GetExpired
    BY <1>5, GetExpiredKeeps
  <1>6. CASE Poll \/ (\E t \in Timers : RunCallback(t)) \/ CallbackReturns \/ Tick
    BY <1>6, RunStepsKeep
  <1>7. CASE Reset
    BY <1>7, ResetKeeps
  <1> QED
    BY <1>1, <1>2, <1>3, <1>4, <1>5, <1>6, <1>7, Zenon DEF Next

-----------------------------------------------------------------------------
(* The steps: the timerfd                                                     *)

(* The timerfd a fires no later than the first of S, or at the next tick.     *)
InTime(S, a, c) == a # Never /\ (a <= Earliest(S)[1] \/ a <= c + 1)

(* resetTimerFd for a time that nothing precedes.                             *)
LEMMA ResetInTime ==
    ASSUME NoWrap, clock \in 0..(MaxTime + 1), NEW S, NEW when \in Int,
           Earliest(S)[1] \in Int, when <= Earliest(S)[1]
    PROVE  InTime(S, ResetTimerFd(when), clock)
  <1>1. GetNow = clock /\ clock \in Nat
    BY NowIs, TimerAssumption
  <1> DEFINE m == Earliest(S)[1]
             a == ResetTimerFd(when)
  <1>2. a \in Nat \ {0} /\ (a <= when \/ a <= clock + 1)
    BY <1>1 DEF ResetTimerFd
  <1>3. m \in Int /\ when <= m
    OBVIOUS
  <1> HIDE DEF m, a
  <1>4. a # Never /\ (a <= m \/ a <= clock + 1)
    BY <1>1, <1>2, <1>3 DEF Never
  <1> QED
    BY <1>4 DEF InTime, m, a

LEMMA AddInTime ==
    ASSUME NoWrap, TimerInv, ArmedInTime, pc = "idle", TimerInv',
           NEW t \in Timers, NEW when \in Int, AddTimerInLoop(t, when)
    PROVE  InTime(timers', armed', clock)
  <1>1. /\ timers' = timers \cup {<<when, t>>}
        /\ armed' = IF EarliestChanged(when) THEN ResetTimerFd(when) ELSE armed
        /\ clock \in 0..(MaxTime + 1) /\ armed \in Int /\ MaxTime \in Nat
    BY TimerFacts, TimerAssumption DEF AddTimerInLoop, TypeOK
  <1>2. \A e \in timers : e[1] \in Int /\ e[1] >= -Wrap
    BY TimerFacts DEF TimerInv, TypeOK, Entries
  <1>3. timers \subseteq Int \X Timers
    BY TimerFacts DEF TypeOK
  <1>4. timers' \subseteq Int \X Timers /\ \A e \in timers' : e[1] >= -Wrap
    <2>1. TypeOK' /\ timers' = {<<expiration'[u], u>> : u \in activeTimers'}
      BY DEF TimerInv, PlacesInv
    <2>2. \A u \in activeTimers' : expiration'[u] >= -Wrap
      BY <2>1 DEF TimerInv, TypeOK
    <2> QED
      BY <2>1, <2>2 DEF TypeOK
  <1> DEFINE m == Earliest(timers')
             k == Earliest(timers)
  <1>5. m \in timers' /\ \A f \in timers' : m[1] <= f[1]
    BY <1>1, <1>4, EarliestIs
  <1>6. timers # {} => k \in timers /\ \A f \in timers : k[1] <= f[1]
    BY <1>2, <1>3, EarliestIs
  <1>7. EarliestChanged(when) <=> timers = {} \/ when < k[1]
    BY DEF EarliestChanged
  <1>8. m[1] \in Int
    BY <1>4, <1>5
  <1> HIDE DEF m, k
  <1>9. m = <<when, t>> \/ m \in timers
    BY <1>1, <1>5
  <1>10. CASE EarliestChanged(when)
    <2>1. when <= m[1]
      <3>1. CASE m = <<when, t>>
        BY <3>1
      <3>2. CASE m \in timers
        <4>1. when < k[1] /\ k[1] <= m[1] /\ k[1] \in Int
          BY <1>2, <1>6, <1>7, <1>10, <3>2
        <4> QED
          BY <1>8, <4>1
      <3> QED
        BY <1>9, <3>1, <3>2
    <2> QED
      BY <1>1, <1>8, <1>10, <2>1, ResetInTime DEF m
  <1>11. CASE ~EarliestChanged(when)
    <2>1. timers # {} /\ k \in timers /\ k[1] \in Int /\ k[1] <= when
      BY <1>2, <1>6, <1>7, <1>11
    <2>2. k[1] <= m[1]
      <3>1. CASE m = <<when, t>>
        BY <2>1, <3>1
      <3>2. CASE m \in timers
        BY <1>6, <2>1, <3>2
      <3> QED
        BY <1>9, <3>1, <3>2
    <2>3. armed' = armed /\ armed # Never /\ (armed <= k[1] \/ armed <= clock + 1)
      BY <1>1, <1>11, <2>1 DEF ArmedInTime, k
    <2>4. armed <= m[1] \/ armed <= clock + 1
      BY <1>1, <1>8, <2>1, <2>2, <2>3
    <2> QED
      BY <2>3, <2>4 DEF InTime, m
  <1> QED
    BY <1>10, <1>11

LEMMA Transitive ==
    ASSUME NEW a \in Int, NEW b \in Int, NEW c \in Int, a <= b, b <= c PROVE a <= c
  OBVIOUS

(* Fewer timers, or a later time, with the same timerfd.                      *)
LEMMA FewerInTime ==
    ASSUME TimerInv, ArmedInTime, pc = "idle", TimerInv',
           timers' \subseteq timers, timers' # {}, armed' = armed, clock' \in {clock, clock + 1}
    PROVE  InTime(timers', armed', clock')
  <1>1. \A e \in timers : e[1] \in Int /\ e[1] >= -Wrap
    BY TimerFacts DEF TimerInv, TypeOK, Entries
  <1>2. timers \subseteq Int \X Timers /\ armed \in Int /\ clock \in Nat
    BY TimerFacts, TimerAssumption DEF TypeOK
  <1> DEFINE m == Earliest(timers')
             k == Earliest(timers)
  <1>3. m \in timers'
    BY <1>1, <1>2, EarliestIs
  <1>4. k \in timers /\ \A f \in timers : k[1] <= f[1]
    BY <1>1, <1>2, EarliestIs
  <1>5. armed # Never /\ (armed <= k[1] \/ armed <= clock + 1)
    BY DEF ArmedInTime
  <1> HIDE DEF m, k
  <1>6. k[1] <= m[1] /\ k[1] \in Int /\ m[1] \in Int
    BY <1>1, <1>3, <1>4
  <1>7. armed <= m[1] \/ armed <= clock' + 1
    <2>1. CASE armed <= k[1]
      BY <1>2, <1>6, <2>1, Transitive
    <2>2. CASE armed <= clock + 1
      <3>1. clock + 1 \in Int /\ clock' + 1 \in Int /\ clock + 1 <= clock' + 1
        <4>1. \A c \in Nat : \A d \in {c, c + 1} : c + 1 \in Int /\ d + 1 \in Int /\ c + 1 <= d + 1
          OBVIOUS
        <4> QED
          BY <1>2, <4>1
      <3> QED
        BY <1>2, <2>2, <3>1, Transitive
    <2> QED
      BY <1>5, <2>1, <2>2
  <1> QED
    BY <1>5, <1>7 DEF InTime, m

LEMMA InTimeIs ==
    ASSUME pc' = "idle" /\ timers' # {} => InTime(timers', armed', clock')
    PROVE  ArmedInTime'
  BY DEF InTime, ArmedInTime


Valid(e, C) == \A t \in Timers : e[t] \in Nat /\ (t \in C => e[t] > 0)

LEMMA CreateValid ==
    ASSUME NoWrap, TimerInv, ClockInv, NEW t \in Timers, NEW delay \in Delays,
           NEW every \in Delays \cup {0}, Create(t, delay, every)
    PROVE  Valid(expiration', created')
  <1>1. /\ created' = created \cup {t} /\ expiration'[t] = After(delay)
        /\ \A u \in Timers : u # t => expiration'[u] = expiration[u]
    BY CreateGives
  <1>2. After(delay) \in Nat /\ After(delay) > 0
    <2>1. GetNow = clock /\ clock \in Nat /\ delay \in Nat \ {0}
      BY NowIs, TimerFacts, TimerAssumption DEF TypeOK
    <2> QED
      BY <2>1 DEF After
  <1>3. Valid(expiration, created)
    BY DEF ClockInv, Valid
  <1> QED
    BY <1>1, <1>2, <1>3 DEF Valid

LEMMA ClockStep ==
    ASSUME NoWrap, TimerInv, ClockInv, TimerInv', [Next]_vars
    PROVE  ClockInv'
  <1>0. /\ now \in Nat /\ Valid(expiration, created) /\ ArmedInTime
        /\ clock \in 0..(MaxTime + 1) /\ clock \in Nat /\ MaxTime \in Nat
    BY TimerFacts, TimerAssumption DEF ClockInv, Valid, TypeOK
  <1>q. ASSUME now' \in Nat, Valid(expiration', created'),
               pc' = "idle" /\ timers' # {} => InTime(timers', armed', clock')
        PROVE  ClockInv'
    BY <1>q, InTimeIs DEF ClockInv, Valid
  <1>1. CASE UNCHANGED vars
    <2>1. UNCHANGED <<clock, armed, expiration, timers, now, pc, created>>
      BY <1>1 DEF vars
    <2> QED
      BY <1>0, <1>q, <2>1 DEF ArmedInTime, InTime
  <1>2. ASSUME NEW t \in Timers, NEW delay \in Delays, NEW every \in Delays \cup {0},
               AddTimer(t, delay, every)
        PROVE  ClockInv'
    <2> DEFINE when == After(delay)
    <2>1. /\ Create(t, delay, every) /\ AddTimerInLoop(t, when)
          /\ pc' = pc /\ clock' = clock /\ now' = now
      BY <1>2 DEF AddTimer, batch
    <2>2. when \in Int
      BY <2>1, CreateGives
    <2> HIDE DEF when
    <2>3. pc' = "idle" => InTime(timers', armed', clock')
      BY <1>0, <2>1, <2>2, AddInTime
    <2> QED
      BY <1>0, <1>q, <2>1, <2>3, CreateValid
  <1>3. ASSUME NEW t \in Timers, NEW delay \in Delays, NEW every \in Delays \cup {0},
               ForeignAddTimer(t, delay, every)
        PROVE  ClockInv'
    <2>1. Create(t, delay, every) /\ UNCHANGED <<clock, armed, timers, now, pc>>
      BY <1>3 DEF ForeignAddTimer, batch
    <2>2. pc' = "idle" /\ timers' # {} => InTime(timers', armed', clock')
      BY <1>0, <2>1 DEF ArmedInTime, InTime
    <2> QED
      BY <1>0, <1>q, <2>1, <2>2, CreateValid
  <1>4. ASSUME NEW t, CancelInLoop(t), UNCHANGED <<clock, armed, expiration, now, pc, created>>
        PROVE  ClockInv'
    <2>1. timers' \subseteq timers
      BY <1>4 DEF CancelInLoop
    <2>2. pc' = "idle" /\ timers' # {} => InTime(timers', armed', clock')
      BY <1>0, <1>4, <2>1, FewerInTime
    <2> QED
      BY <1>0, <1>4, <1>q, <2>2
  <1>5. ASSUME NEW t \in Timers, Cancel(t) PROVE ClockInv'
    BY <1>4, <1>5 DEF Cancel, batch
  <1>6. ASSUME NEW t \in Timers, ForeignCancel(t) PROVE ClockInv'
    <2>1. UNCHANGED <<clock, armed, expiration, timers, now, pc, created>>
      BY <1>6 DEF ForeignCancel, batch
    <2> QED
      BY <1>0, <1>q, <2>1 DEF ArmedInTime, InTime
  <1>7. CASE RunFunctor
    <2> DEFINE t == Head(functors)[2]
    <2>1. /\ functors # << >> /\ pc = "idle"
          /\ AddTimerInLoop(t, expiration[t]) \/ (CancelInLoop(t) /\ armed' = armed)
          /\ UNCHANGED <<clock, expiration, now, pc, created>>
      BY <1>7, Zenon DEF RunFunctor, batch
    <2>2. t \in Timers
      BY <2>1, TimerFacts, TailHas DEF Calls
    <2> HIDE DEF t
    <2>3. CASE AddTimerInLoop(t, expiration[t])
      <3> DEFINE when == expiration[t]
      <3>1. when \in Int
        BY <1>0, <2>2 DEF Valid
      <3>2. AddTimerInLoop(t, when)
        BY <2>3
      <3> HIDE DEF when
      <3>3. InTime(timers', armed', clock')
        BY <1>0, <2>1, <2>2, <3>1, <3>2, AddInTime
      <3> QED
        BY <1>0, <1>q, <2>1, <3>3
    <2>4. CASE CancelInLoop(t) /\ armed' = armed
      BY <1>4, <2>1, <2>4
    <2> QED
      BY <2>1, <2>3, <2>4
  <1>8. CASE GetExpired
    <2>1. now' = GetNow /\ pc' = "expired" /\ UNCHANGED <<expiration, created>>
      BY <1>8 DEF GetExpired
    <2>2. now' \in Nat
      BY <1>0, <2>1, NowIs
    <2> QED
      BY <1>0, <1>q, <2>1, <2>2
  <1>9. CASE (\E t \in Timers : RunCallback(t)) \/ CallbackReturns
    <2>1. pc' # "idle" /\ UNCHANGED <<expiration, now, created>>
      BY <1>9 DEF RunCallback, CallbackReturns, batch
    <2> QED
      BY <1>0, <1>q, <2>1
  <1>10. CASE Tick
    <2>1. clock' = clock + 1 /\ UNCHANGED <<armed, expiration, timers, now, pc, created>>
      BY <1>10 DEF Tick, batch
    <2>2. pc' = "idle" /\ timers' # {} => InTime(timers', armed', clock')
      BY <1>0, <2>1, FewerInTime
    <2> QED
      BY <1>0, <1>q, <2>1, <2>2
  <1>11. CASE Poll
    <2>1. UNCHANGED <<clock, armed, expiration, timers, now, pc, created>>
      BY <1>11 DEF Poll
    <2> QED
      BY <1>0, <1>q, <2>1 DEF ArmedInTime, InTime
  <1>12. CASE Reset
    <2> DEFINE again == {t \in expired : Restarts(t)}
    <2>1. /\ \A t \in Timers : expiration'[t] = IF t \in again THEN now + interval[t]
                                               ELSE expiration[t]
          /\ timers' = Entries(expiration', activeTimers')
          /\ timers' \subseteq Int \X Timers /\ \A x \in timers' : x[1] >= -Wrap
          /\ armed' = IF timers' # {} /\ IsValid(Earliest(timers')[1])
                      THEN ResetTimerFd(Earliest(timers')[1]) ELSE armed
          /\ now' = 0 /\ clock' = clock /\ created' = created
      BY <1>12, ResetEffect, Zenon
    <2>2. \A t \in again : interval[t] > 0
      BY DEF Restarts
    <2> HIDE DEF again
    <2>3. Valid(expiration', created')
      <3>1. \A t \in Timers : interval[t] \in Nat
        <4>1. interval \in [Timers -> Delays \cup {0}] /\ Delays \cup {0} \subseteq Nat
          BY TimerFacts, TimerAssumption DEF TypeOK
        <4> QED
          BY <4>1
      <3> QED
        BY <1>0, <2>1, <2>2, <3>1 DEF Valid
    <2>4. ASSUME timers' # {} PROVE InTime(timers', armed', clock')
      <3> DEFINE m == Earliest(timers')
      <3>1. m \in timers'
        BY <2>1, <2>4, EarliestIs
      <3> HIDE DEF m
      <3>2. PICK u \in activeTimers' : m = <<expiration'[u], u>>
        BY <2>1, <3>1 DEF Entries
      <3>3. u \in created' /\ u \in Timers
        BY <3>2 DEF TimerInv, PlacesInv, TypeOK
      <3>4. m[1] \in Int /\ m[1] > 0
        BY <2>3, <3>2, <3>3 DEF Valid
      <3>5. armed' = ResetTimerFd(m[1])
        BY <2>1, <2>4, <3>4 DEF IsValid, m
      <3>6. InTime(timers', ResetTimerFd(m[1]), clock)
        BY <1>0, <3>4, ResetInTime DEF m
      <3> QED
        BY <2>1, <3>5, <3>6
    <2>5. now' \in Nat
      BY <2>1
    <2> QED
      BY <1>q, <2>3, <2>4, <2>5
  <1> QED
    BY <1>1, <1>2, <1>3, <1>5, <1>6, <1>7, <1>8, <1>9, <1>10, <1>11, <1>12,
       Zenon DEF Next

-----------------------------------------------------------------------------
(* The theorems                                                               *)

(* The inductive invariant of insert, cancelInLoop, getExpired and reset.     *)
THEOREM TimerInvariant == Spec => []TimerInv
  BY InitHolds, TimerInvStep, PTL DEF Spec

(* timers_ and activeTimers_ agree, and every timer that exists is on its way *)
(* to the loop, waiting, or expired, and in one of these places only, through *)
(* additions and cancellations of callbacks and of another thread, a wrapped  *)
(* clock included.                                                            *)
THEOREM TimersHaveOnePlace == Spec => []PlacesInv
  <1>1. TimerInv => PlacesInv
    BY DEF TimerInv
  <1> QED
    BY <1>1, TimerInvariant, PTL

(* A timer for which cancelInLoop has run never waits again, unless it was    *)
(* cancelled in the loop thread while its addition was still queued.          *)
THEOREM CancelledStaysOut == Spec => []CancelIsFinal
  <1>1. TimerInv => CancelIsFinal
    BY DEF TimerInv, CancelIsFinal
  <1> QED
    BY <1>1, TimerInvariant, PTL

(* The one timerfd is armed for the earliest timer, or the next tick, when    *)
(* the loop is at rest, whatever insert, cancelInLoop and reset did, as long  *)
(* as the int product in Timestamp::getNow does not wrap around: after that a *)
(* time that is not valid leaves it disarmed.                                 *)
THEOREM TimerfdArmedInTime == ASSUME NoWrap PROVE Spec => []ArmedInTime
  <1>1. Init => TimerInv /\ ClockInv
    <2>1. ASSUME Init PROVE ClockInv
      BY <2>1 DEF Init, ClockInv, ArmedInTime
    <2> QED
      BY <2>1, InitHolds
  <1>2. TimerInv /\ ClockInv /\ [Next]_vars => (TimerInv /\ ClockInv)'
    BY TimerInvStep, ClockStep
  <1>3. TimerInv /\ ClockInv => ArmedInTime
    BY DEF ClockInv
  <1> QED
    BY <1>1, <1>2, <1>3, PTL DEF Spec
=============================================================================
