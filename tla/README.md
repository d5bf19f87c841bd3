# A TLA+ development for oula_server

oula_server is a reactor library in C++ in the manner of muduo: one event loop
per thread, non-blocking sockets, callbacks, and functors that carry work from
one thread to another. The modules here model its core, TLC checks them on
small instances, and TLAPS proves the safety of every component checked, with the
three refinements, for every instance: any number of threads, loops, connections,
timers and bytes. Liveness is model-checked. Paths below are relative to `src/`.

## 1. Inventory

| Component | State | Operations | Interacts with |
|---|---|---|---|
| **EventLoop** `net/Eventloop.*` | `pendingFunctors_` under `mtx_`, `isCallingPendingFunctors_`, the eventfd, active channels | `loop`, `runInLoop`, `queueInLoop`, wakeup, `handlePendingFunctors` | every other component runs in a loop or queues into one |
| **Poller** `net/Poller.*`, `net/poller/*` | `channels_`; epoll set and event slots, or the pollfd array and its index | `updateChannel`, `RemoveChannel`, `poll` | called by `Channel::update` and `loop` |
| **Channel** `net/Channel.*` | events of interest, status in the poller | enable, disable, remove, `HandleEvent` | owned by connections, acceptor, connector, timer queue, loop |
| **TcpConnection** `net/TcpConnection.*` | `state_`, buffers, high water mark, its channel | send, shutdown, forceClose, forceCloseWithDelay, the handlers of its channel, establish, destroy | loop, timers, owner (server or client), user callbacks |
| **Buffer** `net/Buffer.*` | a vector and two indices | append, readFd, retrieve | connections |
| **TcpServer** `net/TcpServer.*` | `connections_` in the base loop | newConnection, removeConnection, removeConnectionInLoop | acceptor, thread pool of loops, connections |
| **TimerQueue** `net/TimerQueue.*`, `Timer.*`, `utils/Timestamp.*` | `timers_`, `activeTimers_`, the timerfd, the batch being run, the timers cancelled meanwhile | addTimer, cancle, handelRead, reset | loop, user callbacks |
| **ThreadPool** `threadpool/*` | task queue under a mutex and a condition variable, `m_bStop` | addTask, threadFunc, destructor, GetInstance | the logic layer |
| **EventLoopThread(Pool)** `net/EventLoopThread*` | a thread, its loop, the round robin index | startLoop, threadFunc, start, getNextLoop, destructor | TcpServer |
| **Acceptor** `net/Acceptor.*` | listening socket and channel | listen, HandleRead | TcpServer |
| **Connector, TcpClient** `net/Connector.*`, `net/TcpClient.*` | connect state, retry delay, a channel, one connection | start, stop, restart, retry; connect, disconnect | loop, timers |
| **Socket, SocketHelper** | a descriptor, closed by the destructor | wrappers of system calls | acceptor, connector, connections |
| **InetAddress, CurrentThread, log** | none of interest | | |
| **Logic, main, client** | | example callbacks | |

Components interact in three ways: direct calls and callbacks inside one loop
thread; functors queued from one loop to another; and the kernel, which
remembers what a poller asked it and reports it one call later.

What is hard here, and therefore what the properties are about:

- **Interleaving.** A functor is pushed under a lock and the decision to wake
  the loop is made after it (EventLoop). The base thread takes loops that other
  threads build (EventLoopThread). Other threads send and close while a connection's
  loop takes it down; `state_` has no synchronisation (TcpConnection, TcpServer). A worker tests a condition and sleeps
  in two steps, while the destructor ignores the mutex (ThreadPool).
- **Ordering.** A connection is created, established, closed, removed and
  destroyed by functors in two queues (TcpServer). A shutdown waits for
  buffered bytes while other threads' sends are on their way (TcpConnection).
- **Stale state.** Events reported by one poll are handled after callbacks
  changed what they refer to, timers of the same round among them (TcpConnection,
  TcpClient); an array index must follow an
  entry that moves (PollPoller); a channel's status must say what the kernel
  knows (EpollPoller); descriptors are numbers the kernel gives out again, and
  functors are queued with a raw `this` (TcpServer).
- **Partial failure.** A write takes part of a message or none of it, a read
  spills over the buffer (TcpConnection, Buffer). accept finds no descriptor
  (Acceptor), an attempt to connect fails in one of several ways (Connector).
- **Time.** Timers are added and cancelled while expired ones run, and the
  timerfd must always be armed for the first (TimerQueue); time wraps.
- **Liveness.** Nothing queued is forgotten, whatever the order of events.

`PROJECT.json` lists every hazard at its line with the properties that watch it.

## 2. Modules and the code

### EventLoop, TaskQueue, EventLoop_proofs, MCEventLoop

`EventLoop` models `net/Eventloop.cpp`. The loop thread is a program counter
`pc`: `"poll"` in `poller_->poll`, `"dispatch"` and `"handler"` in the loop over
the active channels, `"swap"`, `"functors"` and `"functor"` in
`handlePendingFunctors`, and `"starting"` in the code a thread runs before
`loop()`. `queueInLoop` is two actions, because other threads can run between
them: the critical section (`QueueInLoop`) and the wakeup test with the eventfd
write (`WakeupToHandlePendingFunctors`). The `runInLoop` calls that user code nests in
the loop thread are kept in `stack`. `early` counts the functors that the loop thread
queued before `loop()`: they are the only ones that get no wakeup.

`TaskQueue` is what callers are promised: one queue, one functor at a time,
first in first out. `EventLoop!ImplementsTaskQueue` is the refinement: the
abstract queue is the rest of the swapped-out batch followed by
`pendingFunctors`, and the abstract current functor is the outermost of the stack.

### TcpConnection, TcpConnection_proofs

`TcpConnection` models one connection with its socket. The code of its own loop
thread is atomic up to calls into user code (`callback`) and up to the turns of
the loop: `PollChannel` is the poll, `revents` what it reported and what is not yet
handled, and `functors` what waits in the loop. The timerfd's channel is one of the
active channels and may come before the connection's: timers run with `revents` still
waiting (`InTimers`), but not once `HandleEvent` has begun on them (`handling`). The
history `overtaken` says that a delayed close has run like that, before the handler of a
reported hang-up or input. `HandleEvent` is
`Channel::HandleEvent`, which tests the reported events in a fixed order; `HandleHup`,
`HandleRead` and `HandleWriteSome`/`HandleWriteNone` are its branches, each with the
whole handler under it, `handleClose` included. Any other
thread may `send` (`ForeignSend` reads `state_`, `ForeignSendQueues` queues, and
`sendInLoop` runs later). Bytes are numbers in the order of acceptance, so that
order, loss and duplication are visible; `socket` is the kernel's side: room in
the send buffer, input, and what the peer did. `OwnerRemoves` stands for server or
client, which drop the connection and queue `ConnectDestoryed`.

### TcpServer, EventLoopThreadPool, Acceptor, TcpServer_proofs, MCTcpServer

`EventLoopThreadPool` is `start()` in the base thread and `threadFunc` in each loop's
thread: `starter` and `thread` are their program counters, with the wait on the
condition split into test, sleep and wakeup (`StartLoop`, `SpuriousWakeup`,
`Publish`), and a published loop that its thread has not yet entered
(`EnterLoop`). `Notified` is what `notify_one` does to the wait. `Acceptor` is the listening channel over the kernel's backlog and a limited
number of descriptors, of which `accept` takes the lowest that is free.

`TcpServer` composes the two (`Pool` and `Acc` are instances over its own variables)
and models the life of connections across loops, with a queue of functors for each
loop. `numThreads`, chosen in `Init`, is what `setThreadNum` asked for: no loop besides
the base loop (where `runInLoop` calls at once), one, or two. `StartPool` and `Listen` are
`TcpServer::start`, `HandleAccept` is the acceptor's handler with
`newConnection` under it, and a loop runs nothing before its thread is in `loop()`
(`Turning`). A worker thread with a reference to a connection may call `send`, `shutdown` and
`forceClose`: `CallTests` reads `state_`, `CallSetsState` writes it and `CallQueues`
queues the functor, with any step of the loops between them. `forceCloseWithDelay` is left
to `TcpConnection` and `TcpClient`. Data is left to
`TcpConnection`; here a connection is its state, its loop, its descriptor, whether its
channel is registered and wants reads, and the history of its user's callbacks.
Two more histories name the races the code does not prevent: `overwritten`, when a
call writes `KDisconnecting` over `KDisconnected`, and `late`, the connections for which a
call queued its functor after they were reported down.

### Channel, Poller, EpollPoller, PollPoller, DefaultPoller, DefaultPoller_proofs

`Channel` holds the operations on a channel's interest, and `Updates` the sequences
its users make: they enable first and disable what is enabled. `Poller` is the
contract of `net/Poller.h`: after each update the kernel watches exactly what the
channel wants. `EpollPoller` and `PollPoller` model the two implementations, with
epoll_ctl's refusals and poll(2)'s negative descriptors. `DefaultPoller` is
`Poller::NewDefaultPoller`: it starts one or the other, and both are checked
against the one contract in one run.

### Buffer, ByteFifo, Buffer_proofs

`Buffer` is the vector, the two indices, the move to the front and the growth,
and readv into the vector and a second buffer on the stack. `ByteFifo` is a queue
of bytes. `kCheapPrepend` is 0 in the code, so the constant is not modelled.

### TimerQueue, TimerQueue_proofs

Timers with expirations and intervals in ticks, one tick being the 100
microseconds below which the code never arms a timerfd. `Poll` reports the timerfd
(`reported`); handlers of the same round may add and cancel timers before its own.
`GetExpired`, `RunCallback` and `Reset` are `handelRead`; callbacks, other user code and another thread add and
cancel between them. A timer is its sequence number. `GetNow` is the 32-bit product
of `Timestamp::getNow`: `Wrap` is the number of its values, and half of them are
negative. The history `overtook` holds the timers that the loop thread cancelled while
another thread's addition was still queued.

### ThreadPool, ThreadPool_proofs

The steps of a worker inside its critical section are separate actions, as the
destructor sets `m_bStop` without the mutex. `addTask` holds the mutex from its
first to its last step and nothing it touches is read outside it, so it is one action.

### TcpClient, TcpClient_proofs

`TcpClient` models `net/TcpClient.cpp` with its `net/Connector.cpp`, in one loop. A
handler or a functor is one step; `pc`, `revents`, `functors` and `batch` keep the
turns of the loop, because the code depends on them: the connector's channel is
removed in its handler and deleted by a functor that runs after it
(`RemoveChannel`, `QueueResetChannel`), and a connection that is closed at once must
not restart the connector before. `connector` is the record of Connector's members
with the sockets it has open and the retry timers that hold it; `Connect` is the
three branches of `::connect`'s errno; `Retry` closes, arms and doubles the delay. Of a
connection only `state_` is kept. `connect()` may come at any time and in any thread.
A user may close a connection by `forceClose`, or by `forceCloseWithDelay`, whose timer
(`delayed`) runs at any moment of a round (`DelayedClose`). `early` says what came too early:
a `connect()` that did not find the connector at rest, the end of a client without a
connection or beside a channel that still waits for its reset, or a delayed close before
the handler of a reported close, or before the reset of the channel when it starts the
connector again. The code is not fit for any of them, see *Disagreements* below.

## 3. What is checked

| Run | Module | Shows |
|---|---|---|
| `loop` | MCEventLoop | `LoopInv` with the wakeup invariant inside it; `NoLostWakeup`; the refinement `ImplementsTaskQueue`; `Collected`: a queued functor is collected without help from the timeout; `BackToPoll`: functors that queue functors do not starve the channels; `TimeoutMakesFair`: with the timeout the abstract queue is fair |
| `conn` | TcpConnection | write interest iff bytes are buffered; FIN only after the data; bytes in order; one alarm per crossing of the high water mark; no assert fails until a delayed close has overtaken the handler of a reported hang-up or input; the buffer drains; a close goes through; a connection whose peer is gone is destroyed, or the process has stopped at that assert |
| `server` | MCTcpServer | `LoopsPublished`: no loop is taken before its thread has built it, and no two loops are built at once; `DescriptorInv`: a registered channel's descriptor is open and nobody else's; `MapInv`: the map holds a connection exactly until its one removal has run; `CallbacksPaired`: up once, down once; no assert fails; both until a call overwrites `KDisconnected`; `RawFunctorsSafe`: a functor with a raw `this` finds its connection alive; `ClosedIsDestroyed`; `Served`: the server listens, and every connection in the backlog is reported up unless no descriptor is free |
| `poller` | DefaultPoller | the status, or the index, of every channel agrees with what the kernel has; no assert fails and no epoll_ctl is refused; both implement `Poller` |
| `buffer` | Buffer | indices and bounded capacity (`CapacityBound`), refinement of `ByteFifo` |
| `timers` | TimerQueue | every timer is in one place; the timerfd is armed in time; `CancelIsFinal`: a cancelled timer never waits again (one still to run in the batch of expired timers does run); `Fires`: every timer runs or is cancelled |
| `pool` | ThreadPool | tasks are taken once and in order; the destructor leaves nothing behind; every task runs; the destructor returns unless a worker missed its notification |
| `client` | TcpClient | `AttemptInv`: at most one of retry timer, attempt and connection, no socket leaked; no assert fails, both until something came too early (`early`); `DisconnectIsFinal`: after `disconnect()` of a connection the connector does not start again; `ConnectsAgain`: a client that keeps trying gets its next connection |

Four runs show a disagreement between the code and what it says of itself. Each
checks one property and ends in a counterexample:

| Run | What happens |
|---|---|
| `conn_echo` (`EchoIntact`) | The direct write of `sendInLoop` returns -1 with a full send buffer; line 273 of `TcpConnection.cpp` then buffers from `data + nWrote`, one byte before the message. `conn` shows the stream intact up to such a message (`mangled`). |
| `conn_delay` (`HandleCloseFindsItOpen`) | One poll reports that the peer is gone, and the timerfd. The timer of a `forceCloseWithDelay` is handled first and closes the connection; `Channel::HandleEvent` then acts on the event it still has, and `handleClose` runs a second time: its assert at `TcpConnection.cpp:153` fails. `conn` shows that nothing else makes an assert of a connection fail in its own loop (`overtaken`). |
| `poll_two_closing` (`NoAssertFails`) | Two channels are registered without interest (two connections close in one iteration). `RemoveChannel` of PollPoller indexes the entry it moves under the descriptor as stored, `-(fd + 1)`, and a later assert fails. `poller` has at most one such channel (`MaxDisabled = 1`). |
| `timers_wrap` (`ArmedWhenWaiting`) | Two one-shot timers have expirations that wrapped to negative numbers. The first is cancelled and the timerfd, still armed for it, fires; nothing has expired, `reset` finds the expiration of the other not valid and leaves the timerfd disarmed. That timer waits until an `addTimer` of an earlier expiration should arm the timerfd again. `timers` keeps the clock below the wrap. |

Each property of a passing run has a mutant, a plausible slip in the code, that
breaks it; the mutants are the operators marked *Mutant* beside what they replace.

### Bounds, and why they are enough

- `loop`: two functors, two foreign threads, one channel besides the wakeup
  channel, three functors queued, two nested. A lost wakeup needs one writer and
  the loop; the second thread adds writes that hide or repeat a wakeup, the third
  place in the queue a batch of two with one more arriving behind it. The eventfd
  is 1 when its counter is not 0, since nothing reads more of it than that.
- `conn`: a mark of 1 byte, messages of up to 2 and a send buffer of 1, so that a message
  may fit, fit in part or not at all, and reach the mark exactly, cross it at once or
  stay below; three bytes in all, which is a message behind another that is half
  written, and more than one write event. Another thread sends two bytes at once
  (`ForeignLengths`), which may meet every state of the loop's own sends. One functor of
  the user at a time, one byte of input, one delayed close. About 96,000 distinct states.
  `conn_echo` and `conn_delay` have a mark of 2, four bytes, every length of a foreign
  send and two functors; `HandleCloseFindsItOpen` needs only one delayed close and
  one event.
- `server`: two connections, pools of zero, one and two loops, descriptors for one
  connection or for both, so that an accept fails and a descriptor is used again; one
  functor of a kind outstanding for each connection, and one call of a worker thread
  at a time (`MaxFunctors`, `CallTests`). Connections share only the queues, the map
  and the descriptors, and two show every order of two functors of different
  connections. Once `overwritten` the environment asks for nothing new (`MayAsk`):
  the rest of such a run is what the server still does by itself. About 110,000
  distinct states.
- `poller`: three descriptors, the least for which the removal of one entry moves
  another that is neither first nor last. One event slot at first, so that the
  vector doubles twice.
- `buffer`: a vector of two bytes at first, a second buffer of two, lengths up to
  three and at most four readable: every case of fits, moves and grows, with and
  without spill.
- `timers`: two timers and delays of one and two ticks over five ticks: equal and
  different expirations, a timer that repeats twice, and a callback that is late
  by more than an interval. The clock's last tick, past `MaxTime`, comes when the loop
  is at rest, so that what is armed by then still fires. About 440,000 distinct states. `Wrap = 64` is out of reach there, and `Wrap = 8` in
  `timers_wrap` puts the wrap in the run.
- `pool`: three workers and three tasks: a notification that reaches a worker
  late, after another took the task, with a third asleep.
- `client`: delays of 1, 2 and 3, so that the delay doubles and then meets its
  limit; one `connect()` amid the connector's work, after which the properties are
  silent; one delayed close at a time (that of a connection which has closed finds
  `KDisconnected` and does nothing); three connections, which is two reconnections, the
  second after a restart that itself had to retry. About 34,000 distinct states.

`CHECK_DEADLOCK FALSE` stands where a system really ends: a connection is
destroyed, all connections are, the clock stops at its bound, the pool is joined, and
a client stops after a failed assert.

### Fairness, and why the code justifies it

- `PromptSpec` (`loop`): threads are scheduled, so a pushing thread completes its
  wakeup; user code returns, at every depth of nested calls (strong fairness, as it
  may call `runInLoop` any number of times first); `poll` returns when the eventfd
  is readable, which level-triggered polling guarantees. Nothing is assumed of
  channels or of the 10 s timeout: `Collected` and `BackToPoll` hold without them.
  `TimeoutMakesFair` has the timeout as its hypothesis; it is needed for the
  functors that were queued before `loop()`.
- `TcpConnection!FairSpec`: the loop turns, runs its functors and timers and
  handles what it polled; user callbacks return; the peer reads. Strong fairness
  for poll, handlers, functors and the delayed close, because the user's timers may run
  between any two of them: each is reached once in a round of the loop, whatever timers
  the round has. References are dropped in the end, so the destructor is weakly fair. No fairness for what users and the peer may leave undone.
- `TcpServer!FairSpec`: threads are scheduled, so `start()` goes on, a loop's thread
  publishes and enters its loop, and a call that was begun returns; a wait on the
  condition variable ends by `notify_one` (`SpuriousWakeup` is possible and has no
  fairness: without the notification `Served` fails); loops that turn
  run their functors and handle readable connections and the listening socket, which
  is polled level-triggered and so stays reported after an accept that failed. A
  connection without references is deleted at once in the code. Nothing makes users
  call or peers close, so `Served` has "no descriptor is free" as an outcome.
- `TimerQueue!FairSpec`: time passes, the loop runs its functors, polls the
  timerfd when it is readable and handles what was reported, and callbacks return. No fairness for users.
- `ThreadPool!FairSpec`: workers are scheduled and tasks return; strong fairness
  for the mutex, that is, a worker which keeps asking for it gets it. No spurious
  wakeup is relied on, and the destructor, once called, goes on.
- `TcpClient!FairSpec`: the loop turns and runs its functors. Retry timers expire and
  attempts are decided, by the clock and the kernel; and a server that is tried again
  and again answers at some time: strong fairness for a `::connect` that is not
  refused and for an attempt that succeeds. That is the environment's part of
  `ConnectsAgain`; the client's part is to go on trying.

## 4. What is proved

Every invariant and every refinement that a passing run checks is also a theorem,
for all values of the constants that the module's assumption allows. Each proof has
the same shape: an inductive invariant, one lemma for each action (below it one step for each
conjunct that the action can disturb), lemmas about queues, arrays and records that
the actions share, and the properties as consequences. The inductive invariants were
checked by TLC on the bounds of the runs before they were proved.

| Module | Inductive invariant | Properties that follow |
|---|---|---|
| EventLoop_proofs | `LoopInv` | `LoopInvariant`, `NoWakeupIsLost`, `LoopImplementsTaskQueue` |
| ThreadPool_proofs | `PoolInv` | `TasksAreTakenInOrder`, `DestructorLeavesNothing` |
| DefaultPoller_proofs | `StatusInv`, `PollInv` | `EpollKeepsStatus`, `EpollNeverAborts`, `EpollImplementsPoller`; `PollKeepsIndex`, `PollersNeverAbort`, `PollersImplementPoller` |
| Buffer_proofs | `BufferInv` | `BufferBounded`, `BufferImplementsFifo` |
| TcpConnection_proofs | `ConnInv` | `InterestFollowsBuffer`, `FinFollowsData`, `StreamStaysIntact`, `HighWaterIsAnEdge`, `ConnectionAssertsHold` |
| TcpServer_proofs | `ServerInv` | `LoopsArePublished`, `DescriptorsAreOwn`, `MapAgrees`, `CallbacksArePaired`, `ServerAssertsHold`, `RawFunctorsFindTheirConnection` |
| TimerQueue_proofs | `TimerInv`, `ClockInv` | `TimersHaveOnePlace`, `CancelledStaysOut`, `TimerfdArmedInTime` |
| TcpClient_proofs | `ClientInv` | `OneAttemptAtATime`, `ClientAssertsHold`, `DisconnectEnds` |

**Event loop.** `NoLostWakeup` speaks of `pc = "poll"` only and is not inductive.
`LoopInv` adds what carries it through an iteration: between the last functor's
collection and the next poll a wakeup is under way whenever a functor is queued
(`WakeupInv`), except between the poll's return and the swap, when the functors are
about to be collected; the flag is up exactly from there to the last functor
(`FlagInv`), which is why a functor that queues another writes the eventfd; the loop
thread pushes only from user code (`CallerInv`), so it never goes to poll between its
own push and the wakeup test. The refinement rests on lemmas about sequences: a push
at the end of the concatenation, a pop from its front, and the head of a stack that
grows at its end.

**Thread pool.** That a worker which takes finds a task needs `TakeInv` (it has seen
a task or the stop, and holds the mutex since), and that needs the mutual exclusion
inside `TakenInOrder`. Nothing is left behind because of `ExitInv`: nobody leaves
before the stop, after which only a worker that runs a task can add one, so the last
to leave sees an empty queue. Without a worker that is false, hence the assumption
that there is one (the code starts four).

**Pollers.** For epoll, a channel's `status_` agrees with the kernel's set and with
`channels_`. For poll, the index is a bijection between the channels that are in the
array and its entries; a channel without interest is found under the negative
key its entry holds, as long as at most one channel at a time is without interest.
That is the hypothesis `MaxDisabled <= 1` of the theorems about PollPoller. The proof
needs it, and so does the code: with two, the run `poll_two_closing` ends in a
failed assert. The theorems about EpollPoller do without. The refinement maps to
`Poller` the events the kernel watches for each channel.

**Buffer.** `CapacityBound` alone does not bound how much is readable, which decides how far the
vector may grow. The refinement of `ByteFifo` maps the queue to the bytes between the
two indices: `makeSpace` moves or grows the vector and leaves that cut as it is, and the
second part of `readv` continues the first.

**TcpConnection.** `ControlInv`: events reported and not yet handled are still true when their
handler runs (`revents` has HUP or IN only while the connection is up), unless a delayed
close ran in between (`overtaken`): that is what the connection's asserts rest on, and
`ConnectionAssertsHold` has the same exception. Each functor is queued
at most once and only in the states in which it may run. `DataInv`: what the kernel has,
followed by the output buffer, are the bytes accepted so far, in order; the alarm is
raised exactly while the buffer is at the mark or over it; nothing is buffered behind the end
of the stream.

**TcpServer.** For any pools, connections, descriptors and bounds. `LifeInv` holds
always, racing calls included: which functor is in which loop's queue, and that a raw
functor has the connection's `ConnectDestoryed` still to come behind it in its own queue or the
connection still in the map. `OrderInv` is what the asserts need (states, callbacks
and the map agree with the one removal on its way) and holds until a call has
written over `KDisconnected` (`overwritten`). `PoolInv` is the handshake of
`startLoop` with `threadFunc`. That the threads of a pool build different loops, none of
them the base loop, is part of `ServerAssumption`: each constructs its own on its stack.

**TimerQueue.** A timer is in one place because each addition is queued once and numbers
are not given twice. That a cancellation is final rests on where `cancelInLoop` may find
the timer: waiting, in the batch that runs (then `reset` leaves it out) or nowhere. `ClockInv`,
for the timerfd, needs valid expirations, so `TimerfdArmedInTime` has the hypothesis
`NoWrap`: the clock's product stays below half of `Wrap`. Past it the statement is false
(`timers_wrap`); the other two theorems hold there as well. The clock does not start
after its last tick (`Start <= MaxTime`).

**TcpClient.** `AlwaysInv` holds in spite of calls amid the connector's work: a socket that is
closed and a timer that expires were counted, and the connection that a delayed close is
for is up. `FunctorInv` and `StateInv` hold as long as nothing came too early (`early`).
Their heart is the order of `resetChannel` and a forced close: as
the first is never behind the second, a connection that closes finds the channel
gone and may restart the connector. `FinalInv` says why nothing wakes the connector after
`disconnect()`.

Only model-checked: liveness, and what depends on fairness (`Collected`, `BackToPoll`,
`TimeoutMakesFair`, `CloseGoesThrough` and the other properties of the fair
specifications), which is beyond TLAPS's reach here; and the four properties that the code
violates.

## 5. What is not modelled

- The destructors of `EventLoopThread`, `TcpServer` and `TimerQueue`: `quit_` is never
  set, so no loop returns, and no program destroys them while it goes on.
  `~EventLoopThread` would join for ever.
- `forceCloseWithDelay` in `TcpServer`: there every close is immediate, by the loop, the peer
  or a worker thread. What a delayed close adds is the moment at which it comes, which
  `TcpConnection` and `TcpClient` have.
- Calls of `TcpClient::disconnect` and of its destructor from another thread, and a
  client that is deleted by the close callback of its own connection.
- Memory: objects keep their identity after deletion. That functors with a raw `this`
  find their object is a property (`RawFunctorsSafe`, and `NoAssertFails` of
  TcpClient); that a caller's bytes outlive a queued `sendInLoop`, and that
  `timer->sequence()` is read after the hand-over, are listed as hazards.
- The first call of `ThreadPool::GetInstance`, and the unsynchronised count
  `Timer::seqTotal`.
- Errors of system calls other than write, read, connect, accept and epoll_ctl, whose
  returns the code tests and ignores (`SocketHelper.cpp`); socket options, addresses,
  logging, the logic layer and the two programs.

Disagreements found while reading that no run shows:

- `Eventloop.cpp:165` says that two cases need a wakeup. A functor that the loop
  thread queues before `loop()` is neither, and waits for the poll timeout
  (`early`, and the hypothesis of `TimeoutMakesFair`).
- `TcpConnection.cpp:96` keeps `readFd`'s result in a `size_t`: an error counts as
  data, and the error branch at line 105 is dead. The model has it
  (`CountsAsData`), and `PeerGoneDestroys` holds nevertheless, as the next read
  returns 0.
- `TcpConnection.h:137` notes that `state_` should be atomic. That would not be enough:
  `shutdown` or `forceClose` of another thread tests it, the connection goes down, and
  the call writes `KDisconnecting` over `KDisconnected`. A queued `forceCloseInLoop`
  then closes the connection again, the callback says down twice, and
  `TcpServer.cpp:109` or the destructor's assert fails. `server` shows that of its own
  calls (`send`, `shutdown`, `forceClose`) none does it otherwise: `NoAssertFails` and
  `CallbacksPaired` hold until it has happened (`overwritten`). A delayed close is a second
  way to the assert of `TcpConnection.cpp:153` (`conn_delay`).
- `TcpConnection.cpp:335` closes the connection when the timer of `forceCloseWithDelay`
  expires, in the middle of a round of the loop. In a client that reconnects this is too
  early also in the round of `Connector::handleWrite` itself, before its `resetChannel`:
  `TcpClient` restarts the connector, and the assert of `Connector.cpp:127` finds the old
  channel (`early` has `"close"`). `forceClose` does not have the problem, as its functor is
  behind `resetChannel` in the same queue.
- `TcpConnection.cpp:192` and `297` queue the raw `this`. `RawFunctorsSafe`: the functor
  that holds the last reference, `ConnectDestoryed`, is behind them in the same queue,
  so they are safe, except when the connection went down between the call's test and
  its `queueInLoop` (`late`).
- `TimerQueue.cpp:156` takes a timer it does not find for an expired one; it may not have
  been inserted yet, and is then inserted and fires although it was cancelled. Only a
  cancellation by the loop thread can overtake another thread's addition like that
  (`overtook` in `CancelIsFinal`).
- `SocketHelper.cpp:21` says that the descriptor is closed on exec, but sets `FD_CLOEXEC`
  with `F_SETFL`, which does not do it; the code never calls exec.
- `threadpool.cpp:34` notifies so that the threads finish their work. `m_bStop` is set
  at line 33 without the mutex: a worker that has tested it and not gone to sleep
  misses the notification, and the destructor joins it for ever. `DestructorReturns`
  excludes exactly the workers that missed it (`NobodyMissedIt`).
- `~TcpClient` without a connection calls `Connector::stop`, which queues `stopInLoop`
  with a raw `this`, and then drops what may be the last reference: the functor
  runs with a deleted connector, or `~Connector` finds `channel_` set and its assert
  at `Connector.cpp:31` fails. In `TcpClient` every such end is marked `early`.
- `TcpClient::disconnect` during an attempt does not stop it: the connection is made.
  A `connect` after a connection was made, or amid an attempt, fails the assert of
  `Connector.cpp:46`, as the connector is `kConnected` or `kConnecting`; one beside a
  retry timer makes it fail when the timer expires (`early`).
- `threadpool.cpp:8` says that the pool is built eagerly; it is built at the first
  call, without a lock.

## 6. Plan

Done, in this order: EventLoop with TaskQueue and its proofs; TcpConnection;
TcpServer; the pollers; Buffer; TimerQueue; ThreadPool and its proofs; Connector and
TcpClient; EventLoopThreadPool and Acceptor, composed in TcpServer; other threads'
calls in TcpServer, overtaking cancellations in TimerQueue, `connect()` at every moment
in TcpClient; timers between a poll and the handlers of what it reported, in TcpConnection,
TcpClient and TimerQueue.

Then the proofs of all safety properties: ThreadPool, the pollers with `Poller`, Buffer
with `ByteFifo`, TcpServer, TcpConnection, TimerQueue, TcpClient.

Next: abstract specifications for components that have none (a byte stream for
TcpConnection, a set of due timers for TimerQueue), whose refinement would say more than
the invariants do, and proofs of what a step may never do (a state that goes
backwards, a callback after the last one).
