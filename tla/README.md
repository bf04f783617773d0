# A TLA+ model of the YY network library

YY is a C++17 library: an epoll event loop with a task queue, TCP servers and
clients on top of it, timers, a thread pool, a lock-free queue and an
asynchronous log. This directory models its components in TLA+, checks the
models with TLC on small instances and proves, with TLAPS and for every
instance, the safety of the event loop, the lock-free queue, connections,
server, client, timers, thread pool, fair mutex, both logs, the buffer, the
codecs and HTTP: every invariant, action property and refinement that a run
checks is also a theorem, and only liveness is left to TLC. Paths below are
relative to the repository.

## Inventory

| Component | State | Operations | What makes it correct |
|---|---|---|---|
| EventLoop (`Net/src/EventLoop.cpp`) | `status_` flags, `FunctionList_`, the eventfd, the active handlers | `loop`, `submit`, `DelayedExecution`, `quit`, `wakeup`, `doPendingFunctions` | tasks of one thread run in order, each at most once; none is forgotten; `quit` ends the loop; its asserts hold |
| LockFreeCurcularQueue (`Common/`) | slots with sequence numbers, two positions | `enqueue`, `dequeue`, `empty`, `full`, `getRemainCapacity` | a bounded FIFO queue; slots are not shared; a refusal has a reason |
| TcpConnection, EventHandler, Epoll (`Net/src`, `Net/Poller`) | send and receive buffers, `Connstatus_`, interest and epoll status, queued closures | `send`, `disconnect`, `sendOutput`, the read, write, close, error, except handlers | the stream is intact, flushed, and shut down after the data; a closed connection is not touched again |
| EventLoopThread(Pool), AcceptorPool, Acceptor, TcpServer | loops and their threads, the set of connections | `loop`, `stop`, `accept`, `NewConnection`, `removeConnection` | every connection is owned by one loop and released once; start and stop in any phase |
| TcpClient, Connector (`Net/src/TcpClient.cpp`) | connect state, retry delay, the connection | `connect`, `stop`, `disconnect`, `retry` | one connection at a time; no connect after `stop` |
| TimerQueue, TimerWheel, Timer | a set ordered by expiration; slots and rotations | `insert`, `cancelTimer`, expiry, `tick` | every timer fires as often as asked, not early, not after cancel |
| ThreadPool (`ThreadPool/`) | worker queues, global queue, dependencies, monitor | `submit`, `dep_submit`, `add_dependency`, `shutdown` | each task runs exactly once, after its dependencies; shutdown ends |
| TcpConPool, TcpBuffer, Codec | free connections; buffer indices | `acquire`, `release`; `append`, `consume`, `expend`; encode, decode | no object twice; bytes come out as they went in; frames are found whatever the splits |
| FairMutex, AsyncLog, SyncLog, RingBuffer, SafeVector (`Common/`) | waiters; log buffers | `lock`, `unlock`; `append`, the writer thread | mutual exclusion, hand-over; no log line lost, the destructor ends |
| HTTP, protobuf codec (`Net/HTTP`, `Net/protobuf`) | parser states, pending requests | `parseRequest`, `parseResponse`, `onMessage`, `sendRequest`; `decode` | messages are found whatever the splits; each response meets its request |
| UDP, RPC, ConfigCenter, sockets | wrappers | | mostly I/O |

Interaction. Every object of the network part belongs to one loop; other threads
reach it only by `submit` to that loop, on the loop's own thread `submit` runs the
closure at once and `DelayedExecution` always queues it. Epoll calls back through
`EventHandler::handler_revent` with a raw pointer. The acceptor's loop and the
worker's loop exchange connections by tasks in both directions.

What is hard here: `status_` is a plain `int` read by all threads; wakeups are
omitted on purpose; callbacks close the object whose callbacks are being
dispatched; closures outlive what they refer to; sockets are written partly and
the peer acts between any two system calls; a queue is driven around its ring.
The list of hazards, each at its line, is in `PROJECT.json`.

## Modules

- `TaskExecutor` – abstract: what a loop promises to the threads that give it
  tasks (one FIFO line per producer, run or lose, stop only when told and
  drained).
- `EventLoop` – the loop thread and its callers. Every read and write of
  `status_`, every enqueue, dequeue and eventfd access is one step. `lpc` and
  `tpc` are the program counters. `FunctionList_` (moodycamel's queue, external)
  is one sequence per producer. The eventfd is level-triggered: `Event::value()`
  is passed to `epoll_ctl` unchanged and `LogicEvent::Edge` (1<<7) is not
  `EPOLLET`. `ran`, `lost`, `skipped` are history variables.
- `BoundedFifo` – abstract: a FIFO queue of at most `Size` elements, whose
  consumers take an element at one instant and return it later.
- `LockFreeQueue` – the ring. One action per atomic access and per access to a
  slot's data; `compare_exchange_weak` may fail spuriously. The steps of one
  thread are not reordered (x86-64), and the wrap of `size_t` after 2^64
  operations is not modelled. `log` and `delivered` are history variables.
- `TcpConnection` – one connection, its handler, its loop seen from it
  (poll, dispatch in the order of `handler_revent`, tasks up to the batch
  limit), calling threads, the message callback, the kernel's socket and the
  peer. Data is a sequence of numbered units; a message is `MsgLen` of them. The
  kernel accepts what its send buffer has room for, reports reset, half-close
  and urgent data as Linux does (external). Both builds are modelled: `asserts`,
  chosen in `Init`, says whether `assert` is compiled in (README.md:73 documents
  the build with `NDEBUG`). A failed assert is the place `abort`, a destruct
  closure on an object that is gone the place `dangling`. The application handles
  SIGPIPE, as the programs under `Net/StressTesting` do.
- `ThreadPool` – workers with their queues, the global queue, stealing,
  dependencies and the monitor. `submit`, `dep_submit`, `add_dependency` come from
  one calling thread; every access to a queue, to the counter of unresolved
  predecessors, to the status or to `workers_mutex` is a step. After its function a
  task goes through its dependents in `Visit` (the assert), `Decrement`, `Test` (the
  load), `Release` (the store of PENDING) and `Enqueue`. `dep_submit` and
  `Adjust_Worker_Strategy` are modelled as written, although no program of the
  repository instantiates them.
- `Timer`, `TimerQueue`, `TimerWheel` – the timers. In the queue time is counted
  down to the keys under which timers are stored, so behaviours need no bound on
  time; in the wheel time is counted in calls of `tick()`. Callbacks may insert and
  cancel. A timer of the queue that is over is replaced by a new one (`Another`), so
  `runTimer` can be called for ever. `getDueTasks` looks for the keys up to *now*
  with a null pointer in the sentry: an entry whose key is exactly *now* stays
  behind, and with asserts compiled in the process aborts. `fd` is `Disarmed` when
  the timer it was set for has interval 0.
- `TcpServer` – `TcpServer`, `AcceptorPool`, `Acceptor`, the thread pools and
  `TcpConPool`: acceptor and worker threads each with a task queue (as
  `TaskExecutor` promises it: in order, run or *lost*), clients that arrive and
  close, start and stop in the order of the code. The `Lose` actions are the task
  that `doPendingFunctions` takes out and drops, for each kind of closure: the
  accepted client on its way to a worker, the insertion, the removal, the destruct
  closure, the quit. `lost` records them and `MaxLost` bounds them. `quit()` is two steps,
  the closure and the write to the eventfd. `fault` records a null loop, a task for a loop
  that is gone, the eventfd of a loop that is gone, a connection destroyed while
  in use, or the exit at the descriptor limit.
- `TcpClient` – client and `Connector`: an application thread, the loop, the
  sockets and the peer; the retry timer may fire at any time. `disconnect()` and
  `stop()` test `connection_` and use it in two steps; when the loop has emptied it
  in between, `nulled` is set and the behaviour ends.
- `TcpBuffer` – the buffer as a value: two indices and the bytes, consumed ones
  included.
- `Codec` – line, length and protobuf framing over a `TcpBuffer` that receives
  the stream in arbitrary pieces. `MaxLength` and `MAX_MESSAGE_SIZE` are the limits
  of the two decoders (the encoders have none); `unknown` is the set of messages
  whose type the receiver lacks or whose name is too long.
- `Http` – `HttpServer` and `HttpClient` over two byte streams: parser, routing,
  responses, pending requests.
- `FairMutex`, `SyncLog` – the hand-over mutex with spurious wakeups, and the
  synchronous log above it: append, roll, flush.
- `AsyncLog` – callers, the background thread and the destructor. Every test, read,
  clearing and assignment of the two unsynchronised buffer pointers is a step.
- `EventLoopProofs`, `LockFreeQueueProofs`, `TcpConnectionProofs`,
  `TcpServerProofs`, `TcpClientProofs`, `TimerProofs` (queue and wheel),
  `ThreadPoolProofs`, `StreamProofs` (`FairMutex`, `SyncLog`, `AsyncLog`,
  `TcpBuffer`, `Codec`, `Http`) – the inductive invariants and the theorems. A
  component that shares its run with others has a specification of its own for
  them: `SyncSpec`, `AsyncSpec`, `CodecSpec`, `HttpSpec` and `WheelSpec`.
- `MC*` – the instances for TLC. `MCTimers`, `MCStreams` and `MCLog` put
  components that share nothing side by side in one run; a behaviour uses one.

Operators whose comment says "Mutant of" are broken variants of the definition
that follows them; they are not used by the specifications. They document, for
each property, a plausible mistake that the property detects.

## Runs

| Run | Shows |
|---|---|
| `event_loop` | with two calling threads: the asserts the loop thread evaluates hold; when the loop sleeps on a queued task, that task's `wakeup` saw `PendingFunctions`; a finished `quit` is always signalled; `EventLoop` implements `TaskExecutor`; `quit` ends the loop; whatever is queued leaves the queue, omitted wakeups included |
| `event_loop_lost` (violation) | the task behind the batch limit is dequeued and dropped (`EventLoop.cpp:261`), against README.md:25 |
| `queue` | two enqueuers, two dequeuers, one observer, two slots: exclusive slots, honest refusals, nothing missing, a bounded FIFO queue |
| `tcp_connection` | the stream is intact, nothing is stuck, shutdown comes after the data, asserts fail only after the close; with asserts and without, a destroyed connection is unreachable, but for a second destruct closure that takes a build without asserts and an edge-triggered connection or one that reads out-of-band data; buffered data is flushed and a pending shutdown happens |
| `tcp_disconnect` (violation) | `disconnect()` with data buffered never shuts our side down, against `TcpConnection.h:274` |
| `thread_pool` | no task is lost, a second copy needs two racing predecessors or a late declaration; predecessors named before a worker found the counter at 0 run first; tasks run and `shutdown` returns unless the monitor and a worker block each other |
| `timers` | the timerfd is armed whenever timers wait; no timer is early except one put back under its old key; timers execute unless insertions, each of which re-arms the timerfd, never end; on the wheel every node is on time and none is lost |
| `tcp_client` | no socket is lost sight of: each open one is the attempt's, the connection's or one that `stopInLoop` left open; the handler is replaced in its own callback only in one race; with retry the client connects again |
| `tcp_client_stop` (violation) | after `stop()` a pending retry timer connects again, against `TcpClient.h:71` |
| `tcp_server` | faults only in the start and stop windows or at the descriptor limit; whatever closure a loop drops, a connection in use is destroyed only after its pooled object was reused or when its insertion was dropped; clients are served and released unless the very closure that does it was dropped |
| `streams` | frames up to the first one that the codec refuses, HTTP requests and responses come out as they went in, except in the cases listed below |
| `logs` | the fair mutex never loses a hand-over; `SyncLog` has a line on disk when `append` returns; `AsyncLog` keeps all lines in order while nobody races on its pointers; its destructor returns unless it ran before `loop()` began |

What the passing properties leave open is deliberate. `StallOnlyAfterPendingSkip`
describes the window in which a task waits for the poll timeout (100 ms): the
loop has found the queue empty and has not cleared `PendingFunctions` yet.
`StreamIntact` says that messages are in order *unless* a direct send overtook
buffered data, which `sendInLoop` allows (`TcpConnection.cpp:255`).
`AbortOnlyAfterClose` says when the asserts of `Epoll` can fail: after
`handleClose` ran in the same dispatch (`EventHandler.cpp:75`). A property that names
such a case bounds it: it shows that the promise fails there and nowhere else, and
does not forbid the case. The notes of the hazards in `PROJECT.json` say where that
is so. Further:

- `TcpConnection`. Without asserts a second `handleClose` in one dispatch queues a
  second destruct closure with the raw `this` of the connection that the first one
  destroys. `DestroyedIsUnreachable` shows that it takes an edge-triggered connection
  or one that reads out-of-band data; the plain level-triggered one is safe in both
  builds.

- `TcpServer`. The acceptors start before the workers, so an early client meets a
  null loop; `stop()` ends the acceptors first, so a connection that closes later
  reports to a loop that is gone; at the descriptor limit the process exits
  (`acceptAutoOrDie` on the failed descriptor). A pooled connection object may be
  acquired again before its delayed removal has run: the removal then hits the
  new connection, or the set of another acceptor keeps the object. The separate
  accesses to `nextId` only cost balance. A report to a worker that is gone never
  happens. A loop that has 100 closures in one batch drops the next: the accepted
  descriptor is then never served, the removed connection never released, or, when
  it is the insertion, the last reference to an open connection is gone. A loop
  that has run the closure of `quit()` may be destroyed before `quit()` writes to its
  eventfd.
- `TcpClient`. `retry_` and `connection_` are read without synchronisation.
  `stop()` racing with the establishment leaves the connection; after a loss
  without retry the state stays `kConnected` and `connect()` does nothing;
  `disconnect()` and `stop()` use a `connection_` that the loop may have emptied since
  they tested it;
  `stopInLoop` abandons the socket of a connect in progress.
- `ThreadPool`. The monitor joins a worker while it holds `workers_mutex`; a
  worker that waits for that mutex in `try_steal_task` blocks both. The monitor's
  `worker_count` is never lowered, so it can remove the last worker. A predecessor
  that is declared after a worker has found the counter at 0 and before it stores
  PENDING (`ThreadPool.tpp:14-15`) passes the test of the status and is not waited for.
- `TimerQueue`. A timer goes back into the set under the key that has expired; a
  FOREVER timer is filtered out before it has executed once, which no property
  holds against `Timer.h:68`; interval 0 disarms the timerfd. Every insertion sets the
  timerfd to the whole interval of the first timer, so insertions that come often
  enough starve all timers: `TimerFires` has this as its only alternative for a timer
  that was neither cancelled nor disarmed.
- `Codec`. `readView()` shows one byte too many: a stale byte can complete a
  frame, and `consume` then asserts. `ProtoMsgCodec::decode` fails for ever when
  part of a second message is behind a complete one, or when the message is too
  long or its type is unknown: the loop around `msgComplete` then never ends. A frame
  above the limit of `LengthCodec` stays in the buffer, and the stream behind it is never
  decoded.
- `Http`. After an incomplete parse the parser appends the whole receive buffer
  again; a request with `Connection: close` is routed again; a response can
  overtake the push of its request; the client takes 100 Continue for the final
  response.
- Logs. Two overlapping `append()`, or `loop()` testing `Receptionbuffer_` in the
  middle of a refill, lose lines, use deleted buffers or abort. Lines that are in
  no full buffer when the destructor runs are never written. `SyncLog::append`
  flushes outside the mutex and may use a file object that another thread has
  deleted.

Bounds. `Quota`/`Calls`: tasks or calls per thread. In `event_loop` each thread,
the loop's callbacks included, makes one call, which is enough for a task or a
quit of one thread to race with another's and with the loop's own (the safety
properties and the refinement are proved for every quota, so the run is small
enough for liveness); `BatchLimit` is 1 instead
of 100 so that a batch overflows. In `queue` each enqueuer enqueues three times,
so positions go round the ring of two three times while both dequeuers race; the
symmetry of the threads of one kind is used (no liveness is checked there). In
`tcp_connection` a message has two units and the kernel two units of room, so a
send is accepted whole, in part or not at all; one thread makes two calls and
the callback one; one unread chunk and `MaxReadNum` 1 make `handleETRead` queue
its continuation; the batch limit is 2. The interests are `{Read, Except}`,
`{Read, Edge}` or `{Read}`, each with asserts compiled in and out. `thread_pool`: two plain tasks, one waiting task and two
workers, so that two predecessors finish together and a worker is stolen from
and removed. `timers`: a periodic timer, one that executes once and a FOREVER
timer of interval 0, each replaced by a new one without end in the queue, with
asserts compiled out, so that behaviours go on where the assert of `getDueTasks` fails
(the theorems take both builds); the wheel has two slots, so intervals are shorter than,
equal to and longer than a rotation. `tcp_server`: `Arrivals` lets two clients come at
different acceptors or three at the same one, so that the pool must reuse an object,
and `MaxLost` is 1: any one closure may be dropped.
`tcp_client`: `Connects`, `Stops`, `Toggles` bound the calls of the application, the
peer and the timer are not bounded. `streams`: five frames of lengths 0 to 4 in a
buffer of three bytes, which moves and grows, of which the fourth is above the limit
of `LengthCodec` (2) and the fifth above that of `ProtoMsgCodec` (5 with its header),
and any set of them of unknown type; three requests, with a body,
without one, and with 100 Continue and close. `logs`: three threads with two lines each
on the synchronous log, rolling after the second line; two callers and three
lines with buffers of one line on the asynchronous one, so that every call moves
a buffer. Deadlock is not checked where the processes may stop (`EventLoop` after
`quit`, an aborted process, a client that has no calls left).

Fairness. `EventLoop`: the loop thread is never stopped (each of its steps is
computation or an `epoll_wait` of at most 100 ms), and a thread inside a call
finishes it. `TcpConnection`: the loop thread keeps running and a callback
returns; a peer that is there keeps reading. `TimerQueue`, `TimerWheel`: the clock
goes on, callbacks return, the loop runs the closure it was given (strong
fairness in the wheel, where ticks may alternate with it). `ThreadPool`: workers
and the monitor go on, and a thread that asks for `workers_mutex` gets it in the
end (strong fairness). `TcpServer`: every loop and thread goes on, and what is queued
leaves the queue, run or dropped (`QueueIsServed`). `TcpClient`: the loop goes on and
timers fire; its loop and the one of the timers are assumed to keep the closures
they are given. `AsyncLog`: the background thread and the joining thread go on.
Nobody is required to call, send, connect or close.

## Proofs

The theorems hold for every value of the constants that satisfies the named
assumption of the module: any set of threads, quota, batch limit and build
(`LoopAssumption`); any ring size, threads and number of operations
(`QueueAssumption`); any message length, kernel room and calls, all lengths and
limits positive (`ConnectionAssumption`); at least one acceptor and one worker,
no thread listed twice, a client arriving once, any number of dropped closures
(`ServerAssumption`); any quotas
of the client's calls (`QuotaAssumption`); any timers, intervals and counts and
any wheel with at least one slot (`TimerAssumption`, `OffAssumption`,
`WheelAssumption`); finitely many tasks and `MinThreads <= MaxThreads`
(`PoolAssumption`); finitely many threads on the mutex (`MutexAssumption`,
`SyncAssumption`); any callers, lines and positive buffer size of the
asynchronous log (`AsyncAssumption`); any sizes of a `TcpBuffer`
(`BufferAssumption`); any lengths of frames and any limits, and a `Zero` (what `resize()` writes)
that is none of the frames' bytes, which the model tells apart by their frame and
place and not by their value (`CodecAssumption`); any list of requests and any length of the responses
(`HttpAssumption`). Finiteness is needed where a property counts.

Each module proves its invariant from `Init`, through every action, and reads
the properties off it.

`EventLoopProofs`. `TypeCorrect`, then the invariant `IInv`, which strengthens
`TypeOK` by three parts. `FlagsInv` ties the flags of `status_` to the place of
the loop thread and the wake handler in the active list to a non-zero counter;
it gives `LoopNeverAborts`. `CallInv` says that a thread inside `quit()` is
recorded in `inQuit` until it returns. `NoticeInv` says for each queued task why the loop
will look at the queue again: the loop is at a place from which it dequeues
before it polls, the counter is not zero, or the thread is still in its wakeup
or was turned away by `PendingFunctions`; likewise for quit tasks. The
properties `StallOnlyAfterPendingSkip` and `QuitIsSignalled` are not inductive
because they speak of the moment in `poll` only; `NoticeInv` covers the way
there. `LoopImplementsExecutor` maps each step to a step or a stutter of
`TaskExecutor`.

`LockFreeQueueProofs`. `TypeCorrect` for every ring size; the others assume
`Size # 1`: with one slot the sequence numbers of a full and an empty slot are the
same and an element is overwritten. The invariant relates a slot's sequence
number to the positions: for every position between `dequeuePos` and
`enqueuePos` who owns its slot and what its data is, and for every thread how
its local position relates to the shared ones. From it follow the exclusive
slots, the observers' difference, the honest refusals, the delivery of
everything, and the refinement of `BoundedFifo`.

`TcpConnectionProofs`.

- `AbortsExplained` and `NothingGetsStuck` rest on `CloseInv` (the handler is in
  the epoll set exactly until `handleClose`) and `WriteInv` (unsent data asks for
  Write at *every* place of the loop thread). `NothingStuck` speaks of the moment
  the loop sleeps and is not inductive alone. `FinFollowsData` is an action
  property and needs only the types.
- `StreamStaysIntact`: `StreamIntact`, restated as `Intact(out, k, past)` on the
  concatenation of wire and buffer, is inductive. The work is in lemmas on what
  appending a message, or a part of it with the rest going to the buffer, does to
  the concatenation.
- `NeverReachedAgain` needs `LifeInv`: where dispatch is half done (`FlowInv`),
  who queues which closures (`QueueInv`), that a connection which is neither
  edge-triggered nor reads out-of-band data has nothing left to dispatch that could
  close it again (`OnceInv`), that the destruct closure exists at most once and not
  before `handleClose` unless the connection is `Exposed` (`DestructInv`), and what is
  left when the object is gone (`GoneInv`, `DanglingInv`). It holds for both builds;
  `Exposed` is the exception that the property states.

`TcpServerProofs`. `ThreadInv` says which threads run at which index of `loop()`
and `stop()`; with it, and with what is known of acceptors and connections as
long as nothing has failed (`AcceptorInv`, `ConnInv`), `FaultsOnlyInWindow` is
inductive. `DroppedOnlyAfterReuseOrLoss` needs more: every client is in one place
(`PlaceInv`) and every object goes from open, to its destruct closure, to its
removal on the way, to nothing (`ObjectInv`), as long as no object was reused
with its removal pending and no insertion was dropped; a dropped destruct closure or
removal takes the object out of the way without destroying what is in use.
`DroppedOnlyWithPoolOrLoss` adds that without `TcpConPool` nothing is ever reused
(`UnpooledInv`), so the fault needs the pool or a dropped insertion.

`TcpClientProofs`. `SocketsOwned` speaks of the loop in `poll`; `SocketCount`
counts the sockets at every place, also while a failed attempt is on its way to
`retry`. `AttemptInv` says that an attempt and a connection do not exist
together, `HandlerInv` how `connectInLoop` can be reached below the callback of the
handler it replaces.

`TimerProofs`. For the queue, `KeyInv` (what `getDueTasks` has taken is due; a timer
that is not under its old key has waited as long as its key says) and `FiredInv`
give `NeverEarlyTheFirstTime`; `QueueInv` adds `EntryInv` (whatever the loop
holds, in `timers_`, among the expired or as a new task, was inserted) and
`QueueArmed` itself. For the wheel, `SlotsInv` relates for each node
its slot, its rotations and the cursor to the ticks it has waited, with a case
for the nodes of the slot being walked, and `OneNode` says that a timer has one
node, in the slots or in a closure under way. `OneNodeEach` adds that the node
is there: a timer that was handed in and has executions left has exactly one
(`NodesKept` with `OneNode`), although `tick()` links the new node into the slot
it is walking before it unlinks the old one. This is the safety part of
`WheelFires`.

`ThreadPoolProofs`. `Total(t)` counts a task in the global queue, the local
queues, the hands of workers, the caller's hand and the runs. `CopyInv` says it is
zero before the task is released and at least one afterwards, and that two
need a reason. Every move from one queue to another (steal, overflow,
`remove_worker`) keeps the sum. `CounterInv` bounds the counter of unresolved
predecessors from below by the set `Due(t)` of those that will still decrement
it; it is what makes `DependenciesRespected` follow: a worker that finds the counter
at zero finds `Due(t)` empty, and from then on (`Released(t)`: PENDING, or a worker is
about to store it) a further declaration makes the task `late` and awaits nothing.
`WalkInv` says that one worker goes through a task's dependents, after the task ran,
and what it has done to the one it is at.

`StreamProofs`.

- What is passed on as a stream is the concatenation of its parts: lines of
  buffers, bytes of frames, pieces of messages. `FlattenSeq` is a fold, and the
  induction theorems of the library cannot be used (they take an operator), so
  the module proves induction with sets (`SetInduction`, from the least element
  of a set of naturals). From it follow what `FlattenSeq` is on an appended, a
  concatenated and a blank sequence, and `PlaceFacts`: part `k + 1` of a stream
  stands behind the places of the first `k`.
- `FairMutex`, `SyncLog`. `HandOver` is inductive with the types; its proof
  counts the entries of `waiters_`. `AppendsDurable` needs to know where a thread
  is in the mutex at each place of `append` (`PlaceInv`), that without spurious
  wakeups only the owner writes and only to the current file (`ExclusionInv`),
  and where a line is between the write and the flush (`WrittenInv`).
- `AsyncLog`. `LinesInOrder` says that file, lists and current buffer hold
  together what was appended. It is inductive only with the ownership of the
  buffers while nothing has raced: one caller at a time and what it holds at
  each place of `append` (`CallersInv`), no buffer in two places and none of them
  deleted (`BuffersInv`), what `loop()` has left between its steps (`WriterInv`).
  The types (`AsyncTypeCorrect`) hold whatever races.
- `TcpBuffer`. `AppendFormFdAppends` and the lemmas on `appendImp`, the move to
  the front, the growth and `consume`: the readable bytes are the old ones
  followed by the new ones, or without the consumed ones, whatever the indices.
- `Codec`. `FramesIntact` compares payloads; `InStep` adds that the readable bytes
  begin with the first byte of the next frame, that they end where the stream has
  been read to, and that outside the loop less than a frame is readable. For each
  codec, the decoder on such a buffer finds that frame, refuses it (and then stays where
  it is for good), waits, or counts the byte that `readView()` adds.
- `Http`. `Window` says of one direction that a receive buffer and the bytes on
  their way are those of the messages `a + 1 .. b` of a stream; lemmas say what
  sending, reading and consuming do to it, and `DecodeFront` what `tryDecode_`
  makes of a buffer that begins with a message or a part of it, for every state
  the parser can be in. `ServerInv` is the window of requests behind the handled
  ones with the parser clear, `ClientInv` the window of responses behind the
  callbacks with the parser in step, and the pending requests. `RequestsIntact`
  and `ResponsesMatched` are read off them.

Only model-checked: the liveness properties (`QuitTerminates`, `QueueIsServed`,
`PendingDataIsFlushed`, `DisconnectingShutsDown`, `TaskRuns`, `ShutdownReturns`,
`TimerFires`, `WheelFires`, `RetryReconnects`, `ClientsComplete`,
`DestructorReturns`), since fairness and `ENABLED` are outside what the installed
provers do. `NodesKept` is not an invariant of a run: `WheelFires` is, which fails
when a node is lost.

## Not modelled

- `Poll` and `Select`: commented out in the sources.
- `UdpConnection`: no state but `closed_`.
- The RPC classes: they are in no build target and do not compile at this
  revision.
- `ConfigCenter`, addresses, `sockets`, signals, strings, time stamps, the log
  filter: value types, parsing of configuration, wrappers of system calls.
- moodycamel's queue and google-benchmark, which make up most of the
  repository's lines: the first is modelled by its interface, the second is not
  part of the program.
- Of `TcpConnection`: `setEvent`, `setReading` and `setExcept` on a running
  connection (they overwrite or extend the interest from any thread); several
  handlers in one poll. Of `TcpClient`: the destructor, the lengths of the
  delays, and closures that its loop drops. Of `TimerQueue`: an insertion closure that
  the loop drops (the timer is then never in the set). Of `TcpBuffer`: operations
  only tests use. Of HTTP: the router's table and the text of headers, and the
  branch of the client for a response with `Connection: close`, which this server
  never sends (`HttpClient.h:254`). Of the log: write errors, file names, and the branch of
  `append` for a negative `fileno`, which an open stream does not have.

## Plan

Done: `EventLoop`, `LockFreeQueue`, `TcpConnection`, `ThreadPool`, the timers,
`TcpServer`, `TcpClient`, `TcpBuffer`, `Codec`, `Http` and the logs.

The safety properties that the runs check are proved for all of them.

What is left:

1. `TimerQueue`: what `OneNodeEach` says of the wheel, a timer with executions left
   being in `timers_`, among the expired or in a task, with the FOREVER timers
   that the filter drops as the exception.
2. `TcpBuffer`: `prepend`, `unwrite` and `shrink`, once the library itself uses
   them.
3. `TcpConnection`: `setEvent`, `setReading` and `setExcept` on a running
   connection.
