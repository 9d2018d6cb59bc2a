# Verification of signal-event-loop

A TLA+ development of this repository: the objects, timers, signals, event
loops and thread pool in `core/`, the TCP server and stream connections in
`imp/network`, the firmware updater and the daemon service. The modules are translated from the code;
TLC checks them on small instances and TLAPS proves the statements listed
below for every instance.

## The system

| Part | State | Operations | Hard because |
|---|---|---|---|
| Object event delivery (`core/object.*`) | trigger queue, `execSubObjectSet`, `isTriggering`, parent | `addTriggerEvent`, `addSyncEvent`, `invoke`, `pushExec`, `handleEvent`, `getNextTimeOut`, `active` | foreign threads race the loop's walk of the tree; `invoke` blocks; full queues change who runs an event |
| Object timers, `Timer` | `timerMap`, `timerEventsMap`, `availableIdSet`, `lastTimerId`, fields of the handles | `addTimer`, `startTimer`, `stopTimer`, `releaseTimer`, `handleTimerEvent`, `setInterval`, `setSingle` | callbacks change timers while a batch is being fired; ids are reused |
| `TaskScheduler` | wakeup pipe, `channelsMap` | `exec`, `wakeup`, `onWakeupChannelRecv` | a poll must not sleep on work |
| Epoll and select schedulers, `IoChannel` | kernel interest set, fd map | `updateChannel`, `removeChannel`, `handleNetworkEvent`, `sync`, `stop` | fds are reused, weak references expire |
| Signals, Connections | connection lists of sender and receiver, `status` | `connect`, `emit`, `disconnect`, `disconnectAll` | both ends live on different threads and block on each other |
| `Athread`, `EventLoop` | `isExecing`, `threadId`, `running`, `index`, `taskSchedulers` | `startThread`, `stopThread`, `start`, `stop`, `waitStop`, `join`, `getIndex` | stop and wait race; several threads take schedulers |
| `ThreadPool`, its futures | `mTasks`, `mJoining`, status of each task | `schedule`, `pushTask`, `cancelTask`, `dequeue`, `run`, `spawn`, `join` | cancel races run, join races wait, slots run while a mutex is held |
| `imp/network`: TCP server, connection manager | `connections_map`, `token_directory`, timers, channels, the manager's map | `startListen`, `activeConnect`, cancel, `stopAll`, accept, `addConnection`, `removeConnection` | timeouts race completions and cancels; descriptors and tokens are reused |
| `imp/network`: cache buffers, stream protocol | `writeCache`, `readCache` and their frame maps | `sendFrame`, `on_write`, `on_recv`, `appendCache`, `resize`, `parseCache` | sends and receives of any length; the buffers move while offsets are kept |
| `log` | line queue, file and its size | log, rotate, register, unregister | lines logged while stopping |
| `imp/device-update` | the command in flight, packet numbers, the retry count | queries, transfer of two segments, resend, reload, quit | frames are lost, replies come late or twice, packet numbers of two segments look alike |
| `sub_project/daemon-service` | sessions, their processes and pipes, the redirect table | start, stop, restart, reload of a session, supervision, redirection of output | processes end at any time, three threads share descriptors that are reused |

Components interact in one way: a thread that is not the owner of an object
queues a closure on it and, for `invoke`, blocks until the owner's loop has run
it. Signals are lists of closures that are queued like that. The pool emits all
its signals on one scheduler, `pool_notify`. What is not modelled, and why, is
listed per component in PROJECT.json.

What makes each part correct:

- event delivery: an accepted event runs, once, in order; an invoke returns;
  the loop does not sleep on work;
- timers: a started timer fires, a stopped or released one stops, ids are
  neither lost nor shared;
- the pool: a task runs at most once, a cancelled one not at all, join waits
  for what is due, and nobody waits for ever;
- signals: a disconnected or destroyed receiver gets nothing more, both ends
  forget a connection, every call returns;
- the TCP server: a connect is reported once, and always; tables, timers and
  descriptors agree; an open connection is kept;
- stream connections: accepted frames arrive whole, in order, once;
- the updater: success means the image is on the device; an update ends;
- the daemon: no process or descriptor is lost, a process that ends is started
  again, a crash loop is given up;
- the event loop: stop makes waitStop return, join leaves nothing behind, every
  caller gets a scheduler that exists.

## The modules

**ObjectEvents** models event delivery: a tree of objects (`Parent`) rooted at a
scheduler, the loop's thread and any number of foreign threads (`Producers`).
`queue` and `running` are the two halves of `TriggerEventQueueForObject`: the
cache and the local queue it is swapped into. `execSub` and `todo` are
`execSubObjectSet` and the local set of `handleChildEvent`. `stage[o]` is the
line of `handleEvent` the loop has reached in `o`; the stages of a path of the
tree are the call stack. A producer makes one access to shared memory per step:
`Enqueue`, `Active` (the pipe), `CheckTriggering`, `SetTriggering`, and the same
again one level up, since `pushExec` is an `invoke` on the parent. A producer
that finds a queue full runs the closure itself (`RunInline`, `PushInline`).
The pipe is one bit: it holds a byte or not.

**EventFifo** is what a queue promises: accepted closures run in order, each
once. `ObjectEvents!ImplementsFifo` is the refinement, with
`pending[o] = running[o] \o queue[o]`.

**ObjectTimers** models the timers of one object, with relative times: the clock
lowers every stored time (`Tick`). `Collect`, `Fire`, `AfterCallback` and
`Recycle` are the four parts of `handleTimerEvent`; a callback may call timer
operations between `Fire` and `AfterCallback`. `calls` are operations that
foreign threads have queued with an id they read earlier. `MaxId` is the width
of `TimerId`.

**ThreadPool** models clients, workers, the thread that spawns and joins, and
`pool_notify`. `lock` is `mTasksMutex`, visible only where it is held over
several steps: while `schedule` announces a status, and between a worker's
checks and its wait. `SlotTasks` are tasks that a status slot schedules, on
`pool_notify`. `emitting` are the threads blocked until `pool_notify` has
run the slots of their emit. `Spurious` allows waits to return unnotified.

**EventLoop** models `start`, `stop`, `waitStop`, `join`, the destructor and
`getIndex`, and of each `Athread` its two flags and where `threadTask` is. What
a scheduler does in one round is ObjectEvents; what the pool does in its join is
ThreadPool; each is one step here. A stop may come between the test and the wait
of `waitStop`, and the wait may return unnotified (`SpuriousWakeup`).

**Signals** models one signal, a receiver, connections to slots and to a plain
function, and the calls `connect`, `operator()`, `emit`, `disconnect` and the two
destructors, on three threads: the signal's, the receiver's (which may be the
same) and one without a loop. A thread has a stack of calls; a call is a
procedure and the line it has reached. `invoke` runs the call at once on the
object's own thread and otherwise queues it and waits, during which the thread
handles nothing, as in the code. `status` is a set of two bits which is loaded
and stored in two steps. `Disconnectors` says who may cut connections in one
behaviour.

**TcpServer** composes the server with what it runs on: the tables of
`ITcpServer`, the channels and the interest set of the epoll scheduler, the
timers and the visit of its object, and the connection manager that the handler
of its signals feeds. One round is `HandleTimers`, `TimerCallback`,
`VisitConnection`, `VisitManager`, `Poll`, `IoCallback`, `EndRound`. Descriptors
are the lowest free ones, as the kernel gives them, and a batch of epoll events
may name one that was closed and opened again since. The handler may connect or
cancel in its callback (`TimeoutOps`, `IoOps`, `CancelOps`). The tables are
functions over all descriptors and tokens in which 0 is no entry. The constant
`Tries` lists the tokens that the search for a free one meets, whose last steps
are drawn at random in the code. The network is external and never has to answer.

**StreamBuffer** holds `IcacheBufferStream` as operators on a record: growth,
moving and shrinking of the cache, the queue of frames, partial consumption and
`decodeFrame`. A byte is its place in its frame, so that a frame that is cut or
joined wrongly is seen. **StreamConnection** is a sender and a receiver with
these caches and a socket that takes and gives any number of bytes. A step is
one `send` (`OnWrite`), one `recv` with its `appendCache` (`OnRecv`), one
iteration of the parsing loop (`Parse`) or of the popping loop (`Pop`);
`rxStage` is the loop of `on_recv` the receiver is in. After any `send` the next
one may find the socket full, so a `sendFrame` between two of them is a
behaviour of the code. The receiver may find a frame too old (`Parse` with `old`,
`MayAge`), and closes then as it does on an illegal length or a full cache;
`rejected` says which. **FrameStream** is what they promise: a stream of whole
frames; `ImplementsFrameStream` is the refinement.

**Updater** models `AimyUpdater`: all its members in `host`, one action per
handler (a reply, writing, the timeout of `resendTimer`, reload of the channel,
the calls of the user), `fillUpdateSliceContext` as a function with its padding
to words (`DataLen`), and an external
device that writes what it is sent. The link keeps the order; `LinkFaults` says
what else it does: loses a frame, loses the reply to QUIT, damages a reply,
merges two replies, resets.

**Daemon** models `DaemonWorker` and its sessions: the worker thread (`Check`:
reap, restart, start), the redirect thread (which copies its table, selects,
reads and erases, without a lock across these steps), and commands of other
threads. Processes and descriptors are external, and reused; `pipe2` fails when
no descriptor is free and `fork` fails up to `MaxForkFails` times, and the start
goes on as in the code. A restart is due at once, later or never.

`MC*` modules give the constants their values. Definitions whose comment says
*Mutant* are faulty variants of the definition that follows them; PROJECT.json
pairs each property with the variant that breaks it.

`*Proofs` modules hold the theorems.

## What the runs show

| Run | Instance | Shows |
|---|---|---|
| events_loop | depth 2, one foreign thread that calls the scheduler, timers on the grandchild | no sleep on an event, events run, invokes return |
| events_child | two threads call the scheduler and a child, capacity 2 | `isTriggering` implies a visit is on its way; FIFO refinement |
| events_lost | one child | *violation*: an invoke that never returns |
| timers_own | two timers, callbacks touch their own timer, a late foreign call | keys stay current, stopped means disarmed, a working timer fires, ids partitioned |
| pool | 2 tasks, 2 workers, a client that schedules, pushes and cancels, a slot that schedules, delays | at most one run, cancel in time is effective, join drains what is due and returns, tasks are taken; the circle of `schedule`'s emit with the slot is reached and is the only way to hang |
| eventloop_stop | 2 schedulers, one caller, stops at any time, spurious wakeups | a stop that finds the main thread waiting ends waitStop, the destructor ends, join leaves no thread |
| signals | 2 slots and a function, an emission of either kind, cut by the user, the receiver or the signal | `operator()` queues nothing on a destroyed object, both ends agree, nothing after the cut, calls return |
| tcpserver | 3 descriptors, 3 sockets, 3 tokens and as many tries; handlers connect again | each connect reported once, and always; tables agree; no stale channel; no descriptor lost; open connections kept |
| stream | 4 frames of 3 and 4 bytes, caches of 5, slices of 3, old frames, a connection that may break | offsets in bounds, no frame taken for garbage and no overflow but on the longest frames, frame refinement, accepted frames arrive |
| updater | images 8+10 and 0+14, slices of 8, pages of 12, one fault of any kind, one call | success means written, no rollback without a reason, what is sent fits pages, the update ends |
| updater_flash | the same | *violation*: an update whose device reports a broken flash ends with success |
| daemon | 2 sessions, 2 descriptors, a command, a failing fork, 2 errors allowed | no process lost, the pipe of a process is its session's, ended processes restart, crash loops end |

Why the bounds are enough. Two events, two foreign threads and capacity 2 give
every race of a producer with the loop and of two producers with each other, and
order: each property speaks of one object and one or two events. Depth 2 is the
smallest tree where `active` does not reach the scheduler and `pushExec` climbs.
Two timers are the smallest batch of several; an id that was released changes
hands while a call for its former owner is on its way. (They do not exhaust two
ids: that the counter's wrapped value is refused is left to `IdsPartitioned`.)
Two workers are the smallest pool in which a notification can go to the wrong
one; the one client and the slot on `pool_notify` are two threads that schedule.
Two slots make a walk over a list that changes under it, and the emission may
start before, during or after the cut. Three sockets are one that
holds a descriptor, one that loses it and one that gets it again. A cache of one
frame and a part of the next moves, fills and overflows; frames of two lengths
and slices not longer than either put every boundary inside a header, inside a
frame and at its end. The two images have a segment that ends inside a page and
one that is empty, a last slice that is padded, a segment of one slice and one
of several. Two descriptors for two sessions are reused with every restart, and
run out once a fork has failed.

The passing runs say where the code is right, next to the violations: invoke on
the *scheduler* returns (events_loop) while invoke on a *child* may not
(events_lost).

Other instances of the same modules, worth knowing and not among the runs:

*Event delivery*

- a foreign thread that calls a grandchild with an armed timer: `NoSleepOnWork`
  fails. `active` (object.cpp:221) reaches only the parent, so an event queued
  on a grandchild that is triggering already waits for the end of the poll, 5
  seconds at most.
- a timer started on an idle child by the loop's own thread: `TimersScheduled`
  fails. `startTimer` (object.cpp:251) puts nothing in the parent's
  `execSubObjectSet`. `activeConnect` called from an io callback
  (itcp-server.cpp:174) meets it, which is why `ConnectEnds` speaks of connects
  made in a visit of the server.

*Timers and pool*

- callbacks that touch any timer: `StoppedIsDisarmed` fails. A timer that is
  stopped by the callback of another in the same batch is still fired, and armed
  again (object.cpp:152).
- `CallsReturn`, `JoinReturns` and `TasksTaken` except `SlotCircle`, which the
  run `pool` reaches: `schedule` waits for `pool_notify` with `mTasksMutex` locked
  (thread-pool.h:199), and a slot that calls the pool waits for the mutex. With
  `SlotTasks = {}` or `Delays = {}` the three hold without the exception.
- a stop between the test and the wait of `waitStop` (event-loop.cpp:58) is lost,
  and `waitStop` waits on, unless it wakes unnotified. It is a behaviour of the
  run; `WaitStopReturns` speaks of stops that find the main thread waiting.
- `Others` not empty: `IndexInRange` fails. A thread that reads `index` between
  another's increment and reset (event-loop.cpp:99) gets the vector's size.
- one id, intervals 1 and 2, all callback operations: `WorkingFires` fails. A
  timer restarted in its own callback leaves a second entry, and after a
  release and the reuse of the id that entry can swallow the new timer's.
- `dequeue` returns due tasks while joining (thread-pool.cpp:71), which
  `JoinDrainsDue` shows and the comment at thread-pool.h:227, "returns null
  function if joining", denies (a finding in PROJECT.json).
- `Spurious`: the invariants of the pool hold when waits return unnotified too
  (two tasks, no slot and no delay). The liveness properties do not under weak
  fairness: workers that wake again and again may keep a client from the mutex.

*Signals*

- two disconnectors, `UserAndReceiver`: `QuietAfterCut`, `NoDeadCall` and
  `CallsEnd` fail, `EndsAgree` holds. Each loads `status` before it stores it
  (object.h:366), so that one sees the other's bit too late, and a call copied
  from the list is queued on a receiver that is gone. `SignalAndReceiver`:
  `CallsEnd` and `NoDeadCall` fail: each destructor waits for the other's thread.
- `Overlap`: `CallsEnd` fails. `connect` invokes on the receiver from inside an
  invoke on the sender (object.h:397), against a receiver that waits for the
  sender.
- `ForeignSignal` passes: `~Signal` runs on the thread that destroys it
  (object.h:462), whatever the thread of its object.
- `Signal::emit` (object.h:404) does not look at `status`, so it queues slots
  of a connection that was copied and cut since (413). When a function called by
  the same emission destroys a receiver of the signal's own thread, its slot is
  queued on an object that is gone: the run reaches it, and `NoDeadCall` excepts
  exactly this case. Slots queued before a disconnect run after it in either case.

*TCP server*

- `TimeoutOps` with `"cancelAll"`: `NotifiedOnce` fails. A cancel in the handler
  of one timeout (itcp-server.cpp:181) reports a task whose own timeout is in
  the same batch (232).
- `IoOps` with `"connect"` and `"cancelAll"`, four sockets and descriptors, five
  tokens: `ConnectionsKept` fails. An event of the batch
  (epoll-task-scheduler.cpp:84) meets the new owner of its descriptor.
- `CancelOps` with `"connect"`: `MapsAgree` fails. `stopAll` clears
  `connections_map` after the handlers ran (itcp-server.cpp:90), and with it
  what they connected.
- four sockets and three tokens: `MapsAgree` fails. When every try found its
  token taken, the counter has wrapped and the last is used (itcp-server.cpp:150).

*Streams*

- `MaxCache = MaxFrame`, the default of the code (10 MiB and slices of 1200
  bytes, protocal_stream.h:34): a slice that ends inside a frame and brings the
  next one does not fit when the frame is one of the longest, by less than a
  slice, and the receiver disconnects (icache_buffer.cpp:131). `NoFalseReject`
  says that only these do; the instance passes.
- `sendFrame` does not compare a length with the largest frame
  (icache_buffer.cpp:142): with `FrameLens = {3, 5}` and `MaxCache = 8`
  `CachesInBounds` fails, for a cache grows by one maximal frame, and so does
  `NoFalseReject`, for the receiver takes them for garbage. Frames of `packetFrame`
  are limited (protocal_stream.cpp:52), which is `PacketFrames`.
- a frame that is more than five minutes old when it is parsed is answered with
  an illegal length, and the connection closed (protocal_stream.cpp:106).

*Updater*

- a damaged reply stays in the cache: the parser's result for it is a `bool`
  that is initialised with -1 (Protocol.cpp:43) where the header speaks of
  negative values (Protocol.h:35), so the caller waits for the rest of it.
  `UpdateEnds` excepts it, and a lost reply to QUIT, which is sent once.
- the comments of FLASH_ERASE and FLASH_WRITE (device_updater.cpp:490) ask for
  the end of the update; the code logs them and sends the slice again
  (updater_flash, a finding in PROJECT.json). A passing failure is made up for, so
  `UpdateEnds` does not except it; a lasting one is logged for ever.
- the image `<<6, 10>>`: `SlicesFit` fails. The last slice of the vector table is
  padded to a word (update-file.cpp:246), the code is cut as if it were not, and
  what is sent for one of its slices crosses a page.
- a `quitStatus` of SUCCESS that an earlier transfer left is not told from one of
  the transfer after a reload: "complete" in `happened` is kept over it.
- `"stale"` in `LinkFaults`: replies that outlive a reload count for the new
  transfer, and slices are skipped.
- the image `<<2, 1>>`, a vector table and a code of one slice:
  `NoSpuriousRollback` fails without any fault. A slice that was sent twice is
  answered twice; the second answer to the vector's last packet, number 0, has
  the number of the code's only packet, the reply is known by its number alone
  (device_updater.cpp:507), and the updater finds no slice after it (516).
- `SeqWidth = 2` and the image `<<2, 4>>`: `SuccessMeansWritten` fails. When the
  numbers of the code wrap, its first packet has the number of the vector's last
  one, and a late answer to that one confirms it.

*Daemon*

- `OutputRedirected` of MCDaemon fails: the redirect thread erases from its
  table the descriptors that it found at their end in a copy
  (daemon-instance.cpp:1049); one of them may have been closed, opened again for
  a new process and registered.
- `ReadsOwn` of MCDaemon fails: `handleStdoutRedirectTask` compares `readFd` with
  the descriptor (daemon-instance.cpp:1064) and reads it (1070) without
  `m_dataMutex`; between the two it may be closed and opened again for another
  session, whose output then goes to the first.
- the pipe of a start whose fork failed is kept open, and leaks when the next
  start overwrites `readFd` (daemon-instance.cpp:1439). The run has it;
  `PipesHeld` is about the pipes of processes.
- `Unkillable`: `ProcessesOwned` fails, a process that outlives its signal is
  forgotten (1445).

`pool`, `eventloop_stop`, `signals`, `stream`, `updater` and `daemon` do not
check for deadlock: everything may be joined, destroyed or done, and nobody need
call again. Their liveness properties exclude the bad ones.

## Fairness

Weak fairness of each thread's own steps, never of calls: the operating system
runs every thread, mutexes are released, and callbacks return. `LoopStep`
includes the end of a poll, which the 5 second timeout of `TaskScheduler::exec`
justifies. `Tick` is fair: time passes. A worker or client that waits for
`mTasksMutex` gets it under weak fairness because in these instances it is
taken finitely often.

In TcpServer every part of a round is weakly fair; `VisitManager` and `Expiry`
are strongly fair, because they are enabled in one part of a round only and
every round comes by them: a queued removal is handled in one of the next
rounds, and a timer expires before one of them. In StreamConnection the two
schedulers serve their channels; in Updater the scheduler serves its channel and
its timer and the device answers what reaches it; in Daemon the worker, the
redirect thread and time are fair, and fork fails `MaxForkFails` times at most,
so that a start that is tried again succeeds at last. Nothing is assumed of the network, of peers,
of what processes write or when they exit, nor of anybody's calls.

## What is proved

Each theorem holds for every value of the constants that satisfies the module's
named assumptions (and the hypothesis in the last column): any tree, any number
of threads, timers, tasks or sessions, any size of queues and buffers.

| Theorem | States `Spec =>` | Beyond the module's assumptions |
|---|---|---|
| `ObjectEventsProofs!TypeCorrect` | `[]TypeOK`, the bound of the queues included | |
| `ObjectEventsProofs!TriggeringScheduled` | `[]TriggeringMeansScheduled` | |
| `ObjectEventsProofs!QueueIsFifo` | `ImplementsFifo` | |
| `ObjectEventsProofs!LoopAwake` | `[]NoSleepOnWork` | `NearTargets` |
| `ObjectTimersProofs!IdsPartitioned` | `[]IdPartition` | |
| `ObjectTimersProofs!KeysAreCurrent` | `[]KeyIsCurrent` | `OwnTimer` |
| `ObjectTimersProofs!StoppedStaysDisarmed` | `[]StoppedIsDisarmed` | `OwnTimer` |
| `ThreadPoolProofs!PoolTypes` | `[]TypeOK` | |
| `ThreadPoolProofs!EachRunsOnce` | `[]RunsOnce` | |
| `ThreadPoolProofs!CancelIsFinal` | `[]CancelledInTimeNeverRuns` | |
| `ThreadPoolProofs!JoinDrains` | `[]JoinDrainsDue` | `Workers # {}` |
| `EventLoopProofs!TypeCorrect` | `[]TypeOK` | |
| `EventLoopProofs!JoinedAreDead` | `[]JoinedMeansDead` | |
| `StreamConnectionProofs!BuffersInBounds` | `[]CachesInBounds` | `PacketFrames` |
| `StreamConnectionProofs!NeverRejects` | `[]NoFalseReject` | `PacketFrames` |
| `StreamConnectionProofs!FramesArriveWhole` | `ImplementsFrameStream` | `PacketFrames` |
| `DaemonProofs!OneProcessEach` | `[]ProcessesOwned` | `~Unkillable` |
| `DaemonProofs!PipesStayHeld` | `[]PipesHeld` | |
| `TcpServerProofs!ReportedOnce` | `[]NotifiedOnce` | `TokensSuffice`, `GentleHandler` |
| `TcpServerProofs!TaskMapsAgree` | `[]MapsAgree` | `TokensSuffice`, `GentleHandler` |
| `TcpServerProofs!NoStaleChannel` | `[]ChannelsAreCurrent` | `TokensSuffice`, `GentleHandler` |
| `TcpServerProofs!NoDescriptorLost` | `[]DescriptorsHeld` | `TokensSuffice`, `GentleHandler` |
| `TcpServerProofs!NoOpenConnectionDropped` | `ConnectionsKept` | the same and `GentleInIo` |
| `UpdaterProofs!SuccessIsWritten` | `[]SuccessMeansWritten` | `SlicesListed`, `NumbersFit`, `FreshLink` |
| `UpdaterProofs!NoRollbackUnprovoked` | `[]NoSpuriousRollback` | the same and `LongCode` |

The hypotheses, but for `SlicesListed`, say how the code is used or what its
environment does, and without each of them a statement that needs it is false of
the code; the instances are in the lists above. `NearTargets`: foreign threads call the scheduler or its direct
children, whose `active` reaches the pipe. `OwnTimer`: callbacks stop or
release their own timer, and touch no other. `Workers # {}`: `spawn(0)` starts
nobody who could drain. `~Unkillable`: a signal ends a process, as the code takes
for granted. `PacketFrames`: frames are no longer than `packetFrame` makes them. `TokensSuffice`: the 1000 tokens that one
search tries are different, and no more connects than that are under way.
`GentleHandler`: the handler cancels nothing when it hears of a timeout and
connects to nothing when `stopAll` tells it of a cancel; `GentleInIo`: it
cancels nothing in a callback of a channel. `NumbersFit`: the code has at most
2^16 slices. `FreshLink`: nothing that was sent before a reload arrives after
it. `LongCode`: the code has a second slice, or there is no vector table.
`SlicesListed` is a fact about the model and not an assumption on the system:
`Cut` yields a list of slices. It is an induction over a recursive definition,
which this prover cannot do; TLC could not evaluate `SlicesFit` on the images of
its run otherwise. The pool's properties speak of tasks with one
pusher (`OnePusher`), since two threads may push one task twice. The runs check
the same formulas on instances that satisfy the hypotheses.

**Event delivery.** `TriggeringMeansScheduled` is not inductive: a step of
`pushExec` relies on closures in an object's queue naming *its own* children,
and on `execSub` and `todo` holding only children of their object (`InPlace`);
and the end of a visit relies on the stack of stages being a path
(`VisitShape`). With both, every action either keeps a witness of `Scheduled`,
or hands it on: an add turns into a queued closure, that into a running one,
that into membership of `execSub`, then of `todo`, then into a stage other than
idle; and only the reset, which clears the flag, ends the visit. `SchedFrame`
says once that a step which loses no witness keeps the invariant.

The refinement of EventFifo needs that a user event is in one place: unused, in
the hands of one producer, in one queue, or run (`Once`). Then `Enqueue` is an
`Accept` of something fresh, the swap of the two halves changes nothing because
`<<>> \o q = q`, and the head of `running` is the head of the concatenation.

`NoSleepOnWork` needs the nesting of `handleEvent` (`Nested`: when the loop is
out of the scheduler's `handleEvent`, every visit is over), and that every
producer's object is near (`Near`), so that whoever has filled a visible queue
of a sleeping loop is at `active` or has written to the pipe.

**Timers.** `IdPartition` needs the types of the id variables and, for
`getNextTimerId`, that the least element of a nonempty set of ids exists
(`LowestInSet`) and that the wrapped counter is refused (`WidthOfId`). The other
two rest on `Armed` (entries are those of working timers, one each, under the
timer's key) and `Batch` (what is being fired or kept for later has no entry,
is named once, and only the head of the batch can have been changed since it
was collected). `Batch` is where the own-timer discipline enters: it is false as
soon as one callback touches another timer of the batch.

**Thread pool.** A task with one pusher is in one place at a time: in the hands
of its client, in `mTasks`, with one worker, or done (`OnePlace`), and the
status a client or a worker relies on cannot be undone behind its back (`Fresh`,
`Cancelled`). For `JoinDrainsDue` a due task is followed through the join
(`Drains`): it is queued and no worker has left, or some worker has it, or it is
done; a worker leaves only when nothing due is queued.

**Event loop.** `JoinedMeansDead` needs that a thread that has ended left both
flags reset (`Ended`), that join has reset the threads before its cursor
(`PassedAreJoined`), and that nothing starts a thread after the vector is
cleared (`ClearedAreJoined`).

**Streams.** Lemmas about each operation of a cache (`Shifted`, `Resized`,
`Extended`, `Appended`, `FrameAdded`, `Popped`, `Consumed`) say that it keeps
the cache `Sound` and what it does to the bytes behind an offset. `IInv` then
follows the bytes: the receiver's undecoded bytes, the socket and the sender's
unsent bytes are, one behind the other, one `Run` of the accepted frames from
the first that was not found to the end of the last one (`StreamInv`); every
byte is genuine, so its header tells the true length (`GenuineInv`); frames found
and not popped are the next accepted ones (`FoundInv`); and after parsing less
than a frame is left (`ShortInv`), so that a cache that cannot take one slice
more holds the greater part of an accepted frame: `NoFalseReject`. A break cuts the run at the sender's side only.

**Daemon.** `Steps` sorts all steps into four kinds: a session is given another
time, is reset, is started, or is left alone. `ProcessesOwned` then needs only
the types: a start takes a free process for a session that waits, a reset
follows `waitpid`. `PipesHeld` is inductive with the types: a session that waits
has no descriptor or one without a process, so that a start that overwrites
`readFd` leaves no process's pipe behind, and an entry of the table that names
the session is for a pipe that nobody writes to.

**TCP server.** A callback changes several tables one after the other and runs
the handler in between, so the invariant has to hold of states in the middle of
a callback. `TablesAgree(s, D, R)` therefore takes two sets: `D`, tasks whose
timer has been taken for `timeoutQueue` and which have none any more, and `R`,
tasks that are reported and not released yet. Between the steps it holds with
`D = due` and `R = {}` (`TcpInv`). It ties every table to `owner`: the socket of
a descriptor, its task, token and timer, its channel and its place in the epoll
set, and that exactly one of the listening sockets, the tasks and the manager
holds it. What each operation does to all tables is stated entry by entry
(`IsDropped`, `IsEnded`, `IsSame` and their kind), once for several tasks at a
time, as `cancelAll` and `stopAll` end them, and then shown to keep the
invariant. That a token is
found is the pigeonhole principle: the tries are more than the tokens in use.
`ConnectionsKept` needs in addition (`KeepInv`) that a connection with events in
its queue is over and still has its channel, that a queued removal is one of a
connection that is over, and that no event of the batch names a descriptor that
was closed since `epoll_wait` returned; the last is what a cancel in a callback
of a channel breaks.

**Updater.** A transfer is a walk along stages: ENTER, SOFTWARE, SEGMENT, each
slice of the vector table, each of the code. `Live` says where everybody is:
with the host in stage k (`HostAt`), either the device has done stage k - 1,
the replies under way are at most for that, and the frames are those of k - 1
followed by those of k (`Behind`); or the frames are all of k, the replies those
of k - 1 followed by those of k, and the device has done k, or k - 1 with no
success among the replies to k (`Abreast`). So nothing under way is more than
one stage off, and since the numbers of consecutive stages differ
(`StagesApart`, from the arithmetic of remainders), a reply to the stage before
is told from one to this stage, but for the case that `LongCode` excludes: there
the updater has run out of slices (`Stuck`), which is a state the invariant has
to keep as well, since `SuccessIsWritten` does not assume `LongCode`. The device
is handled by `Served`, what one frame makes of it: a packet that it has not seen
is new to it (`NewPacket`), one that it confirmed is not (`OldPacket`), and after
the last its flash is the image (`WholeImage`). `Honest` records that each bad
answer on its way was given by the device.

Only model-checked: liveness under fairness, which is out of the prover's reach;
`SlicesFit`, an induction over the recursive function of `fillUpdateSliceContext`;
and Signals (`NoDeadCall`, `EndsAgree`, `QuietAfterCut`), whose threads have
stacks of calls that may nest, and for which no inductive invariant has been
written down so far.

## Abstractions

- In ObjectEvents a timer map is only empty or not; firing is ObjectTimers.
- Closures do nothing but what the tree needs; user code is the set of actions
  `LoopAdd`, `StartTimer`, `StopTimer`, enabled where the loop runs user code.
- The tree is fixed: objects are destroyed in Signals only, for two of them.
- Tasks that are due are taken in any order.
- In EventLoop nobody takes a scheduler while the loop is being joined.
- In Signals, objects have one level of queue: their visits are ObjectEvents.
- In TcpServer a callback and all that its handler calls are one step: they run
  on one thread and share nothing with others.
- In StreamConnection a frame is the numbers of its bytes; its header says its
  length. The check code is not looked at; whether a frame is too old is chosen
  freely (`MayAge`).
- In Updater a slice is its offset and length, a reply its command, number and
  result; a packet number is sent modulo `SeqWidth`. A read of 128 bytes at most
  (device_updater.cpp:629) may split a reply, whose head stays in `readCache`
  until the rest is there: it is then handled as if it had come whole, so `OnRead`
  takes whole replies. (The head of one that comes behind another is dropped with
  the merged replies; its tail is then damaged data, as after `CorruptReply`.)
- In Daemon an exit is quick or not, a waiting session due or not; a check of
  all sessions is one check after the other, each under `m_dataMutex`.
  `resetBootStatus` removes, closes and resets `readFd` in one step although the
  redirect thread looks at `readFd` without the lock (1064): no session can open
  a descriptor before the lock is released, so what it finds in between is what it
  would find just before the step, and what it reads what it would read after it.

## Not modelled

Of the files under the repository most lines belong to other projects: BlueZ
(several copies under `examples/`), lua and sol, cJSON, md5, base64. They are
used as libraries, and examples show the use of the API; neither is part of what
this repository promises, and they are by far the larger part of its lines. Of
its own code:

- the logger: a queue with one writer and file rotation; lines logged while it
  is unregistered may stay in the queue (aimy-log.cpp:410);
- the datagram buffer, the websocket's header and mask, the CAN tables, the
  check codes: encodings without state of their own, or pure I/O;
- the select scheduler, which differs from the epoll one in how it asks the
  kernel;
- the daemon's configuration files, its command socket and the text of its
  snapshots. The command that loads a path changes the table of sessions without
  `m_dataMutex` (`loadPath`, daemon-instance.cpp:795, called at 482), while the
  worker walks it: an undefined behaviour which the model, with its fixed set of
  sessions, leaves out;
- device discovery, echo server, uevent monitor, dns solver, serial, hid and
  unix socket helpers: thin wrappers of system calls on the event loop.

Per component the reasons are in PROJECT.json.

## Plan

1. Proofs. Signals: `EndsAgree`, with an invariant over the stacks of calls.
2. Athread alone: concurrent start and stop, events accepted while the loop
   leaves (composition with ObjectEvents).
3. Reparenting: `addChildRef`, `removeChildRef` and `releaseAllRef` while
   objects are visited.
