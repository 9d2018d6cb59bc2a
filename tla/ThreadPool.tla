----------------------------- MODULE ThreadPool -----------------------------
(***************************************************************************)
(* core/thread-pool.{h,cpp}: workers that take timed tasks from a queue    *)
(* under mTasksMutex, clients that schedule, push and cancel tasks, the    *)
(* thread that spawns and joins the workers, and pool_notify, the          *)
(* scheduler on whose thread every status signal is emitted: the emitting  *)
(* thread is blocked in invoke until pool_notify has run the slots.        *)
(*                                                                         *)
(* Times are relative to now and stop at zero: tasks that are due are      *)
(* taken in any order.                                                     *)
(***************************************************************************)
EXTENDS Naturals, FiniteSets

CONSTANTS Tasks,       \* ThreadPoolFuture objects
          Clients,     \* threads that use the pool
          Workers,     \* threads of the pool
          Nobody,      \* no thread, no task
          Delays,      \* delays given to schedule, in ticks; 0 for enqueue;
                       \* empty when clients only use pushTask
          Pushers,     \* Pushers[t]: the clients that push or schedule t
          SlotTasks,   \* tasks that a slot run by pool_notify enqueues
          Spurious,    \* whether a wait on mCondition may return unnotified
          MaxSpawns    \* bound on calls of spawn

ASSUME PoolAssumption == /\ Nobody \notin Tasks \cup Clients \cup Workers
                         /\ Clients \cap Workers = {}
                         /\ Delays \subseteq Nat
                         /\ Pushers \in [Tasks -> SUBSET Clients]
                         /\ SlotTasks \subseteq Tasks
                         /\ Spurious \in BOOLEAN
                         /\ MaxSpawns \in Nat

TaskStates == {"init", "wait_start", "cancelled", "running", "finished"}

VARIABLES
  runningState,   \* of each task
  time,           \* of each task, ticks until it is due
  mTasks,         \* tasks in the queue; as a bag, since one may be in it twice
  lock,           \* who holds mTasksMutex
  mJoining,
  wpc, cur,       \* where each worker is, and the task it took
  until,          \* the task whose time a waiting worker waits for, if any
  cpc, ctask,     \* where each client is, and the task it works on
  emitting,       \* threads blocked in notifyStatus.emit
  slot,           \* the task pool_notify wants to enqueue for a slot, or Nobody
  jpc, spawns,    \* where the thread that spawns and joins is; calls of spawn
  ran,            \* how often each task's function has run, at most 2
  inTime,         \* history: tasks cancelled while they were only queued
  dueAtJoin       \* history: tasks that were due when join began

taskVars == <<runningState, time, mTasks>>
workVars == <<wpc, cur, until>>
clientVars == <<cpc, ctask>>
joinVars == <<jpc, spawns>>
history == <<ran, inTime, dueAtJoin>>
vars == <<taskVars, lock, mJoining, workVars, clientVars, emitting, slot, joinVars, history>>

Init == /\ runningState = [t \in Tasks |-> "init"]
        /\ time = [t \in Tasks |-> 0]
        /\ mTasks = [t \in Tasks |-> 0]
        /\ lock = Nobody
        /\ mJoining = FALSE
        /\ wpc = [w \in Workers |-> "off"]
        /\ cur = [w \in Workers |-> Nobody]
        /\ until = [w \in Workers |-> Nobody]
        /\ cpc = [c \in Clients |-> "idle"]
        /\ ctask = [c \in Clients |-> Nobody]
        /\ emitting = {}
        /\ slot = Nobody
        /\ jpc = "joined" /\ spawns = 0
        /\ ran = [t \in Tasks |-> 0]
        /\ inTime = {} /\ dueAtJoin = {}

-----------------------------------------------------------------------------
(* Helpers *)

Queue == {t \in Tasks : mTasks[t] > 0}
DueTasks == {t \in Queue : time[t] = 0}
Waiting == {w \in Workers : wpc[w] = "waiting"}

\* setStatus: nothing when the status is the same already; otherwise the new
\* status is stored and the calling thread is blocked until the slots have run.
SetStatus(thread, t, s) ==
  IF runningState[t] = s THEN UNCHANGED <<runningState, emitting>>
  ELSE /\ runningState' = [runningState EXCEPT ![t] = s]
       /\ emitting' = emitting \cup {thread}

\* Mutant of PushAndNotify: no notify_one.
PushNoNotify(t) ==
  /\ mTasks' = [mTasks EXCEPT ![t] = @ + 1]
  /\ UNCHANGED wpc

\* mTasks.push, mCondition.notify_one
PushAndNotify(t) ==
  /\ mTasks' = [mTasks EXCEPT ![t] = @ + 1]
  /\ IF Waiting = {} THEN UNCHANGED wpc
     ELSE \E w \in Waiting : wpc' = [wpc EXCEPT ![w] = "dequeue"]

-----------------------------------------------------------------------------
(* Clients *)

CStep(c, from, to) == cpc[c] = from /\ c \notin emitting /\ cpc' = [cpc EXCEPT ![c] = to]

\* schedule: a new task, whose time is fixed before the mutex is locked and
\* whose status is announced with it held.
Schedule(c, t, d) ==
  /\ CStep(c, "idle", "scheduled") /\ lock = Nobody
  /\ c \in Pushers[t] /\ runningState[t] = "init" /\ \A x \in Clients : ctask[x] # t
  /\ lock' = c
  /\ ctask' = [ctask EXCEPT ![c] = t]
  /\ SetStatus(c, t, "wait_start")
  /\ time' = [time EXCEPT ![t] = d]
  /\ UNCHANGED <<mTasks, mJoining, workVars, slot, joinVars, history>>

SchedulePush(c) ==
  /\ CStep(c, "scheduled", "idle")
  /\ PushAndNotify(ctask[c])
  /\ lock' = Nobody
  /\ ctask' = [ctask EXCEPT ![c] = Nobody]
  /\ UNCHANGED <<runningState, time, mJoining, cur, until, emitting, slot, joinVars, history>>

\* pushTask of a task made by buildTask: check, announce, then lock and push.
PushCheck(c, t) ==
  /\ CStep(c, "idle", "pushing")
  /\ c \in Pushers[t] /\ runningState[t] = "init"
  /\ ctask' = [ctask EXCEPT ![c] = t]
  /\ UNCHANGED <<taskVars, lock, mJoining, workVars, emitting, slot, joinVars, history>>

PushSetStatus(c) ==
  /\ CStep(c, "pushing", "announced")
  /\ SetStatus(c, ctask[c], "wait_start")
  /\ UNCHANGED <<time, mTasks, lock, mJoining, workVars, ctask, slot, joinVars, history>>

PushTask(c) ==
  /\ CStep(c, "announced", "idle") /\ lock = Nobody
  /\ PushAndNotify(ctask[c])
  /\ ctask' = [ctask EXCEPT ![c] = Nobody]
  /\ UNCHANGED <<runningState, time, lock, mJoining, cur, until, emitting, slot, joinVars, history>>

\* cancelTask: the status is read, then set. Nobody has the future of a task
\* that schedule has not returned yet.
CancelCheck(c, t) ==
  /\ CStep(c, "idle", "cancelling") /\ runningState[t] = "wait_start"
  /\ \A x \in Clients : cpc[x] = "scheduled" => ctask[x] # t
  /\ ctask' = [ctask EXCEPT ![c] = t]
  /\ UNCHANGED <<taskVars, lock, mJoining, workVars, emitting, slot, joinVars, history>>

CancelTask(c) ==
  /\ CStep(c, "cancelling", "cancelled")
  /\ SetStatus(c, ctask[c], "cancelled")
  /\ inTime' = IF /\ ctask[c] \in Queue /\ runningState[ctask[c]] = "wait_start"
                  /\ \A w \in Workers : cur[w] # ctask[c]
               THEN inTime \cup {ctask[c]} ELSE inTime
  /\ UNCHANGED <<time, mTasks, lock, mJoining, workVars, ctask, slot, joinVars, ran, dueAtJoin>>

CancelReturn(c) ==
  /\ CStep(c, "cancelled", "idle")
  /\ ctask' = [ctask EXCEPT ![c] = Nobody]
  /\ UNCHANGED <<taskVars, lock, mJoining, workVars, emitting, slot, joinVars, history>>

-----------------------------------------------------------------------------
(* Workers *)

WStep(w, from, to) == wpc[w] = from /\ w \notin emitting /\ wpc' = [wpc EXCEPT ![w] = to]

\* Mutant of Take: the task is not popped.
TakeNoPop(w, t) ==
  /\ WStep(w, "dequeue", "run") /\ lock = Nobody
  /\ t \in DueTasks
  /\ cur' = [cur EXCEPT ![w] = t]
  /\ UNCHANGED <<taskVars, lock, mJoining, until, clientVars, emitting, slot, joinVars, history>>

\* One round of dequeue's loop, under the mutex: a due task is taken, joining
\* or not ...
Take(w, t) ==
  /\ WStep(w, "dequeue", "run") /\ lock = Nobody
  /\ t \in DueTasks
  /\ mTasks' = [mTasks EXCEPT ![t] = @ - 1]
  /\ cur' = [cur EXCEPT ![w] = t]
  /\ UNCHANGED <<runningState, time, lock, mJoining, until, clientVars, emitting, slot, joinVars, history>>

\* ... otherwise the worker leaves when joining ...
Leave(w) ==
  /\ WStep(w, "dequeue", "left") /\ lock = Nobody
  /\ DueTasks = {} /\ mJoining
  /\ UNCHANGED <<taskVars, lock, mJoining, cur, until, clientVars, emitting, slot, joinVars, history>>

\* ... and otherwise goes on, with the mutex, to wait for the earliest task.
GoToWait(w) ==
  /\ WStep(w, "dequeue", "towait") /\ lock = Nobody
  /\ DueTasks = {} /\ ~mJoining
  /\ lock' = w
  /\ \/ Queue = {} /\ until' = [until EXCEPT ![w] = Nobody]
     \/ \E t \in Queue : /\ \A u \in Queue : time[t] <= time[u]
                         /\ until' = [until EXCEPT ![w] = t]
  /\ UNCHANGED <<taskVars, mJoining, cur, clientVars, emitting, slot, joinVars, history>>

\* Mutant of Wait: the worker sleeps without giving up the mutex.
WaitLocked(w) ==
  /\ WStep(w, "towait", "waiting")
  /\ UNCHANGED <<taskVars, lock, mJoining, cur, until, clientVars, emitting, slot, joinVars, history>>

Wait(w) ==
  /\ WStep(w, "towait", "waiting")
  /\ lock' = Nobody
  /\ UNCHANGED <<taskVars, mJoining, cur, until, clientVars, emitting, slot, joinVars, history>>

\* wait_until returns at its time; either wait may return for no reason.
WaitTimeout(w) ==
  /\ WStep(w, "waiting", "dequeue")
  /\ Spurious \/ (until[w] # Nobody /\ time[until[w]] = 0)
  /\ UNCHANGED <<taskVars, lock, mJoining, cur, until, clientVars, emitting, slot, joinVars, history>>

\* Mutant of RunCheck: the status is not looked at again.
RunUnchecked(w) ==
  /\ WStep(w, "run", "start")
  /\ UNCHANGED <<taskVars, lock, mJoining, cur, until, clientVars, emitting, slot, joinVars, history>>

\* ThreadPoolFutureInterface::run: the status is read ...
RunCheck(w) ==
  /\ WStep(w, "run", IF runningState[cur[w]] = "wait_start" THEN "start" ELSE "finish")
  /\ UNCHANGED <<taskVars, lock, mJoining, cur, until, clientVars, emitting, slot, joinVars, history>>

\* ... set to running ...
RunStart(w) ==
  /\ WStep(w, "start", "function")
  /\ SetStatus(w, cur[w], "running")
  /\ UNCHANGED <<time, mTasks, lock, mJoining, cur, until, clientVars, slot, joinVars, history>>

\* ... runFunction: the function, the promise, and notifyResult.emit ...
RunFunction(w) ==
  /\ WStep(w, "function", "finish")
  /\ ran' = [ran EXCEPT ![cur[w]] = IF @ = 2 THEN 2 ELSE @ + 1]
  /\ emitting' = emitting \cup {w}
  /\ UNCHANGED <<taskVars, lock, mJoining, cur, until, clientVars, slot, joinVars, inTime, dueAtJoin>>

\* ... and finished in any case.
RunFinish(w) ==
  /\ WStep(w, "finish", "dequeue")
  /\ SetStatus(w, cur[w], "finished")
  /\ cur' = [cur EXCEPT ![w] = Nobody]
  /\ UNCHANGED <<time, mTasks, lock, mJoining, until, clientVars, slot, joinVars, history>>

-----------------------------------------------------------------------------
(* pool_notify *)

\* It runs the slots of one emit; one of them may enqueue another task.
Serve(thread) ==
  /\ slot = Nobody /\ thread \in emitting
  /\ emitting' = emitting \ {thread}
  /\ UNCHANGED <<taskVars, lock, mJoining, workVars, clientVars, slot, joinVars, history>>

ServeEnqueue(t) ==
  /\ slot = Nobody /\ emitting # {}
  /\ t \in SlotTasks /\ runningState[t] = "init"
  /\ slot' = t
  /\ UNCHANGED <<taskVars, lock, mJoining, workVars, clientVars, emitting, joinVars, history>>

\* schedule on pool_notify's own thread, where emit does not block.
SlotPush ==
  /\ slot # Nobody /\ lock = Nobody
  /\ runningState' = [runningState EXCEPT ![slot] = "wait_start"]
  /\ PushAndNotify(slot)
  /\ slot' = Nobody
  /\ UNCHANGED <<time, lock, mJoining, cur, until, clientVars, emitting, joinVars, history>>

-----------------------------------------------------------------------------
(* spawn and join, by one thread (EventLoop::start, EventLoop::join) *)

Spawn ==
  /\ jpc = "joined" /\ spawns < MaxSpawns
  /\ jpc' = "spawned" /\ spawns' = spawns + 1
  /\ mJoining' = FALSE
  /\ wpc' = [w \in Workers |-> "dequeue"]
  /\ UNCHANGED <<taskVars, lock, cur, until, clientVars, emitting, slot, history>>

Join ==
  /\ jpc = "spawned" /\ ~mJoining
  /\ jpc' = "notifying"
  /\ mJoining' = TRUE
  /\ dueAtJoin' = DueTasks
  /\ UNCHANGED <<spawns, taskVars, lock, workVars, clientVars, emitting, slot, ran, inTime>>

\* Mutant of JoinNotify: notify_all without the mutex.
JoinNotifyUnlocked ==
  /\ jpc = "notifying"
  /\ jpc' = "joining"
  /\ wpc' = [w \in Workers |-> IF w \in Waiting THEN "dequeue" ELSE wpc[w]]
  /\ UNCHANGED <<spawns, taskVars, lock, mJoining, cur, until, clientVars, emitting, slot, history>>

JoinNotify ==
  /\ jpc = "notifying" /\ lock = Nobody
  /\ jpc' = "joining"
  /\ wpc' = [w \in Workers |-> IF w \in Waiting THEN "dequeue" ELSE wpc[w]]
  /\ UNCHANGED <<spawns, taskVars, lock, mJoining, cur, until, clientVars, emitting, slot, history>>

\* Mutant of JoinReturn: one worker is waited for.
JoinReturnFirst ==
  /\ jpc = "joining" /\ \E w \in Workers : wpc[w] = "left"
  /\ jpc' = "joined"
  /\ wpc' = [w \in Workers |-> IF wpc[w] = "left" THEN "off" ELSE wpc[w]]
  /\ UNCHANGED <<spawns, taskVars, lock, mJoining, cur, until, clientVars, emitting, slot, history>>

JoinReturn ==
  /\ jpc = "joining" /\ \A w \in Workers : wpc[w] = "left"
  /\ jpc' = "joined"
  /\ wpc' = [w \in Workers |-> "off"]
  /\ UNCHANGED <<spawns, taskVars, lock, mJoining, cur, until, clientVars, emitting, slot, history>>

Tick ==
  /\ \E t \in Tasks : time[t] > 0
  /\ time' = [t \in Tasks |-> IF time[t] > 0 THEN time[t] - 1 ELSE 0]
  /\ UNCHANGED <<runningState, mTasks, lock, mJoining, workVars, clientVars, emitting, slot, joinVars, history>>

-----------------------------------------------------------------------------
ClientCall(c) == \E t \in Tasks : \/ PushCheck(c, t) \/ CancelCheck(c, t)
                                    \/ \E d \in Delays : Schedule(c, t, d)
ClientStep(c) == \/ SchedulePush(c) \/ PushSetStatus(c) \/ PushTask(c)
                 \/ CancelTask(c) \/ CancelReturn(c)
WorkerStep(w) == \/ \E t \in Tasks : Take(w, t)
                 \/ Leave(w) \/ GoToWait(w) \/ Wait(w) \/ WaitTimeout(w)
                 \/ RunCheck(w) \/ RunStart(w) \/ RunFunction(w) \/ RunFinish(w)
NotifyStep == SlotPush \/ \E x \in Clients \cup Workers : Serve(x)
JoinStep == JoinNotify \/ JoinReturn

Next == \/ \E c \in Clients : ClientCall(c) \/ ClientStep(c)
        \/ \E w \in Workers : WorkerStep(w)
        \/ NotifyStep \/ \E t \in Tasks : ServeEnqueue(t)
        \/ Spawn \/ Join \/ JoinStep \/ Tick

\* Every thread runs and time passes; nobody has to call the pool.
Spec == /\ Init /\ [][Next]_vars
        /\ \A c \in Clients : WF_vars(ClientStep(c))
        /\ \A w \in Workers : WF_vars(WorkerStep(w))
        /\ \A x \in Clients \cup Workers : WF_vars(Serve(x))
        /\ WF_vars(SlotPush) /\ WF_vars(JoinStep) /\ WF_vars(Tick)

-----------------------------------------------------------------------------
(* Properties *)

\* The type invariant of the variables.
TypeOK ==
  /\ runningState \in [Tasks -> TaskStates]
  /\ time \in [Tasks -> Nat] /\ mTasks \in [Tasks -> Nat]
  /\ lock \in Clients \cup Workers \cup {Nobody}
  /\ mJoining \in BOOLEAN
  /\ wpc \in [Workers -> {"off", "dequeue", "towait", "waiting", "run", "start",
                          "function", "finish", "left"}]
  /\ cur \in [Workers -> Tasks \cup {Nobody}] /\ until \in [Workers -> Tasks \cup {Nobody}]
  /\ cpc \in [Clients -> {"idle", "scheduled", "pushing", "announced", "cancelling", "cancelled"}]
  /\ ctask \in [Clients -> Tasks \cup {Nobody}]
  /\ emitting \subseteq Clients \cup Workers
  /\ slot \in Tasks \cup {Nobody}
  /\ jpc \in {"joined", "spawned", "notifying", "joining"} /\ spawns \in 0 .. MaxSpawns
  /\ ran \in [Tasks -> 0 .. 2] /\ inTime \subseteq Tasks /\ dueAtJoin \subseteq Tasks

\* Only one thread pushes or schedules t: one client, or a slot.
OnePusher(t) == /\ \A c, d \in Pushers[t] : c = d
                /\ t \in SlotTasks => Pushers[t] = {}

\* A task's function runs once at most (a second run would set its promise a
\* second time), if only one thread pushes it.
RunsOnce == \A t \in Tasks : OnePusher(t) => ran[t] <= 1

\* A task that cancelTask cancelled while it was still queued never runs: run()
\* looks at the status again after dequeue.
CancelledInTimeNeverRuns ==
  \A t \in inTime : OnePusher(t) =>
    ran[t] = 0 /\ \A w \in Workers : cur[w] = t => wpc[w] # "function"

\* join returns only after every task that was due when it began has finished
\* or was cancelled: dequeue looks at what is due before it looks at mJoining
\* (thread-pool.cpp:71), where its declaration says that it "returns null
\* function if joining" (thread-pool.h:227).
JoinDrainsDue ==
  jpc = "joined" =>
    \A t \in dueAtJoin : OnePusher(t) => runningState[t] \in {"finished", "cancelled"}

\* schedule waits, with mTasksMutex locked, until pool_notify has run the slots
\* of its emit (thread-pool.h:194-199), and pool_notify waits for the mutex in a
\* slot that schedules a task itself. Neither goes on.
SlotCircle == slot # Nobody /\ lock \in emitting

\* join returns, unless that circle has formed: no worker sleeps through the
\* notification.
JoinReturns == jpc = "notifying" ~> jpc = "joined" \/ SlotCircle

\* A task in the queue is taken from it, unless the workers are joined first or
\* the circle has formed.
TasksTaken == \A t \in Tasks : (t \in Queue /\ jpc = "spawned")
                                ~> (t \notin Queue \/ jpc # "spawned" \/ SlotCircle)

\* Every call of schedule, pushTask and cancelTask returns, or the circle of
\* schedule's emit under mTasksMutex with a slot that calls the pool has formed:
\* there is no other way for the clients, the workers, join and pool_notify to
\* wait for each other.
CallsReturn == \A c \in Clients : cpc[c] # "idle" ~> cpc[c] = "idle" \/ SlotCircle
=============================================================================
