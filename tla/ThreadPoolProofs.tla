-------------------------- MODULE ThreadPoolProofs --------------------------
(***************************************************************************)
(* The safety properties of ThreadPool for any number of tasks, clients    *)
(* and workers, any delays, and with spurious wakeups. They rest on one    *)
(* argument: a task that one thread pushes is in one place at a time, on   *)
(* its way into the queue, in it, or with a worker.                        *)
(***************************************************************************)
EXTENDS ThreadPool, TLAPS

Busy == {"run", "start", "function", "finish"}

\* Program counters and what they hold agree.
Places ==
  /\ \A w \in Workers : cur[w] # Nobody <=> wpc[w] \in Busy
  /\ \A c \in Clients : ctask[c] # Nobody <=> cpc[c] # "idle"
  /\ slot # Nobody => slot \in SlotTasks

\* What the workers may do while the pool is joined, spawned or joining.
Phases ==
  /\ jpc = "joined" => \A w \in Workers : wpc[w] = "off"
  /\ jpc # "joined" => (mJoining <=> jpc # "spawned")
  /\ \A w \in Workers : wpc[w] = "left" => jpc \in {"notifying", "joining"}

\* A client is on its way to push t.
Carries(c, t) == ctask[c] = t /\ cpc[c] \in {"scheduled", "announced"}

\* A task that nobody has announced is nowhere yet; whoever cancels a task has
\* seen it announced.
Fresh(t) ==
  /\ runningState[t] = "init" =>
       /\ mTasks[t] = 0 /\ ran[t] = 0 /\ t \notin inTime
       /\ \A w \in Workers : cur[w] # t
       /\ \A c \in Clients : ~Carries(c, t)
  /\ \A c \in Clients : ctask[c] = t /\ cpc[c] \in {"cancelling", "cancelled"} => runningState[t] # "init"
  /\ \A c \in Clients : ctask[c] = t /\ cpc[c] = "pushing" => runningState[t] = "init"
  /\ \A c \in Clients : ctask[c] = t /\ cpc[c] \in {"scheduled", "pushing", "announced"} => c \in Pushers[t]
  /\ slot = t => runningState[t] = "init"

\* t is in one place, and has not run before a worker has finished with it.
OnePlace(t) ==
  /\ \A c \in Clients : Carries(c, t) => mTasks[t] = 0 /\ ran[t] = 0 /\ \A w \in Workers : cur[w] # t
  /\ mTasks[t] > 0 => mTasks[t] = 1 /\ ran[t] = 0 /\ \A w \in Workers : cur[w] # t
  /\ \A v, w \in Workers : cur[v] = t /\ cur[w] = t => v = w
  /\ \A w \in Workers : cur[w] = t /\ wpc[w] \in {"run", "start", "function"} => ran[t] = 0
  /\ ran[t] <= 1

\* What CancelTask left behind in time.
Cancelled(t) ==
  t \in inTime =>
    /\ runningState[t] \in {"cancelled", "finished"} /\ ran[t] = 0
    /\ \A w \in Workers : cur[w] = t => wpc[w] \in {"run", "finish"}
    /\ \A c \in Clients : ~Carries(c, t)

Tracked(t) == Fresh(t) /\ OnePlace(t) /\ Cancelled(t)
Single == \A t \in Tasks : OnePusher(t) => Tracked(t)

\* While the pool is joining, a task that was due at its start is due still and
\* every worker is there, or a worker has it, or it is done.
Done(t) == runningState[t] \in {"finished", "cancelled"}
Drains(t) ==
  t \in dueAtJoin =>
    /\ jpc = "joined" => Done(t)
    /\ jpc \in {"notifying", "joining"} =>
         \/ mTasks[t] > 0 /\ time[t] = 0 /\ \A w \in Workers : wpc[w] # "left"
         \/ \E w \in Workers : cur[w] = t
         \/ Done(t)
Drain == \A t \in Tasks : OnePusher(t) => Drains(t)

PoolInv == TypeOK /\ Places /\ Phases /\ Single

USE PoolAssumption DEF TaskStates, Busy

\* At the start no task is anywhere.
LEMMA PoolInit == Init => PoolInv
<1> SUFFICES ASSUME Init PROVE PoolInv
  OBVIOUS
<1>1. TypeOK
  <2>1. MaxSpawns \in Nat /\ 0 \in 0 .. MaxSpawns /\ 0 \in 0 .. 2
    OBVIOUS
  <2> QED BY <2>1, Zenon DEF Init, TypeOK
<1>2. Places
  BY DEF Init, Places
<1>4. Phases
  BY DEF Init, Phases
<1>3. ASSUME NEW t \in Tasks PROVE Tracked(t)
  BY DEF Init, Tracked, Fresh, OnePlace, Cancelled, Carries
<1> QED BY <1>1, <1>2, <1>3, <1>4 DEF PoolInv, Single

\* notify_one takes at most one worker out of its wait.
LEMMA Notified ==
  ASSUME TypeOK, NEW t \in Tasks, PushAndNotify(t)
  PROVE  /\ mTasks' = [mTasks EXCEPT ![t] = @ + 1]
         /\ \E S \in SUBSET Workers :
              /\ \A w \in S : wpc[w] = "waiting"
              /\ wpc' = [w \in Workers |-> IF w \in S THEN "dequeue" ELSE wpc[w]]
<1>1. CASE Waiting = {}
  <2>1. wpc' = [w \in Workers |-> IF w \in {} THEN "dequeue" ELSE wpc[w]]
    BY <1>1 DEF PushAndNotify, TypeOK
  <2> QED BY <1>1, <2>1 DEF PushAndNotify
<1>2. CASE Waiting # {}
  <2>1. PICK v \in Waiting : wpc' = [wpc EXCEPT ![v] = "dequeue"]
    BY <1>2 DEF PushAndNotify
  <2>2. v \in Workers /\ wpc[v] = "waiting"
    BY DEF Waiting
  <2>3. wpc' = [w \in Workers |-> IF w \in {v} THEN "dequeue" ELSE wpc[w]]
    BY <2>1, <2>2 DEF TypeOK
  <2>4. {v} \in SUBSET Workers /\ \A w \in {v} : wpc[w] = "waiting"
    BY <2>2
  <2> QED BY <2>3, <2>4 DEF PushAndNotify
<1> QED BY <1>1, <1>2

\* A client that is not idle, and a worker that is busy, has a task.
LEMMA Holding ==
  ASSUME TypeOK, Places
  PROVE  /\ \A c \in Clients : cpc[c] # "idle" => ctask[c] \in Tasks
         /\ \A w \in Workers : wpc[w] \in Busy => cur[w] \in Tasks
         /\ slot # Nobody => slot \in Tasks
  BY DEF TypeOK, Places

\* Every step keeps the types.
LEMMA TypeStep == TypeOK /\ Places /\ [Next]_vars => TypeOK'
<1> SUFFICES ASSUME TypeOK, Places, [Next]_vars PROVE TypeOK'
  OBVIOUS
<1> USE DEF taskVars, workVars, clientVars, joinVars, history
<1>1. ASSUME NEW c \in Clients, ClientCall(c) PROVE TypeOK'
  <2>1. ASSUME NEW t \in Tasks, PushCheck(c, t) \/ CancelCheck(c, t) PROVE TypeOK'
    BY <2>1 DEF PushCheck, CancelCheck, CStep, TypeOK
  <2>2. ASSUME NEW t \in Tasks, NEW d \in Delays, Schedule(c, t, d) PROVE TypeOK'
    BY <2>2 DEF Schedule, SetStatus, CStep, TypeOK
  <2> QED BY <1>1, <2>1, <2>2 DEF ClientCall
<1>2. ASSUME NEW c \in Clients, ClientStep(c) PROVE TypeOK'
  <2>1. CASE SchedulePush(c) \/ PushTask(c)
    <3>1. ctask[c] \in Tasks /\ PushAndNotify(ctask[c])
      BY <2>1, Holding DEF SchedulePush, PushTask, CStep
    <3> QED BY <2>1, <3>1, Notified DEF SchedulePush, PushTask, CStep, TypeOK
  <2>2. CASE PushSetStatus(c) \/ CancelTask(c) \/ CancelReturn(c)
    BY <2>2, Holding DEF PushSetStatus, CancelTask, CancelReturn, SetStatus, CStep, TypeOK
  <2> QED BY <1>2, <2>1, <2>2 DEF ClientStep
<1>3. ASSUME NEW w \in Workers, WorkerStep(w) PROVE TypeOK'
  <2>1. ASSUME NEW t \in Tasks, Take(w, t) PROVE TypeOK'
    BY <2>1 DEF Take, WStep, TypeOK, DueTasks, Queue
  <2>2. CASE Leave(w) \/ Wait(w) \/ WaitTimeout(w)
    BY <2>2 DEF Leave, Wait, WaitTimeout, WStep, TypeOK
  <2>3. CASE GoToWait(w)
    BY <2>3 DEF GoToWait, WStep, Queue, TypeOK
  <2>4. CASE RunCheck(w)
    BY <2>4 DEF RunCheck, WStep, TypeOK
  <2>5. CASE RunStart(w) \/ RunFinish(w)
    BY <2>5, Holding DEF RunStart, RunFinish, SetStatus, WStep, TypeOK
  <2>6. CASE RunFunction(w)
    BY <2>6, Holding DEF RunFunction, WStep, TypeOK
  <2> QED BY <1>3, <2>1, <2>2, <2>3, <2>4, <2>5, <2>6 DEF WorkerStep
<1>4. CASE SlotPush
  <2>1. slot \in Tasks /\ PushAndNotify(slot)
    BY <1>4, Holding DEF SlotPush
  <2> QED BY <1>4, <2>1, Notified DEF SlotPush, TypeOK
<1>5. ASSUME NEW x, Serve(x) PROVE TypeOK'
  BY <1>5 DEF Serve, TypeOK
<1>6. ASSUME NEW t \in Tasks, ServeEnqueue(t) PROVE TypeOK'
  BY <1>6 DEF ServeEnqueue, TypeOK
<1>7. CASE Spawn \/ JoinNotify \/ JoinReturn
  <2>1. CASE Spawn
    <3>1. spawns' \in 0 .. MaxSpawns
      BY <2>1 DEF Spawn, TypeOK
    <3> QED BY <2>1, <3>1 DEF Spawn, TypeOK
  <2>2. CASE JoinNotify
    BY <2>2 DEF JoinNotify, TypeOK
  <2>3. CASE JoinReturn
    BY <2>3 DEF JoinReturn, TypeOK
  <2> QED BY <1>7, <2>1, <2>2, <2>3
<1>8. CASE Join
  BY <1>8 DEF Join, DueTasks, Queue, TypeOK
<1>9. CASE Tick
  BY <1>9 DEF Tick, TypeOK
<1>10. CASE UNCHANGED vars
  BY <1>10 DEF vars, TypeOK
<1> QED BY <1>1, <1>2, <1>3, <1>4, <1>5, <1>6, <1>7, <1>8, <1>9, <1>10 DEF Next, NotifyStep, JoinStep

\* Every step keeps program counters and what they hold in agreement.
LEMMA PlacesStep == TypeOK /\ Places /\ Phases /\ [Next]_vars => Places'
<1> SUFFICES ASSUME TypeOK, Places, Phases, [Next]_vars PROVE Places'
  OBVIOUS
<1> USE DEF taskVars, workVars, clientVars, joinVars, history
<1>1. ASSUME NEW c \in Clients, ClientCall(c) PROVE Places'
  BY <1>1 DEF ClientCall, PushCheck, CancelCheck, Schedule, CStep, TypeOK, Places
<1>2. ASSUME NEW c \in Clients, ClientStep(c) PROVE Places'
  <2>1. CASE SchedulePush(c) \/ PushTask(c)
    <3>1. ctask[c] \in Tasks /\ PushAndNotify(ctask[c])
      BY <2>1, Holding DEF SchedulePush, PushTask, CStep
    <3> QED BY <2>1, <3>1, Notified DEF SchedulePush, PushTask, CStep, TypeOK, Places
  <2>2. CASE PushSetStatus(c) \/ CancelTask(c) \/ CancelReturn(c)
    BY <2>2, Holding DEF PushSetStatus, CancelTask, CancelReturn, CStep, TypeOK, Places
  <2> QED BY <1>2, <2>1, <2>2 DEF ClientStep
<1>3. ASSUME NEW w \in Workers, WorkerStep(w) PROVE Places'
  <2>1. ASSUME NEW t \in Tasks, Take(w, t) PROVE Places'
    BY <2>1 DEF Take, WStep, TypeOK, Places
  <2>2. CASE Leave(w) \/ Wait(w) \/ WaitTimeout(w) \/ GoToWait(w) \/ RunCheck(w)
    BY <2>2 DEF Leave, Wait, WaitTimeout, GoToWait, RunCheck, WStep, TypeOK, Places
  <2>3. CASE RunStart(w) \/ RunFunction(w) \/ RunFinish(w)
    BY <2>3 DEF RunStart, RunFunction, RunFinish, WStep, TypeOK, Places
  <2> QED BY <1>3, <2>1, <2>2, <2>3 DEF WorkerStep
<1>4. CASE SlotPush
  <2>1. slot \in Tasks /\ PushAndNotify(slot)
    BY <1>4, Holding DEF SlotPush
  <2> QED BY <1>4, <2>1, Notified DEF SlotPush, TypeOK, Places
<1>5. ASSUME NEW x, Serve(x) PROVE Places'
  BY <1>5 DEF Serve, Places
<1>6. ASSUME NEW t \in Tasks, ServeEnqueue(t) PROVE Places'
  BY <1>6 DEF ServeEnqueue, Places
<1>7. CASE JoinNotify \/ JoinReturn
  BY <1>7 DEF JoinNotify, JoinReturn, Waiting, TypeOK, Places
<1>8. CASE Join \/ Tick
  BY <1>8 DEF Join, Tick, Places
<1>10. CASE UNCHANGED vars
  BY <1>10 DEF vars, Places
<1>11. CASE Spawn
  BY <1>11 DEF Spawn, TypeOK, Places, Phases
<1> QED BY <1>1, <1>2, <1>3, <1>4, <1>5, <1>6, <1>7, <1>8, <1>10, <1>11 DEF Next, NotifyStep, JoinStep

\* Every step keeps what the workers may do in each phase.
LEMMA PhasesStep == TypeOK /\ Places /\ Phases /\ [Next]_vars => Phases'
<1> SUFFICES ASSUME TypeOK, Places, Phases, [Next]_vars PROVE Phases'
  OBVIOUS
<1> USE DEF taskVars, workVars, clientVars, joinVars, history
<1>1. ASSUME NEW c \in Clients, ClientCall(c) PROVE Phases'
  BY <1>1 DEF ClientCall, PushCheck, CancelCheck, Schedule, Phases
<1>2. ASSUME NEW c \in Clients, ClientStep(c) PROVE Phases'
  <2>1. CASE SchedulePush(c) \/ PushTask(c)
    <3>1. ctask[c] \in Tasks /\ PushAndNotify(ctask[c])
      BY <2>1, Holding DEF SchedulePush, PushTask, CStep
    <3> QED BY <2>1, <3>1, Notified DEF SchedulePush, PushTask, TypeOK, Phases
  <2>2. CASE PushSetStatus(c) \/ CancelTask(c) \/ CancelReturn(c)
    BY <2>2 DEF PushSetStatus, CancelTask, CancelReturn, Phases
  <2> QED BY <1>2, <2>1, <2>2 DEF ClientStep
<1>3. ASSUME NEW w \in Workers, WorkerStep(w) PROVE Phases'
  <2>1. CASE Leave(w)
    BY <2>1 DEF Leave, WStep, TypeOK, Phases
  <2>2. CASE ~Leave(w)
    BY <1>3, <2>2 DEF WorkerStep, Take, Wait, WaitTimeout, GoToWait, RunCheck, RunStart, RunFunction,
                      RunFinish, WStep, TypeOK, Phases
  <2> QED BY <2>1, <2>2
<1>4. CASE SlotPush
  <2>1. slot \in Tasks /\ PushAndNotify(slot)
    BY <1>4, Holding DEF SlotPush
  <2> QED BY <1>4, <2>1, Notified DEF SlotPush, TypeOK, Phases
<1>5. ASSUME NEW x, Serve(x) PROVE Phases'
  BY <1>5 DEF Serve, Phases
<1>6. ASSUME NEW t \in Tasks, ServeEnqueue(t) PROVE Phases'
  BY <1>6 DEF ServeEnqueue, Phases
<1>7. CASE Spawn \/ Join \/ JoinNotify \/ JoinReturn
  BY <1>7 DEF Spawn, Join, JoinNotify, JoinReturn, TypeOK, Phases
<1>8. CASE Tick \/ UNCHANGED vars
  BY <1>8 DEF Tick, vars, Phases
<1> QED BY <1>1, <1>2, <1>3, <1>4, <1>5, <1>6, <1>7, <1>8 DEF Next, NotifyStep, JoinStep

\* A task with one pusher stays in one place at a time.
LEMMA SingleStep ==
  ASSUME TypeOK, Places, Phases, [Next]_vars, NEW t \in Tasks, OnePusher(t), Tracked(t)
  PROVE  Tracked(t)'
<1> USE DEF taskVars, workVars, clientVars, joinVars, history, Tracked
<1>1. ASSUME NEW c \in Clients, ClientCall(c) PROVE Tracked(t)'
  <2>1. ASSUME NEW u \in Tasks, PushCheck(c, u) PROVE Tracked(t)'
    BY <2>1 DEF PushCheck, CStep, TypeOK, Places, Fresh, OnePlace, Cancelled, Carries, OnePusher
  <2>2. ASSUME NEW u \in Tasks, CancelCheck(c, u) PROVE Tracked(t)'
    BY <2>2 DEF CancelCheck, CStep, TypeOK, Places, Fresh, OnePlace, Cancelled, Carries
  <2>3. ASSUME NEW u \in Tasks, NEW d \in Delays, Schedule(c, u, d) PROVE Tracked(t)'
    BY <2>3 DEF Schedule, SetStatus, CStep, TypeOK, Places, Fresh, OnePlace, Cancelled, Carries, OnePusher
  <2> QED BY <1>1, <2>1, <2>2, <2>3 DEF ClientCall
<1>2. ASSUME NEW c \in Clients, ClientStep(c) PROVE Tracked(t)'
  <2>1. CASE SchedulePush(c) \/ PushTask(c)
    <3>1. ctask[c] \in Tasks /\ PushAndNotify(ctask[c])
      BY <2>1, Holding DEF SchedulePush, PushTask, CStep
    <3> QED BY <2>1, <3>1, Notified DEF SchedulePush, PushTask, CStep, TypeOK, Places, Fresh, OnePlace,
               Cancelled, Carries, OnePusher
  <2>2. CASE PushSetStatus(c)
    BY <2>2, Holding DEF PushSetStatus, SetStatus, CStep, TypeOK, Places, Fresh, OnePlace, Cancelled,
                         Carries, OnePusher
  <2>3. CASE CancelTask(c)
    BY <2>3, Holding DEF CancelTask, SetStatus, CStep, TypeOK, Places, Fresh, OnePlace, Cancelled,
                         Carries, Queue
  <2>4. CASE CancelReturn(c)
    BY <2>4 DEF CancelReturn, CStep, TypeOK, Places, Fresh, OnePlace, Cancelled, Carries
  <2> QED BY <1>2, <2>1, <2>2, <2>3, <2>4 DEF ClientStep
<1>3. ASSUME NEW w \in Workers, WorkerStep(w) PROVE Tracked(t)'
  <2>1. ASSUME NEW u \in Tasks, Take(w, u) PROVE Tracked(t)'
    BY <2>1 DEF Take, WStep, TypeOK, Places, Fresh, OnePlace, Cancelled, Carries, DueTasks, Queue
  <2>2. CASE Leave(w) \/ Wait(w) \/ WaitTimeout(w) \/ GoToWait(w)
    BY <2>2 DEF Leave, Wait, WaitTimeout, GoToWait, WStep, TypeOK, Places, Fresh, OnePlace, Cancelled, Carries
  <2>3. CASE RunCheck(w)
    BY <2>3 DEF RunCheck, WStep, TypeOK, Places, Fresh, OnePlace, Cancelled, Carries
  <2>4. CASE RunStart(w)
    BY <2>4, Holding DEF RunStart, SetStatus, WStep, TypeOK, Places, Fresh, OnePlace, Cancelled, Carries
  <2>5. CASE RunFunction(w)
    BY <2>5, Holding DEF RunFunction, WStep, TypeOK, Places, Fresh, OnePlace, Cancelled, Carries
  <2>6. CASE RunFinish(w)
    BY <2>6, Holding DEF RunFinish, SetStatus, WStep, TypeOK, Places, Fresh, OnePlace, Cancelled, Carries
  <2> QED BY <1>3, <2>1, <2>2, <2>3, <2>4, <2>5, <2>6 DEF WorkerStep
<1>4. CASE SlotPush
  <2>1. slot \in Tasks /\ PushAndNotify(slot)
    BY <1>4, Holding DEF SlotPush
  <2> QED BY <1>4, <2>1, Notified DEF SlotPush, TypeOK, Places, Fresh, OnePlace, Cancelled, Carries, OnePusher
<1>5. ASSUME NEW x, Serve(x) PROVE Tracked(t)'
  BY <1>5 DEF Serve, Fresh, OnePlace, Cancelled, Carries
<1>6. ASSUME NEW u \in Tasks, ServeEnqueue(u) PROVE Tracked(t)'
  BY <1>6 DEF ServeEnqueue, Fresh, OnePlace, Cancelled, Carries
<1>7. CASE Spawn \/ JoinNotify \/ JoinReturn
  BY <1>7 DEF Spawn, JoinNotify, JoinReturn, Waiting, TypeOK, Places, Phases, Fresh, OnePlace, Cancelled, Carries
<1>8. CASE Join \/ Tick \/ UNCHANGED vars
  BY <1>8 DEF Join, Tick, vars, Fresh, OnePlace, Cancelled, Carries
<1> QED BY <1>1, <1>2, <1>3, <1>4, <1>5, <1>6, <1>7, <1>8 DEF Next, NotifyStep, JoinStep

\* Every step keeps the invariant.
LEMMA PoolStep == PoolInv /\ [Next]_vars => PoolInv'
<1> SUFFICES ASSUME PoolInv, [Next]_vars PROVE PoolInv'
  OBVIOUS
<1>1. TypeOK' /\ Places' /\ Phases'
  BY TypeStep, PlacesStep, PhasesStep DEF PoolInv
<1>2. ASSUME NEW t \in Tasks, OnePusher(t) PROVE Tracked(t)'
  BY <1>2, SingleStep DEF PoolInv, Single
<1>3. Single'
  BY <1>2 DEF Single, OnePusher
<1> QED BY <1>1, <1>3 DEF PoolInv

\* Until join has returned, a task that is due has a worker that can take it.
LEMMA DrainStep ==
  ASSUME Workers # {}, PoolInv, [Next]_vars, NEW t \in Tasks, OnePusher(t), Drains(t)
  PROVE  Drains(t)'
<1>1. TypeOK /\ Places /\ Phases /\ Fresh(t) /\ OnePlace(t)
  BY DEF PoolInv, Single, Tracked
<1> USE <1>1 DEF taskVars, workVars, clientVars, joinVars, history, Done, Drains
<1>2. ASSUME NEW c \in Clients, ClientCall(c) PROVE Drains(t)'
  <2>1. ASSUME NEW u \in Tasks, PushCheck(c, u) \/ CancelCheck(c, u) PROVE Drains(t)'
    BY <2>1 DEF PushCheck, CancelCheck
  <2>2. ASSUME NEW u \in Tasks, NEW d \in Delays, Schedule(c, u, d) PROVE Drains(t)'
    BY <2>2 DEF Schedule, SetStatus, TypeOK, Fresh
  <2> QED BY <1>2, <2>1, <2>2 DEF ClientCall
<1>3. ASSUME NEW c \in Clients, ClientStep(c) PROVE Drains(t)'
  <2>1. CASE SchedulePush(c) \/ PushTask(c)
    <3>1. ctask[c] \in Tasks /\ PushAndNotify(ctask[c])
      BY <2>1, Holding DEF SchedulePush, PushTask, CStep
    <3> QED BY <2>1, <3>1, Notified DEF SchedulePush, PushTask, TypeOK
  <2>2. CASE PushSetStatus(c)
    BY <2>2, Holding DEF PushSetStatus, SetStatus, CStep, TypeOK, Fresh
  <2>3. CASE CancelTask(c) \/ CancelReturn(c)
    BY <2>3, Holding DEF CancelTask, CancelReturn, SetStatus, CStep, TypeOK
  <2> QED BY <1>3, <2>1, <2>2, <2>3 DEF ClientStep
<1>4. ASSUME NEW w \in Workers, WorkerStep(w) PROVE Drains(t)'
  <2>1. ASSUME NEW u \in Tasks, Take(w, u) PROVE Drains(t)'
    <3>1. CASE u = t
      BY <2>1, <3>1 DEF Take, WStep, TypeOK, Phases
    <3>2. CASE u # t
      BY <2>1, <3>2 DEF Take, WStep, TypeOK, Places
    <3> QED BY <3>1, <3>2
  <2>2. CASE Leave(w)
    BY <2>2 DEF Leave, WStep, TypeOK, DueTasks, Queue
  <2>3. CASE Wait(w) \/ WaitTimeout(w) \/ GoToWait(w) \/ RunCheck(w) \/ RunFunction(w)
    BY <2>3 DEF Wait, WaitTimeout, GoToWait, RunCheck, RunFunction, WStep, TypeOK
  <2>4. CASE RunStart(w)
    BY <2>4, Holding DEF RunStart, SetStatus, WStep, TypeOK, Phases
  <2>5. CASE RunFinish(w)
    BY <2>5, Holding DEF RunFinish, SetStatus, WStep, TypeOK, Phases
  <2> QED BY <1>4, <2>1, <2>2, <2>3, <2>4, <2>5 DEF WorkerStep
<1>5. CASE SlotPush
  <2>1. slot \in Tasks /\ PushAndNotify(slot)
    BY <1>5, Holding DEF SlotPush
  <2> QED BY <1>5, <2>1, Notified DEF SlotPush, TypeOK, Fresh
<1>6. ASSUME NEW x, Serve(x) PROVE Drains(t)'
  BY <1>6 DEF Serve
<1>7. ASSUME NEW u \in Tasks, ServeEnqueue(u) PROVE Drains(t)'
  BY <1>7 DEF ServeEnqueue
<1>8. CASE Join
  BY <1>8 DEF Join, DueTasks, Queue, Phases
<1>9. CASE Spawn
  BY <1>9 DEF Spawn
<1>10. CASE JoinNotify
  BY <1>10 DEF JoinNotify, TypeOK
<1>11. CASE JoinReturn
  BY <1>11 DEF JoinReturn, TypeOK, Places
<1>12. CASE Tick \/ UNCHANGED vars
  BY <1>12 DEF Tick, vars, TypeOK
<1> QED BY <1>2, <1>3, <1>4, <1>5, <1>6, <1>7, <1>8, <1>9, <1>10, <1>11, <1>12
        DEF Next, NotifyStep, JoinStep

-----------------------------------------------------------------------------
\* Every variable keeps its type: a busy worker has a task to run, and a client
\* in a call of the pool has the task it called with.
THEOREM PoolTypes == Spec => []TypeOK
<1>1. PoolInv => TypeOK
  BY DEF PoolInv
<1> QED BY <1>1, PoolInit, PoolStep, PTL DEF Spec

\* The function of a task that one thread pushes runs once at most, for any
\* number of workers and clients and whatever cancelTask and join race with.
THEOREM EachRunsOnce == Spec => []RunsOnce
<1>1. PoolInv => RunsOnce
  BY DEF PoolInv, Single, Tracked, OnePlace, RunsOnce
<1> QED BY <1>1, PoolInit, PoolStep, PTL DEF Spec

\* cancelTask on a queued task is final: no worker gets to its function.
THEOREM CancelIsFinal == Spec => []CancelledInTimeNeverRuns
<1>1. PoolInv => CancelledInTimeNeverRuns
  BY DEF PoolInv, TypeOK, Single, Tracked, Cancelled, CancelledInTimeNeverRuns
<1> QED BY <1>1, PoolInit, PoolStep, PTL DEF Spec

\* When join returns, every task that was due when it began has finished or was
\* cancelled, if the pool has a worker at all (spawn(0) starts none).
THEOREM JoinDrains == ASSUME Workers # {} PROVE Spec => []JoinDrainsDue
<1>1. Init => PoolInv /\ Drain
  BY PoolInit DEF Init, Drain, Drains
<1>2. PoolInv /\ Drain /\ [Next]_vars => (PoolInv /\ Drain)'
  <2> SUFFICES ASSUME PoolInv, Drain, [Next]_vars PROVE PoolInv' /\ Drain'
    OBVIOUS
  <2>1. ASSUME NEW t \in Tasks, OnePusher(t) PROVE Drains(t)'
    BY <2>1, DrainStep DEF Drain
  <2> QED BY <2>1, PoolStep DEF Drain, OnePusher
<1>3. PoolInv /\ Drain => JoinDrainsDue
  BY DEF PoolInv, TypeOK, Drain, Drains, Done, JoinDrainsDue
<1> QED BY <1>1, <1>2, <1>3, PTL DEF Spec
=============================================================================
