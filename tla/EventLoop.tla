------------------------------ MODULE EventLoop ------------------------------
(***************************************************************************)
(* The life of an EventLoop (core/event-loop.cpp) and of its Athreads      *)
(* (core/object.cpp): the main thread starts the schedulers, uses them,    *)
(* waits in waitStop and joins; callbacks on the schedulers call stop;     *)
(* callers take schedulers in turn through getIndex.                       *)
(*                                                                         *)
(* Thread 0 is pool_notify, threads 1 .. N are taskSchedulers[0 .. N-1].   *)
(* What a scheduler does in one round of its loop is in ObjectEvents, the  *)
(* join of the thread pool in ThreadPool; each is one step here.           *)
(***************************************************************************)
EXTENDS Naturals

CONSTANTS N,              \* number of taskSchedulers
          Main,           \* the main thread
          Others          \* other threads that take schedulers

ASSUME LoopAssumption == /\ N \in Nat \ {0}
                         /\ Main \notin Others

Threads == 0 .. N
Callers == Others \cup {Main}

VARIABLES
  running,      \* EventLoop::running
  mpc, cursor,  \* where main is, and the thread it starts or joins
  cleared,      \* taskSchedulers has been cleared
  destroying,   \* ~EventLoop has begun
  isExecing, threadId,   \* of each Athread; threadId: whether it is set
  tpc,          \* where each thread is in threadTask
  index,        \* EventLoop::index
  cpc, ret      \* where each caller is in getIndex, and the value it read

mainVars == <<running, mpc, cursor, cleared, destroying>>
threadVars == <<isExecing, threadId, tpc>>
indexVars == <<index, cpc, ret>>
vars == <<mainVars, threadVars, indexVars>>

MainStates == {"created", "starting", "run", "checked", "waiting", "pool",
               "stop", "join", "left", "gone"}
ThreadStates == {"none", "init", "loop", "busy", "stopped", "leaving", "reset", "finished"}

Init == /\ running = FALSE
        /\ mpc = "created" /\ cursor = 0
        /\ cleared = FALSE /\ destroying = FALSE
        /\ isExecing = [i \in Threads |-> FALSE]
        /\ threadId = [i \in Threads |-> FALSE]
        /\ tpc = [i \in Threads |-> "none"]
        /\ index = 0
        /\ cpc = [c \in Callers |-> "idle"]
        /\ ret = [c \in Callers |-> 0]

-----------------------------------------------------------------------------
(* getIndex, as called by addTriggerEvent, addTimer, addChannel and          *)
(* getTaskScheduler: every access to the atomic index is a step.             *)

CStep(c, from, to) == cpc[c] = from /\ cpc' = [cpc EXCEPT ![c] = to]

\* The vector is not empty, and index is read. Nobody takes a scheduler while
\* the loop is being joined.
Load(c) ==
  /\ CStep(c, "idle", "loaded") /\ mpc = "run"
  /\ ret' = [ret EXCEPT ![c] = index]
  /\ UNCHANGED <<mainVars, threadVars, index>>

Increment(c) ==
  /\ CStep(c, "loaded", "incremented")
  /\ index' = index + 1
  /\ UNCHANGED <<mainVars, threadVars, ret>>

WrapCheck(c) ==
  /\ CStep(c, "incremented", IF index >= N THEN "wrap" ELSE "use")
  /\ UNCHANGED <<mainVars, threadVars, index, ret>>

Wrap(c) ==
  /\ CStep(c, "wrap", "use")
  /\ index' = 0
  /\ UNCHANGED <<mainVars, threadVars, ret>>

\* taskSchedulers[ret]
Use(c) ==
  /\ CStep(c, "use", "idle")
  /\ UNCHANGED <<mainVars, threadVars, index, ret>>

-----------------------------------------------------------------------------
(* Athread *)

TStep(i, from, to) == tpc[i] = from /\ tpc' = [tpc EXCEPT ![i] = to]

\* startThread of a thread that is not executing; its stopThread finds none.
StartThread(i) ==
  /\ IF isExecing[i] THEN UNCHANGED <<isExecing, tpc>>
     ELSE /\ isExecing' = [isExecing EXCEPT ![i] = TRUE]
          /\ tpc' = [tpc EXCEPT ![i] = "init"]
  /\ UNCHANGED threadId

\* threadTask: the id is set, exec loops while isExecing ...
SetThreadId(i) ==
  /\ TStep(i, "init", "loop")
  /\ threadId' = [threadId EXCEPT ![i] = TRUE]
  /\ UNCHANGED <<mainVars, isExecing, indexVars>>

LoopCheck(i) ==
  /\ TStep(i, "loop", IF isExecing[i] THEN "busy" ELSE "leaving")
  /\ UNCHANGED <<mainVars, isExecing, threadId, indexVars>>

\* ... one round ends (a poll ends after 5 seconds at the latest) ...
Round(i) ==
  /\ TStep(i, "busy", "loop")
  /\ UNCHANGED <<mainVars, isExecing, threadId, indexVars>>

\* ... or one of its callbacks calls EventLoop::stop: running is checked and
\* reset, then every waiter is notified under stopMutex ...
Stop(i) ==
  /\ TStep(i, "busy", "stopped") /\ i # 0
  /\ running
  /\ running' = FALSE
  /\ UNCHANGED <<mpc, cursor, cleared, destroying, isExecing, threadId, indexVars>>

StopNotify(i) ==
  /\ TStep(i, "stopped", "loop")
  /\ mpc' = IF mpc = "waiting" THEN "pool" ELSE mpc
  /\ UNCHANGED <<running, cursor, cleared, destroying, isExecing, threadId, indexVars>>

\* ... and after exec the id is reset, then isExecing.
ResetThreadId(i) ==
  /\ TStep(i, "leaving", "reset")
  /\ threadId' = [threadId EXCEPT ![i] = FALSE]
  /\ UNCHANGED <<mainVars, isExecing, indexVars>>

ThreadEnds(i) ==
  /\ TStep(i, "reset", "finished")
  /\ isExecing' = [isExecing EXCEPT ![i] = FALSE]
  /\ UNCHANGED <<mainVars, threadId, indexVars>>

-----------------------------------------------------------------------------
(* The main thread *)

MStep(from, to) == mpc = from /\ cpc[Main] = "idle" /\ mpc' = to

\* start: the schedulers one by one, then pool_notify, then the pool's spawn.
Start ==
  /\ MStep("created", "starting") /\ ~running
  /\ running' = TRUE /\ cursor' = 1
  /\ UNCHANGED <<cleared, destroying, threadVars, indexVars>>

StartNext ==
  /\ MStep("starting", IF cursor = 0 THEN "run" ELSE "starting")
  /\ StartThread(cursor)
  /\ cursor' = IF cursor \in 1 .. N - 1 THEN cursor + 1 ELSE 0
  /\ UNCHANGED <<running, cleared, destroying, indexVars>>

\* waitStop: running is looked at before stopMutex is taken.
WaitStopCheck ==
  /\ MStep("run", IF running THEN "checked" ELSE "left")
  /\ UNCHANGED <<running, cursor, cleared, destroying, threadVars, indexVars>>

\* stopCv.wait without a predicate: a stop that came since the check is lost, ...
WaitStop ==
  /\ MStep("checked", "waiting")
  /\ UNCHANGED <<running, cursor, cleared, destroying, threadVars, indexVars>>

\* ... and the wait may return although nobody has notified it.
SpuriousWakeup ==
  /\ MStep("waiting", "pool")
  /\ UNCHANGED <<running, cursor, cleared, destroying, threadVars, indexVars>>

\* join: the thread pool, then pool_notify and each scheduler.
JoinPool ==
  /\ MStep("pool", "stop")
  /\ cursor' = 0
  /\ UNCHANGED <<running, cleared, destroying, threadVars, indexVars>>

\* Mutant of StopThread: isExecing stays set.
StopThreadWakesOnly ==
  /\ MStep("stop", "join")
  /\ UNCHANGED <<running, cursor, cleared, destroying, threadVars, indexVars>>

StopThread ==
  /\ MStep("stop", "join")
  /\ isExecing' = [isExecing EXCEPT ![cursor] = FALSE]
  /\ UNCHANGED <<running, cursor, cleared, destroying, threadId, tpc, indexVars>>

\* The next thread of the join, or its end: ~EventLoop finds no taskSchedulers
\* after a waitStop that joined them.

NextToStop ==
  IF cursor = N \/ cleared
  THEN /\ mpc' = IF destroying THEN "gone" ELSE "left"
       /\ cleared' = TRUE
       /\ UNCHANGED cursor
  ELSE /\ mpc' = "stop"
       /\ cursor' = cursor + 1
       /\ UNCHANGED cleared

\* Mutant of JoinThread: the thread is not waited for.
JoinThreadDetached ==
  /\ mpc = "join"
  /\ tpc' = [tpc EXCEPT ![cursor] = "none"]
  /\ NextToStop
  /\ UNCHANGED <<running, destroying, isExecing, threadId, indexVars>>

\* workThread->join, then the next thread; taskSchedulers is cleared last.
JoinThread ==
  /\ mpc = "join" /\ tpc[cursor] \in {"none", "finished"}
  /\ tpc' = [tpc EXCEPT ![cursor] = "none"]
  /\ NextToStop
  /\ UNCHANGED <<running, destroying, isExecing, threadId, indexVars>>

\* ~EventLoop: stop, without a waiter, and join again.
Destroy ==
  /\ MStep("left", "pool") /\ ~destroying
  /\ destroying' = TRUE
  /\ running' = FALSE
  /\ UNCHANGED <<cursor, cleared, threadVars, indexVars>>

-----------------------------------------------------------------------------
CallerStep(c) == Load(c) \/ Increment(c) \/ WrapCheck(c) \/ Wrap(c) \/ Use(c)
ThreadStep(i) == \/ SetThreadId(i) \/ LoopCheck(i) \/ Round(i) \/ StopNotify(i)
                 \/ ResetThreadId(i) \/ ThreadEnds(i)
MainStep == \/ Start \/ StartNext \/ WaitStopCheck \/ WaitStop
            \/ JoinPool \/ StopThread \/ JoinThread \/ Destroy

Next == \/ \E c \in Callers : CallerStep(c)
        \/ \E i \in Threads : ThreadStep(i) \/ Stop(i)
        \/ MainStep \/ SpuriousWakeup

\* Every thread runs and callbacks return; nobody has to call stop.
Spec == /\ Init /\ [][Next]_vars
        /\ WF_vars(MainStep)
        /\ \A i \in Threads : WF_vars(ThreadStep(i))

-----------------------------------------------------------------------------
(* Properties *)

\* The type invariant of the variables.
TypeOK ==
  /\ running \in BOOLEAN /\ cleared \in BOOLEAN /\ destroying \in BOOLEAN
  /\ mpc \in MainStates /\ cursor \in Threads
  /\ isExecing \in [Threads -> BOOLEAN] /\ threadId \in [Threads -> BOOLEAN]
  /\ tpc \in [Threads -> ThreadStates]
  /\ index \in Nat /\ ret \in [Callers -> Nat]
  /\ cpc \in [Callers -> {"idle", "loaded", "incremented", "wrap", "use"}]

\* getIndex gives the index of a scheduler to whoever indexes taskSchedulers
\* with it.
IndexInRange == \A c \in Callers : cpc[c] = "use" => ret[c] < N

\* Once taskSchedulers is cleared none of the threads that start created is
\* left, and no object of theirs takes invoke for a running thread's.
JoinedMeansDead ==
  cleared => \A i \in Threads : tpc[i] = "none" /\ ~isExecing[i] /\ ~threadId[i]

\* A stop whose notification finds the main thread waiting ends waitStop, and the
\* destructor ends: join gets every thread out of its loop, whatever callbacks
\* are under way, also when a stop was lost before the wait or when the wait
\* returned unnotified.
WaitStopReturns ==
  /\ (mpc = "waiting" /\ \E i \in Threads : tpc[i] = "stopped") ~> mpc = "left"
  /\ destroying ~> mpc = "gone"
=============================================================================
