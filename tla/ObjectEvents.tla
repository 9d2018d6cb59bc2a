---------------------------- MODULE ObjectEvents ----------------------------
(***************************************************************************)
(* The event delivery of core/object.{h,cpp} and core/task-scheduler.cpp:  *)
(* a tree of Objects rooted at a TaskScheduler, the scheduler's thread     *)
(* (the loop) that walks the tree, and foreign threads (producers) that    *)
(* queue closures on any object of it.                                     *)
(*                                                                         *)
(* Every step of a producer is one access to shared memory (a queue under  *)
(* its mutex, an atomic flag, the wakeup pipe).  The loop's steps are as   *)
(* fine where its order matters: taking a queue, running one closure,      *)
(* taking the set of children to visit, the check at the end of            *)
(* handleEvent, and the reset of isTriggering that follows it.             *)
(***************************************************************************)
EXTENDS Naturals, Sequences, FiniteSets

CONSTANTS Objects,       \* the tree's objects
          Root,          \* the TaskScheduler, the one object without parent
          Parent,        \* Parent[o] for every other object
          Producers,     \* foreign threads
          Loop,          \* the scheduler's own thread
          Events,        \* user closures
          Drain,         \* the closure onWakeupChannelRecv
          Capacity,      \* capacity of a TriggerEventQueueForObject
          Targets,       \* the objects that producers call
          Kinds,         \* how they call: "post", "emit" or "invoke"
          TimerOwners    \* the objects on which timers may be started

Children == Objects \ {Root}
Threads  == Producers \cup {Loop}
\* <<x, t>>: the user event x, or parent->pushExec(x) called by thread t
Closures == (Events \cup Children \cup {Drain}) \X Threads

ASSUME TreeAssumption == /\ Root \in Objects
                         /\ Parent \in [Children -> Objects]
                         /\ \A S \in SUBSET Children :
                               S # {} => \E o \in S : Parent[o] \notin S
ASSUME NamesAssumption == /\ Loop \notin Producers
                          /\ Drain \notin Events \cup Objects
                          /\ Events \cap Objects = {}
ASSUME CallAssumption == /\ Targets \subseteq Objects
                         /\ TimerOwners \subseteq Objects
                         /\ Kinds \subseteq {"post", "emit", "invoke"}
                         /\ Capacity \in Nat \ {0}

VARIABLES
  queue,         \* triggerEventQueue->cache of each object
  running,       \* the local execQueue of TriggerEventQueueForObject::handleEvent
  execSub,       \* execSubObjectSet
  todo,          \* the local execSet of handleChildEvent
  isTriggering,  \* the atomic flag
  timers,        \* the objects whose timerEventsMap is not empty
  stage,         \* where each object's handleEvent is, "idle" when not called
  loop,          \* where TaskScheduler::exec is
  pipe,          \* the wakeup pipe holds a byte
  pc,            \* where each producer is in addTriggerEvent
  tgt,           \* the object whose addTriggerEvent it executes
  clo,           \* the closure it is adding
  waiting,       \* the futures whose result() it has to wait for
  ran,           \* user events that have run
  unused         \* user events not created yet

treeVars == <<queue, running, execSub, todo, isTriggering, timers>>
loopVars == <<stage, loop, pipe>>
prodVars == <<pc, tgt, clo, waiting>>
vars == <<treeVars, loopVars, prodVars, ran, unused>>

Stages == {"idle", "swap", "run", "children", "timers", "tail", "push", "reset"}
LoopStates == {"handle", "timeout", "poll", "sleep", "io"}
Pcs == {"idle", "post", "add", "active", "check", "set", "wait"}

Init == /\ queue = [o \in Objects |-> <<>>]
        /\ running = [o \in Objects |-> <<>>]
        /\ execSub = [o \in Objects |-> {}]
        /\ todo = [o \in Objects |-> {}]
        /\ isTriggering = [o \in Objects |-> FALSE]
        /\ timers = {}
        /\ stage = [o \in Objects |-> IF o = Root THEN "swap" ELSE "idle"]
        /\ loop = "handle"
        /\ pipe = FALSE
        /\ pc = [p \in Producers |-> "idle"]
        /\ tgt = [p \in Producers |-> Root]
        /\ clo = [p \in Producers |-> <<Drain, p>>]
        /\ waiting = [p \in Producers |-> {}]
        /\ ran = {}
        /\ unused = Events

-----------------------------------------------------------------------------
(* Shared helpers *)

\* Mutant: the capacity check is off by one.
FullOffByOne(o) == Len(queue[o]) > Capacity

Full(o) == Len(queue[o]) >= Capacity

\* o and its ancestors
Path(o) == {x \in Objects : \A S \in SUBSET Objects :
              (o \in S /\ \A y \in S \ {Root} : Parent[y] \in S) => x \in S}

\* The objects that pushExec pushes after it has put a child into p: p itself
\* if it is not triggering, then its parent, up to the first that is.
Climb(p) == {x \in Path(p) \ {Root} :
               \A y \in Path(p) : x \in Path(y) => ~isTriggering[y]}

\* parent->pushExec(c) on the loop's thread, where invoke runs it in place.
PushExec(c) ==
  LET pushed == {c} \cup Climb(Parent[c])
  IN  /\ execSub' = [o \in Objects |->
                       execSub[o] \cup {x \in pushed : Parent[x] = o}]
      /\ isTriggering' = [o \in Objects |->
                            isTriggering[o] \/ o \in Climb(Parent[c])]

\* Mutant: active() of the scheduler itself does not write to the pipe.
WakesLoopFromChild(o) == o # Root /\ Parent[o] = Root

\* active(): only the scheduler's wakeup() does anything, and it is reached
\* from the scheduler and from its direct children.
WakesLoop(o) == o = Root \/ Parent[o] = Root

-----------------------------------------------------------------------------
(* The loop: handleEvent of one object *)

\* o's handleEvent is the innermost call on the loop's stack.
At(o, s) == /\ stage[o] = s
            /\ \A c \in Children : Parent[c] = o => stage[c] = "idle"

Goto(o, s) == stage' = [stage EXCEPT ![o] = s]

SwapQueue(o) ==
  /\ At(o, "swap")
  /\ running' = [running EXCEPT ![o] = queue[o]]
  /\ queue' = [queue EXCEPT ![o] = <<>>]
  /\ Goto(o, "run")
  /\ UNCHANGED <<execSub, todo, isTriggering, timers, loop, pipe, prodVars, ran, unused>>

\* What the oldest closure does, and the end of its future.
RunClosure(o) ==
  /\ At(o, "run") /\ running[o] # <<>>
  /\ LET x == Head(running[o])[1]
         t == Head(running[o])[2]
     IN  /\ IF x \in Children THEN PushExec(x)
                              ELSE UNCHANGED <<execSub, isTriggering>>
         /\ pipe' = (pipe /\ x # Drain)
         /\ ran' = ran \cup ({x} \cap Events)
         /\ waiting' = [p \in Producers |->
                          IF p = t THEN waiting[p] \ {x} ELSE waiting[p]]
  /\ running' = [running EXCEPT ![o] = Tail(@)]
  /\ UNCHANGED <<queue, todo, timers, stage, loop, pc, tgt, clo, unused>>

SwapChildren(o) ==
  /\ At(o, "run") /\ running[o] = <<>>
  /\ todo' = [todo EXCEPT ![o] = execSub[o]]
  /\ execSub' = [execSub EXCEPT ![o] = {}]
  /\ Goto(o, "children")
  /\ UNCHANGED <<queue, running, isTriggering, timers, loop, pipe, prodVars, ran, unused>>

\* The loop of handleChildEvent; the set is ordered by address, in any order.
VisitChild(o, c) ==
  /\ At(o, "children") /\ c \in todo[o]
  /\ todo' = [todo EXCEPT ![o] = @ \ {c}]
  /\ Goto(c, "swap")
  /\ UNCHANGED <<queue, running, execSub, isTriggering, timers, loop, pipe, prodVars, ran, unused>>

ChildrenDone(o) ==
  /\ At(o, "children") /\ todo[o] = {}
  /\ Goto(o, "timers")
  /\ UNCHANGED <<treeVars, loop, pipe, prodVars, ran, unused>>

\* handleTimerEvent: the timers that are due fire; none may be left.
HandleTimerEvent(o) ==
  /\ At(o, "timers")
  /\ timers' \in {timers, timers \ {o}}
  /\ Goto(o, "tail")
  /\ UNCHANGED <<queue, running, execSub, todo, isTriggering, loop, pipe, prodVars, ran, unused>>

\* Mutant of HasWork: children that wait are forgotten.
HasWorkNoChildren(o) == queue[o] # <<>> \/ o \in timers

HasWork(o) == queue[o] # <<>> \/ o \in timers \/ execSub[o] # {}

\* The condition at the end of handleEvent.
TailCheck(o) ==
  /\ At(o, "tail")
  /\ Goto(o, IF o # Root /\ HasWork(o) THEN "push" ELSE "reset")
  /\ UNCHANGED <<treeVars, loop, pipe, prodVars, ran, unused>>

TailPush(o) ==
  /\ At(o, "push")
  /\ PushExec(o)
  /\ Goto(o, "idle")
  /\ UNCHANGED <<queue, running, todo, timers, loop, pipe, prodVars, ran, unused>>

TailReset(o) ==
  /\ At(o, "reset")
  /\ isTriggering' = [isTriggering EXCEPT ![o] = FALSE]
  /\ Goto(o, "idle")
  /\ loop' = IF o = Root THEN "timeout" ELSE loop
  /\ UNCHANGED <<queue, running, execSub, todo, timers, pipe, prodVars, ran, unused>>

HandleEvent(o) ==
  \/ SwapQueue(o) \/ RunClosure(o) \/ SwapChildren(o)
  \/ \E c \in Children : VisitChild(o, c)
  \/ ChildrenDone(o) \/ HandleTimerEvent(o)
  \/ TailCheck(o) \/ TailPush(o) \/ TailReset(o)

-----------------------------------------------------------------------------
(* The loop: TaskScheduler::exec between two handleEvents *)

\* The objects getNextTimeOut reaches from the scheduler.
Visible == {o \in Objects : \A x \in Path(o) \ {Root} : x \in execSub[Parent[x]]}

\* 0 for a queued closure or a timer that is due, otherwise up to 5 seconds.
GetNextTimeOut ==
  /\ loop = "timeout"
  /\ \/ /\ \E o \in Visible : queue[o] # <<>> \/ o \in timers
        /\ loop' = "poll"
     \/ /\ \A o \in Visible : queue[o] = <<>>
        /\ loop' = "sleep"
  /\ UNCHANGED <<treeVars, stage, pipe, prodVars, ran, unused>>

\* handleNetworkEvent returns: with the wakeup channel among the ready ones,
\* whose bytesReady queues the drain on the scheduler (or runs it in place when
\* that queue is full), or with other channels, or after the timeout.
HandleNetworkEvent ==
  /\ loop \in {"poll", "sleep"}
  /\ loop' = "io"
  /\ IF pipe /\ ~Full(Root)
     THEN queue' = [queue EXCEPT ![Root] = Append(@, <<Drain, Loop>>)]
     ELSE UNCHANGED queue
  /\ pipe' = (pipe /\ ~Full(Root))
  /\ UNCHANGED <<running, execSub, todo, isTriggering, timers, stage, prodVars, ran, unused>>

NextRound ==
  /\ loop = "io"
  /\ loop' = "handle"
  /\ Goto(Root, "swap")
  /\ UNCHANGED <<treeVars, pipe, prodVars, ran, unused>>

-----------------------------------------------------------------------------
(* User code on the loop's thread: a running event, a timer callback or the  *)
(* callback of a channel                                                     *)

InUserCode ==
  \/ loop = "io"
  \/ \E o \in Objects : At(o, "run") /\ running[o] # <<>> /\ Head(running[o])[1] \in Events
  \/ \E o \in timers : At(o, "timers")

\* addTriggerEvent on the loop's thread, accepted.
LoopAdd(o, e) ==
  /\ InUserCode /\ e \in unused /\ ~Full(o)
  /\ queue' = [queue EXCEPT ![o] = Append(@, <<e, Loop>>)]
  /\ pipe' = (pipe \/ WakesLoop(o))
  /\ IF o # Root /\ ~isTriggering[o]
     THEN LET pushed == {o} \cup Climb(Parent[o])
          IN  /\ execSub' = [x \in Objects |->
                               execSub[x] \cup {y \in pushed : Parent[y] = x}]
              /\ isTriggering' = [x \in Objects |-> isTriggering[x] \/ x \in pushed]
     ELSE UNCHANGED <<execSub, isTriggering>>
  /\ unused' = unused \ {e}
  /\ UNCHANGED <<running, todo, timers, stage, loop, prodVars, ran>>

\* The queue is full: addTriggerEvent returns false, addSyncEvent runs it.
LoopAddFull(o, e) ==
  /\ InUserCode /\ e \in unused /\ Full(o)
  /\ ran' \in {ran, ran \cup {e}}
  /\ unused' = unused \ {e}
  /\ UNCHANGED <<treeVars, loopVars, prodVars>>

\* startTimer and stopTimer call active() and schedule nothing.
StartTimer(o) ==
  /\ InUserCode /\ o \in TimerOwners \ timers
  /\ timers' = timers \cup {o}
  /\ pipe' = (pipe \/ WakesLoop(o))
  /\ UNCHANGED <<queue, running, execSub, todo, isTriggering, stage, loop, prodVars, ran, unused>>

StopTimer(o) ==
  /\ InUserCode /\ o \in timers
  /\ timers' = timers \ {o}
  /\ pipe' = (pipe \/ WakesLoop(o))
  /\ UNCHANGED <<queue, running, execSub, todo, isTriggering, stage, loop, prodVars, ran, unused>>

-----------------------------------------------------------------------------
(* A producer *)

Step(p, from, to) == pc[p] = from /\ pc' = [pc EXCEPT ![p] = to]

\* addTriggerEvent, addSyncEvent or invoke of o from a foreign thread.
Call(p, o, e, kind) ==
  /\ Step(p, "idle", IF kind = "post" THEN "post" ELSE "add")
  /\ e \in unused
  /\ unused' = unused \ {e}
  /\ tgt' = [tgt EXCEPT ![p] = o]
  /\ clo' = [clo EXCEPT ![p] = <<e, p>>]
  /\ waiting' = [waiting EXCEPT ![p] = IF kind = "invoke" THEN {e} ELSE {}]
  /\ UNCHANGED <<treeVars, loopVars, ran>>

\* Mutant: the newest closure goes first.
EnqueueFront(p) ==
  /\ pc[p] \in {"post", "add"} /\ ~Full(tgt[p])
  /\ pc' = [pc EXCEPT ![p] = "active"]
  /\ queue' = [queue EXCEPT ![tgt[p]] = <<clo[p]>> \o @]
  /\ UNCHANGED <<running, execSub, todo, isTriggering, timers, loopVars, tgt, clo, waiting, ran, unused>>

\* The queue takes the closure.
Enqueue(p) ==
  /\ pc[p] \in {"post", "add"} /\ ~Full(tgt[p])
  /\ pc' = [pc EXCEPT ![p] = "active"]
  /\ queue' = [queue EXCEPT ![tgt[p]] = Append(@, clo[p])]
  /\ UNCHANGED <<running, execSub, todo, isTriggering, timers, loopVars, tgt, clo, waiting, ran, unused>>

\* addTriggerEvent returns false.
Refused(p) ==
  /\ Step(p, "post", "idle") /\ Full(tgt[p])
  /\ UNCHANGED <<treeVars, loopVars, tgt, clo, waiting, ran, unused>>

\* Mutant: the closure runs in place and its future is not set.
RunInlineNoSet(p) ==
  /\ Step(p, "add", "wait") /\ Full(tgt[p]) /\ clo[p][1] \in Events
  /\ ran' = ran \cup {clo[p][1]}
  /\ UNCHANGED <<treeVars, loopVars, tgt, clo, waiting, unused>>

\* addSyncEvent runs a refused closure on the calling thread: a user event ...
RunInline(p) ==
  /\ Step(p, "add", "wait") /\ Full(tgt[p]) /\ clo[p][1] \in Events
  /\ ran' = ran \cup {clo[p][1]}
  /\ waiting' = [waiting EXCEPT ![p] = @ \ {clo[p][1]}]
  /\ UNCHANGED <<treeVars, loopVars, tgt, clo, unused>>

\* Mutant: the pushExec that a full queue refuses is dropped.
PushDropped(p) ==
  /\ Step(p, "add", "wait") /\ Full(tgt[p]) /\ clo[p][1] \in Children
  /\ waiting' = [waiting EXCEPT ![p] = @ \ {clo[p][1]}]
  /\ UNCHANGED <<treeVars, loopVars, tgt, clo, ran, unused>>

\* ... or the body of pushExec, which goes on to look at its object's flag.
PushInline(p) ==
  /\ Step(p, "add", "check") /\ Full(tgt[p]) /\ clo[p][1] \in Children
  /\ execSub' = [execSub EXCEPT ![tgt[p]] = @ \cup {clo[p][1]}]
  /\ waiting' = [waiting EXCEPT ![p] = @ \ {clo[p][1]}]
  /\ UNCHANGED <<queue, running, todo, isTriggering, timers, loopVars, tgt, clo, ran, unused>>

Active(p) ==
  /\ Step(p, "active", "check")
  /\ pipe' = (pipe \/ WakesLoop(tgt[p]))
  /\ UNCHANGED <<treeVars, stage, loop, tgt, clo, waiting, ran, unused>>

\* if(parent.load()&&!isTriggering)
CheckTriggering(p) ==
  /\ Step(p, "check", IF tgt[p] # Root /\ ~isTriggering[tgt[p]] THEN "set" ELSE "wait")
  /\ UNCHANGED <<treeVars, loopVars, tgt, clo, waiting, ran, unused>>

\* isTriggering.exchange(true), then invoke pushExec on the parent.
SetTriggering(p) ==
  /\ Step(p, "set", "add")
  /\ isTriggering' = [isTriggering EXCEPT ![tgt[p]] = TRUE]
  /\ tgt' = [tgt EXCEPT ![p] = Parent[tgt[p]]]
  /\ clo' = [clo EXCEPT ![p] = <<tgt[p], p>>]
  /\ waiting' = [waiting EXCEPT ![p] = @ \cup {tgt[p]}]
  /\ UNCHANGED <<queue, running, execSub, todo, timers, loopVars, ran, unused>>

\* Every future it waits for, innermost first, has its result.
Return(p) ==
  /\ Step(p, "wait", "idle") /\ waiting[p] = {}
  /\ UNCHANGED <<treeVars, loopVars, tgt, clo, waiting, ran, unused>>

ProducerStep(p) ==
  \/ Enqueue(p) \/ Refused(p) \/ RunInline(p) \/ PushInline(p)
  \/ Active(p) \/ CheckTriggering(p) \/ SetTriggering(p) \/ Return(p)

-----------------------------------------------------------------------------
LoopStep == \/ \E o \in Objects : HandleEvent(o)
            \/ GetNextTimeOut \/ HandleNetworkEvent \/ NextRound

UserCode == \/ \E o \in Objects, e \in Events : LoopAdd(o, e) \/ LoopAddFull(o, e)
            \/ \E o \in Objects : StartTimer(o) \/ StopTimer(o)

Next == \/ LoopStep
        \/ UserCode
        \/ \E p \in Producers : ProducerStep(p)
        \/ \E p \in Producers, o \in Targets, e \in Events, kind \in Kinds :
              Call(p, o, e, kind)

\* The operating system runs every thread, and epoll_wait returns after five
\* seconds at the latest; nothing obliges user code to call.
Spec == /\ Init /\ [][Next]_vars
        /\ WF_vars(LoopStep)
        /\ \A p \in Producers : WF_vars(ProducerStep(p))
-----------------------------------------------------------------------------
(* Properties *)

\* The type invariant of the variables, the queue's bound included
\* (addTriggerEvent refuses at capacity).
TypeOK ==
  /\ queue \in [Objects -> Seq(Closures)]
  /\ \A o \in Objects : Len(queue[o]) <= Capacity
  /\ running \in [Objects -> Seq(Closures)]
  /\ execSub \in [Objects -> SUBSET Children]
  /\ todo \in [Objects -> SUBSET Children]
  /\ isTriggering \in [Objects -> BOOLEAN]
  /\ timers \subseteq Objects
  /\ stage \in [Objects -> Stages]
  /\ loop \in LoopStates
  /\ pipe \in BOOLEAN
  /\ pc \in [Producers -> Pcs]
  /\ tgt \in [Producers -> Objects]
  /\ clo \in [Producers -> Closures]
  /\ waiting \in [Producers -> SUBSET (Events \cup Children)]
  /\ ran \subseteq Events
  /\ unused \subseteq Events

Carries(s, x) == \E i \in DOMAIN s : s[i][1] = x

\* Some call of pushExec for o is under way or has been made, and the loop
\* has not finished the visit it asks for.
Scheduled(o) ==
  \/ o \in execSub[Parent[o]] \cup todo[Parent[o]]
  \/ stage[o] # "idle"
  \/ Carries(queue[Parent[o]], o)
  \/ Carries(running[Parent[o]], o)
  \/ \E p \in Producers : pc[p] = "add" /\ clo[p][1] = o

\* isTriggering is the only thing addTriggerEvent and pushExec look at before
\* they skip scheduling (object.cpp:29,329): while it is set, a visit of the
\* object is always on its way.  If it could stay set on an object nobody is
\* going to visit, no later event of that object would ever run.
TriggeringMeansScheduled ==
  \A o \in Children : isTriggering[o] => Scheduled(o)

\* The loop does not sleep in epoll_wait (object.cpp:221, task-scheduler.cpp:26)
\* while a closure it can see is queued, unless the pipe is about to wake it.
NoSleepOnWork ==
  loop = "sleep" =>
    \A o \in Visible : queue[o] # <<>> => pipe \/ \E p \in Producers : pc[p] = "active"

\* An object with a started timer will be visited, so that the timer can fire.
TimersScheduled == \A o \in timers \ {Root} : Scheduled(o)

Queued(e) == \E o \in Objects : Carries(queue[o], e)

\* A closure that a queue accepted is run in the end.
EventsRun == \A e \in Events : Queued(e) ~> e \in ran

\* A thread blocked in ObjectFuture::result, for its own call or for the
\* pushExec that addTriggerEvent makes on the parent, gets its result.
InvokeReturns == \A p \in Producers : pc[p] = "wait" ~> pc[p] = "idle"

\* The two halves of a queue, the local execQueue and the cache behind it, are
\* together one FIFO that runs each accepted event once and in order.
Fifo == INSTANCE EventFifo WITH
          pending <- [o \in Objects |-> running[o] \o queue[o]]
ImplementsFifo == Fifo!Spec
=============================================================================
