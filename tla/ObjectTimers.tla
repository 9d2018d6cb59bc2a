---------------------------- MODULE ObjectTimers ----------------------------
(***************************************************************************)
(* The timers of one Object (core/object.cpp: addTimer, startTimer,        *)
(* stopTimer, releaseTimer, getNextTimerId, handleTimerEvent, and class    *)
(* Timer): handles shared with the user, ids that are given out and taken  *)
(* back, and the map ordered by expiry from which the loop fires them.     *)
(*                                                                         *)
(* Times are relative to now: the clock advances by lowering every stored  *)
(* time.  A callback connected with connectFunc runs inside                *)
(* handleTimerEvent; one connected to a receiver is queued and runs, like  *)
(* calls of foreign threads, outside it.                                   *)
(***************************************************************************)
EXTENDS Integers, Sequences, FiniteSets

CONSTANTS Timers,       \* Timer handles (shared_ptr targets)
          NoTimer,      \* absence in timerMap
          MaxId,        \* the largest TimerId, 2^32 - 1 in the code
          Intervals,    \* intervals given to timers, in ticks
          MaxLag,       \* bound: how late the loop may be, in ticks
          MaxCalls,     \* foreign threads, each blocked in one call at most
          CallbackOps,  \* what a callback inside handleTimerEvent calls
          OwnTimerOnly  \* ... on its own timer only, or on any

INVALID_TIMER_ID == 0
Ids == 1 .. MaxId
Ops == {"start", "stop", "release"}

ASSUME TimerAssumption == /\ IsFiniteSet(Timers) /\ NoTimer \notin Timers
                          /\ MaxId \in Nat \ {0} /\ MaxLag \in Nat
                          /\ MaxCalls \in Nat
                          /\ Intervals \subseteq Int
                          /\ CallbackOps \subseteq Ops /\ OwnTimerOnly \in BOOLEAN

VARIABLES
  timerId,        \* Timer::timerId
  isWorking, isSingle, interval, nextTimeout,   \* the other fields of Timer
  lastTimerId, availableIdSet,
  timerMap,       \* id -> handle
  timerEventsMap, \* entries [when, id, timer], the first two are the key
  phase,          \* of handleTimerEvent: "free" (outside), "fire", "callback"
  timeoutQueue, cycleQueue,   \* its locals
  calls           \* calls of foreign threads queued on the object, oldest first

timerVars == <<isWorking, isSingle, interval, nextTimeout>>
idVars == <<timerId, lastTimerId, availableIdSet, timerMap>>
fireVars == <<phase, timeoutQueue, cycleQueue>>
vars == <<timerVars, idVars, timerEventsMap, fireVars, calls>>

Init == /\ timerId = [t \in Timers |-> INVALID_TIMER_ID]
        /\ isWorking = [t \in Timers |-> FALSE]
        /\ isSingle = [t \in Timers |-> FALSE]
        /\ interval = [t \in Timers |-> 1]
        /\ nextTimeout = [t \in Timers |-> -MaxLag - 1]
        /\ lastTimerId = INVALID_TIMER_ID
        /\ availableIdSet = {}
        /\ timerMap = [i \in Ids |-> NoTimer]
        /\ timerEventsMap = {}
        /\ phase = "free"
        /\ timeoutQueue = <<>> /\ cycleQueue = <<>>
        /\ calls = <<>>

-----------------------------------------------------------------------------
(* Helpers *)

Valid(id) == id # INVALID_TIMER_ID
working(t) == Valid(timerId[t]) /\ isWorking[t]

\* std::map::emplace and erase by key
Emplace(m, w, id, t) ==
  IF \E e \in m : e.when = w /\ e.id = id THEN m
  ELSE m \cup {[when |-> w, id |-> id, timer |-> t]}
Erase(m, w, id) == {e \in m : ~(e.when = w /\ e.id = id)}

Before(e, f) == e.when < f.when \/ (e.when = f.when /\ e.id < f.id)
\* The entries of m from the first to the last, a sequence that is unique.
InOrder(m) == {s \in [1 .. Cardinality(m) -> m] :
                 \A i, j \in DOMAIN s : i < j => Before(s[i], s[j])}

\* setInterval takes nothing below one.
Clamped(iv) == IF iv <= 0 THEN 1 ELSE iv

Due == {e \in timerEventsMap : e.when <= 0}

Lowest(S) == CHOOSE i \in S : \A j \in S : i <= j

\* A handle nobody refers to: not registered, and in none of the containers.
Fresh(t) == /\ ~Valid(timerId[t])
            /\ \A e \in timerEventsMap : e.timer # t
            /\ \A i \in DOMAIN timeoutQueue : timeoutQueue[i] # t
            /\ \A i \in DOMAIN cycleQueue : cycleQueue[i] # t

-----------------------------------------------------------------------------
(* The id allocator and the object's operations, on the object's own thread *)

\* Mutant: a recycled id stays in the set of available ones.
GetNextTimerIdKeeps ==
  IF availableIdSet # {} THEN <<Lowest(availableIdSet), lastTimerId, availableIdSet>>
  ELSE IF lastTimerId < MaxId THEN <<lastTimerId + 1, lastTimerId + 1, availableIdSet>>
  ELSE <<INVALID_TIMER_ID, lastTimerId, availableIdSet>>

\* getNextTimerId: <<id, lastTimerId', availableIdSet'>>; the counter has the
\* width of TimerId and a wrapped value is given to nobody.
GetNextTimerId ==
  LET next == (lastTimerId + 1) % (MaxId + 1)
  IN  IF availableIdSet # {}
      THEN <<Lowest(availableIdSet), lastTimerId, availableIdSet \ {Lowest(availableIdSet)}>>
      ELSE IF next >= lastTimerId THEN <<next, next, availableIdSet>>
      ELSE <<INVALID_TIMER_ID, lastTimerId, availableIdSet>>

AddTimer(t, iv, single) ==
  /\ phase # "fire" /\ Fresh(t)
  /\ LET got == GetNextTimerId
     IN  /\ Valid(got[1])                  \* otherwise addTimer returns nullptr
         /\ timerId' = [timerId EXCEPT ![t] = got[1]]
         /\ timerMap' = [timerMap EXCEPT ![got[1]] = t]
         /\ lastTimerId' = got[2]
         /\ availableIdSet' = got[3]
  /\ interval' = [interval EXCEPT ![t] = Clamped(iv)]
  /\ isSingle' = [isSingle EXCEPT ![t] = single]
  /\ isWorking' = [isWorking EXCEPT ![t] = FALSE]
  /\ nextTimeout' = [nextTimeout EXCEPT ![t] = -MaxLag - 1]
  /\ UNCHANGED <<timerEventsMap, fireVars, calls>>

StartTimer(id) ==
  /\ LET t == timerMap[id]
     IN  IF t = NoTimer \/ working(t) THEN UNCHANGED <<isWorking, nextTimeout, timerEventsMap>>
         ELSE /\ isWorking' = [isWorking EXCEPT ![t] = TRUE]
              /\ nextTimeout' = [nextTimeout EXCEPT ![t] = interval[t]]
              /\ timerEventsMap' = Emplace(timerEventsMap, interval[t], id, t)
  /\ UNCHANGED <<isSingle, interval, idVars>>

StopTimer(id) ==
  /\ LET t == timerMap[id]
     IN  IF t = NoTimer THEN UNCHANGED <<isWorking, timerEventsMap>>
         ELSE /\ isWorking' = [isWorking EXCEPT ![t] = FALSE]
              /\ timerEventsMap' = Erase(timerEventsMap, nextTimeout[t], id)
  /\ UNCHANGED <<isSingle, interval, nextTimeout, idVars>>

\* Mutant: the released timer's entry stays in the map.
ReleaseTimerKeepsEntry(id) ==
  /\ LET t == timerMap[id]
     IN  IF t = NoTimer THEN UNCHANGED idVars
         ELSE /\ timerId' = [timerId EXCEPT ![t] = INVALID_TIMER_ID]
              /\ timerMap' = [timerMap EXCEPT ![id] = NoTimer]
              /\ availableIdSet' = availableIdSet \cup {id}
              /\ UNCHANGED lastTimerId
  /\ UNCHANGED <<timerVars, timerEventsMap>>

ReleaseTimer(id) ==
  /\ LET t == timerMap[id]
     IN  IF t = NoTimer THEN UNCHANGED <<idVars, timerEventsMap>>
         ELSE /\ timerEventsMap' = Erase(timerEventsMap, nextTimeout[t], id)
              /\ timerId' = [timerId EXCEPT ![t] = INVALID_TIMER_ID]
              /\ timerMap' = [timerMap EXCEPT ![id] = NoTimer]
              /\ availableIdSet' = availableIdSet \cup {id}
              /\ UNCHANGED lastTimerId
  /\ UNCHANGED timerVars

Apply(op, id) == CASE op = "start" -> StartTimer(id)
                   [] op = "stop" -> StopTimer(id)
                   [] op = "release" -> ReleaseTimer(id)

-----------------------------------------------------------------------------
(* Who calls them *)

\* Timer::start, stop or release on the loop's thread, outside handleTimerEvent.
LoopCall(t, op) ==
  /\ phase = "free" /\ Valid(timerId[t])
  /\ Apply(op, timerId[t])
  /\ UNCHANGED <<fireVars, calls>>

\* The same from a callback of the timer that is firing.
CallbackCall(t, op) ==
  /\ phase = "callback" /\ op \in CallbackOps
  /\ OwnTimerOnly => t = Head(timeoutQueue)
  /\ Valid(timerId[t])
  /\ Apply(op, timerId[t])
  /\ UNCHANGED <<fireVars, calls>>

\* A foreign thread reads the handle's id, then queues the operation on it.
ForeignCall(t, op) ==
  /\ Len(calls) < MaxCalls /\ Valid(timerId[t])
  /\ calls' = Append(calls, <<op, timerId[t]>>)
  /\ UNCHANGED <<timerVars, idVars, timerEventsMap, fireVars>>

RunCall ==
  /\ phase = "free" /\ calls # <<>>
  /\ Apply(Head(calls)[1], Head(calls)[2])
  /\ calls' = Tail(calls)
  /\ UNCHANGED fireVars

\* Timer::setInterval and setSingle, refused while the timer is working.
Configure(t, iv, single) ==
  /\ ~working(t) /\ ~Fresh(t)
  /\ interval' = [interval EXCEPT ![t] = Clamped(iv)]
  /\ isSingle' = [isSingle EXCEPT ![t] = single]
  /\ UNCHANGED <<isWorking, nextTimeout, idVars, timerEventsMap, fireVars, calls>>

-----------------------------------------------------------------------------
(* handleTimerEvent *)

\* Every entry that is due leaves the map at once.
Collect ==
  /\ phase = "free" /\ Due # {}
  /\ \E s \in InOrder(Due) : timeoutQueue' = [i \in DOMAIN s |-> s[i].timer]
  /\ timerEventsMap' = timerEventsMap \ Due
  /\ phase' = "fire"
  /\ UNCHANGED <<timerVars, idVars, cycleQueue, calls>>

\* timeout.emit() of the first of them.
Fire ==
  /\ phase = "fire" /\ timeoutQueue # <<>>
  /\ phase' = "callback"
  /\ UNCHANGED <<timerVars, idVars, timerEventsMap, timeoutQueue, cycleQueue, calls>>

\* Mutant of AfterCallback: a repeating timer is kept whatever its callback did.
AfterCallbackAlways ==
  /\ phase = "callback"
  /\ LET t == Head(timeoutQueue)
     IN  IF ~isSingle[t] THEN cycleQueue' = Append(cycleQueue, t) /\ UNCHANGED isWorking
         ELSE isWorking' = [isWorking EXCEPT ![t] = FALSE] /\ UNCHANGED cycleQueue
  /\ timeoutQueue' = Tail(timeoutQueue)
  /\ phase' = "fire"
  /\ UNCHANGED <<isSingle, interval, nextTimeout, idVars, timerEventsMap, calls>>

\* After its callbacks: a repeating timer that still works is kept for later.
AfterCallback ==
  /\ phase = "callback"
  /\ LET t == Head(timeoutQueue)
     IN  IF ~isSingle[t] /\ working(t)
         THEN cycleQueue' = Append(cycleQueue, t) /\ UNCHANGED isWorking
         ELSE isWorking' = [isWorking EXCEPT ![t] = FALSE] /\ UNCHANGED cycleQueue
  /\ timeoutQueue' = Tail(timeoutQueue)
  /\ phase' = "fire"
  /\ UNCHANGED <<isSingle, interval, nextTimeout, idVars, timerEventsMap, calls>>

\* The repeating ones go back into the map, one after the other, each with the
\* id it has by now.
Kept == {cycleQueue[i] : i \in DOMAIN cycleQueue}
\* Mutant: repeating timers are not put back.
WithoutKept == timerEventsMap

\* Of two timers with the same key the first is emplaced; an entry that is in
\* the map already stays.
WithKept ==
  LET entry(n) == LET t == cycleQueue[n] IN [when |-> interval[t], id |-> timerId[t], timer |-> t]
      same(e, f) == e.when = f.when /\ e.id = f.id
      added == {n \in DOMAIN cycleQueue : /\ \A e \in timerEventsMap : ~same(e, entry(n))
                                         /\ \A k \in 1 .. n - 1 : ~same(entry(k), entry(n))}
  IN  timerEventsMap \cup {entry(n) : n \in added}

Recycle ==
  /\ phase = "fire" /\ timeoutQueue = <<>>
  /\ nextTimeout' = [t \in Timers |-> IF t \in Kept THEN interval[t] ELSE nextTimeout[t]]
  /\ timerEventsMap' = WithKept
  /\ cycleQueue' = <<>>
  /\ phase' = "free"
  /\ UNCHANGED <<isWorking, isSingle, interval, idVars, timeoutQueue, calls>>

\* Time passes; the loop is at most MaxLag late.  A time that nothing can be
\* stored under any more stays at the bound.
Tick ==
  /\ \A e \in timerEventsMap : e.when > -MaxLag
  /\ timerEventsMap' = {[e EXCEPT !.when = @ - 1] : e \in timerEventsMap}
  /\ nextTimeout' = [t \in Timers |->
       IF nextTimeout[t] < -MaxLag THEN nextTimeout[t] ELSE nextTimeout[t] - 1]
  /\ UNCHANGED <<isWorking, isSingle, interval, idVars, fireVars, calls>>

HandleTimerEvent == Collect \/ Fire \/ AfterCallback \/ Recycle

UserStep == \/ \E t \in Timers, iv \in Intervals, s \in BOOLEAN :
                  AddTimer(t, iv, s) \/ Configure(t, iv, s)
            \/ \E t \in Timers, op \in Ops :
                  LoopCall(t, op) \/ CallbackCall(t, op) \/ ForeignCall(t, op)

Next == HandleTimerEvent \/ RunCall \/ Tick \/ UserStep

\* The object is a scheduler, or has a timer armed already, so that the loop
\* visits it (ObjectEvents); callbacks return.
Spec == /\ Init /\ [][Next]_vars
        /\ WF_vars(HandleTimerEvent) /\ WF_vars(RunCall) /\ WF_vars(Tick)
-----------------------------------------------------------------------------
(* Properties *)

\* The type invariant of the variables.
TypeOK ==
  /\ timerId \in [Timers -> Ids \cup {INVALID_TIMER_ID}]
  /\ isWorking \in [Timers -> BOOLEAN] /\ isSingle \in [Timers -> BOOLEAN]
  /\ interval \in [Timers -> Nat \ {0}] /\ nextTimeout \in [Timers -> Int]
  /\ lastTimerId \in Ids \cup {INVALID_TIMER_ID}
  /\ availableIdSet \subseteq Ids
  /\ timerMap \in [Ids -> Timers \cup {NoTimer}]
  /\ timerEventsMap \subseteq [when : Int, id : Ids \cup {INVALID_TIMER_ID}, timer : Timers]
  /\ phase \in {"free", "fire", "callback"}
  /\ timeoutQueue \in Seq(Timers) /\ cycleQueue \in Seq(Timers)
  /\ phase = "callback" => timeoutQueue # <<>>
  /\ calls \in Seq(Ops \X Ids)

Registered == {i \in Ids : timerMap[i] # NoTimer}

\* Every id up to lastTimerId is either registered or free to be given again,
\* never both (getNextTimerId, releaseTimer), and timerMap and the handles'
\* ids say the same: no id is lost, none given to two timers, also when the
\* counter has reached the end of its range and ids are only recycled.
IdPartition ==
  /\ Registered \cup availableIdSet = 1 .. lastTimerId
  /\ Registered \cap availableIdSet = {}
  /\ \A i \in Registered : timerId[timerMap[i]] = i
  /\ \A t \in Timers : Valid(timerId[t]) => timerMap[timerId[t]] = t

\* An entry is stored under the time and the id its timer has now: stopTimer
\* and releaseTimer compute the key of the entry to erase from them.
KeyIsCurrent ==
  \A e \in timerEventsMap : e.when = nextTimeout[e.timer] /\ e.id = timerId[e.timer]

\* A registered timer that has been stopped, or has fired once and is single,
\* is not armed: handleTimerEvent looks at working() before it rearms.
StoppedIsDisarmed ==
  phase = "free" =>
    \A t \in Timers : Valid(timerId[t]) /\ ~isWorking[t] => \A e \in timerEventsMap : e.timer # t

Firing(t) == phase = "callback" /\ Head(timeoutQueue) = t

\* A started timer fires, unless it is stopped or released first.
WorkingFires == \A t \in Timers : working(t) ~> (Firing(t) \/ ~working(t))

=============================================================================
