------------------------- MODULE ObjectTimersProofs -------------------------
(***************************************************************************)
(* The id allocator of ObjectTimers is correct for every number of         *)
(* handles, every width of TimerId, and whatever callbacks and foreign     *)
(* threads do; and its map of expiries is right as long as callbacks stop  *)
(* or release no timer but their own.                                      *)
(***************************************************************************)
EXTENDS ObjectTimers, FiniteSetTheorems, WellFoundedInduction, TLAPS

\* The part of the type invariant that the ids need.
IdType ==
  /\ timerId \in [Timers -> Ids \cup {INVALID_TIMER_ID}]
  /\ lastTimerId \in 0 .. MaxId
  /\ availableIdSet \subseteq Ids
  /\ timerMap \in [Ids -> Timers \cup {NoTimer}]
  /\ calls \in Seq(Ops \X Ids)

IdInv == IdType /\ IdPartition

USE TimerAssumption DEF Ids, INVALID_TIMER_ID, Valid

\* *availableIdSet.begin() is one of the available ids.
LEMMA LowestInSet == ASSUME NEW S, S \subseteq Nat, S # {} PROVE Lowest(S) \in S
<1> DEFINE R == {p \in Nat \X Nat : p[1] < p[2]}
<1>1. IsWellFoundedOn(R, Nat)
  BY NatLessThanWellFounded DEF OpToRel
<1>2. \E i \in S : \A j \in S : ~(<<j, i>> \in R)
  BY <1>1, WFMin
<1>3. PICK i \in S : \A j \in S : ~(<<j, i>> \in R)
  BY <1>2
<1>4. ASSUME NEW j \in S PROVE i <= j
  <2>1. i \in Nat /\ j \in Nat /\ ~(j < i)
    BY <1>3
  <2> QED BY <2>1
<1> QED BY <1>4 DEF Lowest
\* The counter's increment wraps at its width and nowhere else.
LEMMA WidthOfId ==
  ASSUME NEW last \in 0 .. MaxId
  PROVE  (last + 1) % (MaxId + 1) = IF last = MaxId THEN 0 ELSE last + 1
<1>1. CASE last = MaxId
  BY <1>1, SMTT(30)
<1>2. CASE last < MaxId
  BY <1>2, SMTT(30)
<1> QED BY <1>1, <1>2

\* getNextTimerId gives an id that is not registered, or none.
LEMMA NextIdIsFree ==
  ASSUME IdInv, Valid(GetNextTimerId[1])
  PROVE  LET got == GetNextTimerId
         IN  /\ got[1] \in Ids \ Registered
             /\ got[2] \in 0 .. MaxId /\ got[3] \subseteq Ids
             /\ Registered \cup {got[1]} \cup got[3] = 1 .. got[2]
             /\ (Registered \cup {got[1]}) \cap got[3] = {}
<1> DEFINE next == (lastTimerId + 1) % (MaxId + 1)
<1>1. CASE availableIdSet # {}
  <2>1. Lowest(availableIdSet) \in availableIdSet
    <3>1. availableIdSet \subseteq Nat
      BY DEF IdInv, IdType
    <3> QED BY <1>1, <3>1, LowestInSet
  <2>2. GetNextTimerId = <<Lowest(availableIdSet), lastTimerId,
                           availableIdSet \ {Lowest(availableIdSet)}>>
    BY <1>1 DEF GetNextTimerId
  <2> QED BY <2>1, <2>2 DEF IdInv, IdType, IdPartition
<1>2. CASE availableIdSet = {}
  <2>1. next = IF lastTimerId = MaxId THEN 0 ELSE lastTimerId + 1
    <3>1. lastTimerId \in 0 .. MaxId
      BY DEF IdInv, IdType
    <3> QED BY <3>1, WidthOfId
  <2>2. GetNextTimerId = IF next >= lastTimerId THEN <<next, next, availableIdSet>>
                         ELSE <<0, lastTimerId, availableIdSet>>
    BY <1>2 DEF GetNextTimerId
  <2>3. lastTimerId \in 0 .. MaxId /\ Registered = 1 .. lastTimerId
    BY <1>2 DEF IdInv, IdType, IdPartition
  <2>4. /\ GetNextTimerId = <<lastTimerId + 1, lastTimerId + 1, availableIdSet>>
        /\ lastTimerId < MaxId
    BY <2>1, <2>2, <2>3
  <2> QED BY <1>2, <2>3, <2>4
<1> QED BY <1>1, <1>2

\* At the start every id is free.
LEMMA IdInit == Init => IdInv
  BY DEF Init, IdInv, IdType, IdPartition, Registered

\* getNextTimerId takes an id out of the recycled ones or a new one.
LEMMA AddTimerId ==
  ASSUME IdInv, NEW t \in Timers, NEW iv, NEW single, AddTimer(t, iv, single)
  PROVE  IdInv'
<1> DEFINE got == GetNextTimerId
<1>1. /\ got[1] \in Ids \ Registered
      /\ got[2] \in 0 .. MaxId /\ got[3] \subseteq Ids
      /\ Registered \cup {got[1]} \cup got[3] = 1 .. got[2]
      /\ (Registered \cup {got[1]}) \cap got[3] = {}
  BY NextIdIsFree DEF AddTimer
<1>2. /\ timerId' = [timerId EXCEPT ![t] = got[1]]
      /\ timerMap' = [timerMap EXCEPT ![got[1]] = t]
      /\ lastTimerId' = got[2] /\ availableIdSet' = got[3] /\ calls' = calls
      /\ timerId[t] = 0
  BY DEF AddTimer, Fresh
<1> HIDE DEF got
<1>3. IdType'
  BY <1>1, <1>2 DEF IdInv, IdType
<1>4. Registered' = Registered \cup {got[1]}
  BY <1>1, <1>2 DEF Registered, IdInv, IdType
<1>5. \A i \in Registered : timerMap[i] # t
  BY <1>2 DEF IdInv, IdPartition, Registered
<1>6. \A i \in Registered' : timerId'[timerMap'[i]] = i
  BY <1>1, <1>2, <1>4, <1>5 DEF IdInv, IdType, IdPartition, Registered
<1>7. \A u \in Timers : Valid(timerId'[u]) => timerMap'[timerId'[u]] = u
  BY <1>1, <1>2 DEF IdInv, IdType, IdPartition, Registered
<1> QED BY <1>1, <1>2, <1>3, <1>4, <1>6, <1>7 DEF IdInv, IdPartition

\* An operation on an id, which may have changed hands since it was read.
LEMMA ApplyId ==
  ASSUME IdInv, NEW op \in Ops, NEW id \in Ids, Apply(op, id), calls' \in Seq(Ops \X Ids)
  PROVE  IdInv'
<1>1. CASE UNCHANGED idVars
  BY <1>1 DEF IdInv, IdType, IdPartition, Registered, idVars
<1>2. CASE op = "release" /\ timerMap[id] # NoTimer
  <2> DEFINE t == timerMap[id]
  <2>1. /\ timerId' = [timerId EXCEPT ![t] = 0]
        /\ timerMap' = [timerMap EXCEPT ![id] = NoTimer]
        /\ availableIdSet' = availableIdSet \cup {id} /\ lastTimerId' = lastTimerId
    BY <1>2 DEF Apply, ReleaseTimer
  <2>2. t \in Timers /\ timerId[t] = id /\ id \in Registered
    BY <1>2 DEF IdInv, IdType, IdPartition, Registered
  <2>3. IdType'
    BY <2>1 DEF IdInv, IdType
  <2>4. Registered' = Registered \ {id}
    BY <2>1, <2>2 DEF Registered, IdInv, IdType
  <2>5. \A i \in Registered' : timerId'[timerMap'[i]] = i
    BY <2>1, <2>2, <2>4 DEF IdInv, IdType, IdPartition, Registered
  <2>6. \A u \in Timers : Valid(timerId'[u]) => timerMap'[timerId'[u]] = u
    BY <2>1, <2>2 DEF IdInv, IdType, IdPartition, Registered
  <2>7. /\ Registered' \cup availableIdSet' = 1 .. lastTimerId'
        /\ Registered' \cap availableIdSet' = {}
    BY <2>1, <2>2, <2>4 DEF IdInv, IdPartition
  <2> QED BY <2>3, <2>5, <2>6, <2>7 DEF IdInv, IdPartition
<1>3. CASE ~(op = "release" /\ timerMap[id] # NoTimer) /\ ~UNCHANGED idVars
  BY <1>3 DEF Apply, Ops, StartTimer, StopTimer, ReleaseTimer
<1> QED BY <1>1, <1>2, <1>3

\* Every step keeps each id in one place.
LEMMA IdStep == IdInv /\ [Next]_vars => IdInv'
<1> SUFFICES ASSUME IdInv, [Next]_vars PROVE IdInv'
  OBVIOUS
<1>1. CASE UNCHANGED <<idVars, calls>>
  BY <1>1 DEF IdInv, IdType, IdPartition, Registered, idVars
<1>2. CASE HandleTimerEvent \/ Tick \/ UNCHANGED vars
  BY <1>1, <1>2 DEF HandleTimerEvent, Collect, Fire, AfterCallback, Recycle, Tick, vars
<1>3. CASE RunCall
  <2>1. Head(calls)[1] \in Ops /\ Head(calls)[2] \in Ids /\ calls' \in Seq(Ops \X Ids)
    BY <1>3 DEF RunCall, IdInv, IdType
  <2> QED BY <1>3, <2>1, ApplyId DEF RunCall
<1>4. ASSUME NEW t \in Timers, NEW iv \in Intervals, NEW s \in BOOLEAN,
             AddTimer(t, iv, s) \/ Configure(t, iv, s)
      PROVE  IdInv'
  BY <1>1, <1>4, AddTimerId DEF Configure
<1>5. ASSUME NEW t \in Timers, NEW op \in Ops, LoopCall(t, op) \/ CallbackCall(t, op)
      PROVE  IdInv'
  <2>1. timerId[t] \in Ids /\ Apply(op, timerId[t]) /\ calls' \in Seq(Ops \X Ids)
    BY <1>5 DEF LoopCall, CallbackCall, IdInv, IdType
  <2> QED BY <2>1, ApplyId
<1>6. ASSUME NEW t \in Timers, NEW op \in Ops, ForeignCall(t, op) PROVE IdInv'
  <2>1. timerId[t] \in Ids /\ calls \in Seq(Ops \X Ids)
    BY <1>6 DEF ForeignCall, IdInv, IdType
  <2>2. calls' \in Seq(Ops \X Ids)
    BY <1>6, <2>1 DEF ForeignCall
  <2> QED BY <1>6, <2>2 DEF ForeignCall, IdInv, IdType, IdPartition, Registered, idVars
<1> QED BY <1>2, <1>3, <1>4, <1>5, <1>6 DEF Next, UserStep

\* No id is lost or given to two timers at a time, and an operation that a
\* foreign thread queued for an id reaches a registered timer or none, whatever
\* has happened to the id since: for every number of timers and ids.
THEOREM IdsPartitioned == Spec => []IdPartition
<1>1. IdInv => IdPartition
  BY DEF IdInv
<1> QED BY <1>1, IdInit, IdStep, PTL DEF Spec

-----------------------------------------------------------------------------
(* The map of expiries *)

\* Callbacks that run inside handleTimerEvent stop or release their own timer.
OwnTimer == OwnTimerOnly /\ CallbackOps \subseteq {"stop", "release"}

InSeq(t, s) == \E i \in DOMAIN s : s[i] = t

\* An armed timer works, and its entry has the key that the timer remembers.
Armed ==
  \A e \in timerEventsMap :
    /\ e.when = nextTimeout[e.timer] /\ e.id = timerId[e.timer]
    /\ working(e.timer)

\* While a batch is fired, its timers are in one place each and work, except
\* the one whose callback is running.
Batch ==
  /\ phase = "free" => timeoutQueue = <<>> /\ cycleQueue = <<>>
  /\ \A e \in timerEventsMap : ~InSeq(e.timer, timeoutQueue) /\ ~InSeq(e.timer, cycleQueue)
  /\ \A i, j \in DOMAIN timeoutQueue : timeoutQueue[i] = timeoutQueue[j] => i = j
  /\ \A i, j \in DOMAIN cycleQueue : cycleQueue[i] = cycleQueue[j] => i = j
  /\ \A i \in DOMAIN timeoutQueue : ~InSeq(timeoutQueue[i], cycleQueue)
  /\ \A i \in DOMAIN timeoutQueue : (phase = "callback" /\ i = 1) \/ working(timeoutQueue[i])
  /\ \A i \in DOMAIN cycleQueue : working(cycleQueue[i])

MapInv == TypeOK /\ IdPartition /\ Armed /\ Batch

\* At the start no timer is armed.
LEMMA MapInit == Init => MapInv
<1> SUFFICES ASSUME Init PROVE MapInv
  OBVIOUS
<1>1. TypeOK
  BY DEF Init, TypeOK
<1>2. IdPartition
  BY IdInit DEF IdInv
<1> QED BY <1>1, <1>2 DEF Init, MapInv, Armed, Batch

Entries == [when : Int, id : Ids \cup {INVALID_TIMER_ID}, timer : Timers]

\* The fields of an entry.
LEMMA EntryType ==
  ASSUME TypeOK, NEW e \in timerEventsMap
  PROVE  e \in Entries /\ e.when \in Int /\ e.id \in Nat /\ e.timer \in Timers
<1>1. e \in Entries
  BY DEF TypeOK, Entries
<1> QED BY <1>1 DEF Entries

\* Entries that agree in their fields are the same.
LEMMA SameEntry ==
  ASSUME NEW e \in Entries, NEW g \in Entries, e.when = g.when, e.id = g.id, e.timer = g.timer
  PROVE  e = g
  BY DEF Entries

\* An armed timer has one entry.
LEMMA OneEntry ==
  ASSUME TypeOK, Armed, NEW e \in timerEventsMap, NEW g \in timerEventsMap, e.timer = g.timer
  PROVE  e = g
<1>1. e.when = g.when /\ e.id = g.id
  BY DEF Armed
<1> QED BY <1>1, EntryType, SameEntry

\* Armed timers have one entry each, so that the map is finite.
LEMMA DueIsFinite ==
  ASSUME TypeOK, Armed
  PROVE  Cardinality(Due) \in Nat
<1> DEFINE f == [e \in timerEventsMap |-> e.timer]
<1>2. f \in Injection(timerEventsMap, Timers)
  BY OneEntry, EntryType DEF Injection, IsInjective
<1>3. IsFiniteSet(timerEventsMap)
  BY <1>2, FS_Injection
<1>4. Due \in SUBSET timerEventsMap
  BY DEF Due
<1>5. IsFiniteSet(Due)
  BY <1>3, <1>4, FS_Subset
<1> QED BY <1>5, FS_CardinalityType

\* The batch: the timers of the due entries, each once.
LEMMA Collected ==
  ASSUME TypeOK, Armed, Collect
  PROVE  /\ timeoutQueue' \in Seq(Timers)
         /\ \A i \in DOMAIN timeoutQueue' : \E e \in Due : timeoutQueue'[i] = e.timer
         /\ \A i, j \in DOMAIN timeoutQueue' : timeoutQueue'[i] = timeoutQueue'[j] => i = j
<1>1. PICK s \in InOrder(Due) : timeoutQueue' = [i \in DOMAIN s |-> s[i].timer]
  BY DEF Collect
<1> DEFINE n == Cardinality(Due)
<1>2. n \in Nat
  BY DueIsFinite
<1>3. /\ s \in [1 .. n -> Due]
      /\ \A i, j \in 1 .. n : i < j => Before(s[i], s[j])
  BY <1>1 DEF InOrder
<1>4. \A i \in 1 .. n : s[i] \in Due /\ s[i].timer \in Timers
  BY <1>3, EntryType DEF Due
<1>5. timeoutQueue' = [i \in 1 .. n |-> s[i].timer]
  BY <1>1, <1>3
<1> HIDE DEF n
<1>6. timeoutQueue' \in Seq(Timers) /\ DOMAIN timeoutQueue' = 1 .. n
  BY <1>2, <1>4, <1>5
<1>7. ASSUME NEW i \in 1 .. n, NEW j \in 1 .. n, s[i].timer = s[j].timer PROVE i = j
  <2>1. s[i] = s[j]
    BY <1>4, <1>7, OneEntry DEF Due
  <2>2. ~Before(s[i], s[j]) /\ ~Before(s[j], s[i])
    <3>1. s[i].when \in Int /\ s[i].id \in Nat
      BY <1>4, EntryType DEF Due
    <3> QED BY <2>1, <3>1 DEF Before
  <2> QED BY <1>2, <1>3, <2>2
<1> QED BY <1>4, <1>5, <1>6, <1>7

\* Emplace and Erase as sets of entries.
LEMMA EmplaceMember ==
  ASSUME NEW m, NEW w, NEW id, NEW t, NEW e \in Emplace(m, w, id, t)
  PROVE  e \in m \/ e = [when |-> w, id |-> id, timer |-> t]
  BY DEF Emplace

\* An entry after handleTimerEvent was there or is that of a repeating timer.
LEMMA KeptMember ==
  ASSUME NEW e \in WithKept
  PROVE  e \in timerEventsMap \/ \E t \in Kept : e = [when |-> interval[t], id |-> timerId[t], timer |-> t]
  BY DEF WithKept, Kept

\* Time brings every entry nearer and changes nothing else in it.
LEMMA TickMember ==
  ASSUME TypeOK, Tick, NEW e \in timerEventsMap'
  PROVE  \E g \in timerEventsMap : e = [when |-> g.when - 1, id |-> g.id, timer |-> g.timer]
<1>1. PICK g \in timerEventsMap : e = [g EXCEPT !.when = @ - 1]
  BY DEF Tick
<1>2. g \in Entries
  BY EntryType
<1>3. [g EXCEPT !.when = @ - 1] = [when |-> g.when - 1, id |-> g.id, timer |-> g.timer]
  BY <1>2 DEF Entries
<1> QED BY <1>1, <1>3

\* What the operations do to the types, given that they leave the batch alone.
LEMMA ApplyType ==
  ASSUME TypeOK, IdPartition, IdPartition', NEW op \in Ops, NEW id \in Ids, Apply(op, id), UNCHANGED fireVars,
         IdType'
  PROVE  TypeOK'
<1> USE DEF IdType, fireVars
<1>1. CASE timerMap[id] = NoTimer
  BY <1>1 DEF Apply, Ops, StartTimer, StopTimer, ReleaseTimer, timerVars, idVars, TypeOK
<1>2. CASE timerMap[id] # NoTimer
  <2> DEFINE t == timerMap[id]
  <2>1. t \in Timers
    BY <1>2 DEF TypeOK
  <2>2. timerEventsMap' \subseteq [when : Int, id : Ids \cup {INVALID_TIMER_ID}, timer : Timers]
    <3>1. CASE op = "start"
      BY <2>1, <3>1 DEF Apply, Ops, StartTimer, Emplace, TypeOK
    <3>2. CASE op # "start"
      BY <1>2, <3>2 DEF Apply, Ops, StopTimer, ReleaseTimer, Erase, TypeOK
    <3> QED BY <3>1, <3>2
  <2>3. /\ isWorking' \in [Timers -> BOOLEAN] /\ isSingle' \in [Timers -> BOOLEAN]
        /\ interval' \in [Timers -> Nat \ {0}] /\ nextTimeout' \in [Timers -> Int]
    <3>1. CASE op = "start"
      <4>1. StartTimer(id)
        BY <3>1 DEF Apply
      <4>2. CASE working(t)
        BY <4>1, <4>2 DEF StartTimer, TypeOK
      <4>3. CASE ~working(t)
        <5>1. /\ isWorking' = [isWorking EXCEPT ![t] = TRUE]
              /\ nextTimeout' = [nextTimeout EXCEPT ![t] = interval[t]]
              /\ UNCHANGED <<isSingle, interval>>
          BY <1>2, <4>1, <4>3 DEF StartTimer
        <5>2. interval[t] \in Int
          BY <2>1 DEF TypeOK
        <5> QED BY <2>1, <5>1, <5>2 DEF TypeOK
      <4> QED BY <4>2, <4>3
    <3>2. CASE op = "stop"
      BY <2>1, <3>2 DEF Apply, Ops, StopTimer, TypeOK
    <3>3. CASE op = "release"
      BY <3>3 DEF Apply, Ops, ReleaseTimer, timerVars, TypeOK
    <3> QED BY <3>1, <3>2, <3>3 DEF Ops
  <2>4. lastTimerId' \in Ids \cup {INVALID_TIMER_ID}
    OBVIOUS
  <2> QED BY <2>2, <2>3, <2>4 DEF TypeOK
<1> QED BY <1>1, <1>2

\* A call made by the loop, by a callback or for a foreign thread.
Called(op, id) ==
  \/ phase = "free"
  \/ phase = "callback" /\ op \in {"stop", "release"} /\ id = timerId[Head(timeoutQueue)]

\* Under the own-timer discipline a callback stops or releases its own timer only.
LEMMA CallCases ==
  ASSUME OwnTimer, TypeOK,
         RunCall \/ \E t \in Timers, op \in Ops : LoopCall(t, op) \/ CallbackCall(t, op)
  PROVE  \E op \in Ops, id \in Ids : Apply(op, id) /\ Called(op, id) /\ UNCHANGED fireVars
<1>1. CASE RunCall
  <2>1. Head(calls)[1] \in Ops /\ Head(calls)[2] \in Ids
    BY <1>1 DEF RunCall, TypeOK
  <2> QED BY <1>1, <2>1 DEF RunCall, Called
<1>2. ASSUME NEW t \in Timers, NEW op \in Ops, LoopCall(t, op)
      PROVE  \E o \in Ops, id \in Ids : Apply(o, id) /\ Called(o, id) /\ UNCHANGED fireVars
  <2>1. timerId[t] \in Ids
    BY <1>2 DEF LoopCall, TypeOK
  <2> QED BY <1>2, <2>1 DEF LoopCall, Called
<1>3. ASSUME NEW t \in Timers, NEW op \in Ops, CallbackCall(t, op)
      PROVE  \E o \in Ops, id \in Ids : Apply(o, id) /\ Called(o, id) /\ UNCHANGED fireVars
  <2>1. timerId[t] \in Ids
    BY <1>3 DEF CallbackCall, TypeOK
  <2>2. Called(op, timerId[t])
    BY <1>3 DEF CallbackCall, OwnTimer, Called
  <2> QED BY <1>3, <2>1, <2>2 DEF CallbackCall
<1> QED BY <1>1, <1>2, <1>3

\* Every step keeps the types and each id in one place.
LEMMA TypeStep == OwnTimer /\ MapInv /\ [Next]_vars => TypeOK' /\ IdPartition'
<1> SUFFICES ASSUME OwnTimer, MapInv, [Next]_vars PROVE TypeOK' /\ IdPartition'
  OBVIOUS
<1>0. TypeOK /\ IdPartition /\ Armed /\ Batch
  BY DEF MapInv
<1>1. IdInv'
  <2>1. lastTimerId \in 0 .. MaxId
    BY <1>0 DEF TypeOK
  <2>2. IdType
    BY <1>0, <2>1 DEF TypeOK, IdType
  <2> QED BY <1>0, <2>2, IdStep DEF IdInv
<1>2. IdType' /\ IdPartition'
  BY <1>1 DEF IdInv
<1>3. lastTimerId' \in Ids \cup {INVALID_TIMER_ID}
  BY <1>2 DEF IdType
<1>4. ASSUME NEW op \in Ops, NEW id \in Ids, Apply(op, id), UNCHANGED fireVars PROVE TypeOK'
  BY <1>0, <1>2, <1>4, ApplyType
<1>5. CASE RunCall \/ \E t \in Timers, op \in Ops : LoopCall(t, op) \/ CallbackCall(t, op)
  BY <1>0, <1>2, <1>4, <1>5, CallCases
<1>6. CASE Collect
  <2>1. timeoutQueue' \in Seq(Timers)
    BY <1>0, <1>6, Collected
  <2> QED BY <1>0, <1>2, <1>3, <1>6, <2>1 DEF Collect, TypeOK, IdType, timerVars, idVars
<1>7. CASE Fire
  BY <1>0, <1>2, <1>3, <1>7 DEF Fire, TypeOK, IdType, timerVars, idVars
<1>8. CASE AfterCallback
  <2>1. Head(timeoutQueue) \in Timers /\ Tail(timeoutQueue) \in Seq(Timers)
    BY <1>0, <1>8 DEF AfterCallback, TypeOK
  <2>2. isWorking' \in [Timers -> BOOLEAN] /\ cycleQueue' \in Seq(Timers)
    <3> DEFINE t == Head(timeoutQueue)
    <3>1. CASE ~isSingle[t] /\ working(t)
      <4>1. cycleQueue' = Append(cycleQueue, t) /\ isWorking' = isWorking
        BY <1>8, <3>1 DEF AfterCallback
      <4> QED BY <1>0, <2>1, <4>1 DEF TypeOK
    <3>2. CASE ~(~isSingle[t] /\ working(t))
      <4>1. cycleQueue' = cycleQueue /\ isWorking' = [isWorking EXCEPT ![t] = FALSE]
        BY <1>8, <3>2 DEF AfterCallback
      <4> QED BY <1>0, <2>1, <4>1 DEF TypeOK
    <3> QED BY <3>1, <3>2
  <2> QED BY <1>0, <1>2, <1>3, <1>8, <2>1, <2>2 DEF AfterCallback, TypeOK, IdType, idVars
<1>9. CASE Recycle
  <2>1. \A t \in Kept : t \in Timers
    BY <1>0 DEF Kept, TypeOK
  <2>2. nextTimeout' \in [Timers -> Int]
    <3>1. \A t \in Timers : interval[t] \in Int /\ nextTimeout[t] \in Int
      BY <1>0 DEF TypeOK
    <3> QED BY <1>9, <3>1 DEF Recycle
  <2>3. ASSUME NEW e \in WithKept PROVE e \in Entries
    <3>1. CASE e \in timerEventsMap
      BY <1>0, <3>1, EntryType
    <3>2. ASSUME NEW t \in Kept, e = [when |-> interval[t], id |-> timerId[t], timer |-> t]
          PROVE  e \in Entries
      BY <1>0, <2>1, <3>2 DEF Entries, TypeOK
    <3> QED BY <3>1, <3>2, KeptMember
  <2>4. timerEventsMap' \subseteq [when : Int, id : Ids \cup {INVALID_TIMER_ID}, timer : Timers]
    BY <1>9, <2>3 DEF Recycle, Entries
  <2> QED BY <1>0, <1>2, <1>3, <1>9, <2>2, <2>4 DEF Recycle, TypeOK, IdType, idVars
<1>10. CASE Tick
  <2>1. ASSUME NEW e \in timerEventsMap' PROVE e \in Entries
    <3>1. PICK g \in timerEventsMap : e = [when |-> g.when - 1, id |-> g.id, timer |-> g.timer]
      BY <1>0, <1>10, TickMember
    <3>2. g \in Entries
      BY <1>0, EntryType
    <3> QED BY <3>1, <3>2 DEF Entries
  <2>2. timerEventsMap' \subseteq [when : Int, id : Ids \cup {INVALID_TIMER_ID}, timer : Timers]
    BY <2>1 DEF Entries
  <2>3. nextTimeout' \in [Timers -> Int]
    <3>1. \A t \in Timers : nextTimeout[t] \in Int
      BY <1>0 DEF TypeOK
    <3> QED BY <1>10, <3>1 DEF Tick
  <2> QED BY <1>0, <1>2, <1>3, <1>10, <2>2, <2>3 DEF Tick, TypeOK, IdType, idVars, fireVars
<1>11. ASSUME NEW t \in Timers, NEW iv \in Intervals, NEW s \in BOOLEAN,
              AddTimer(t, iv, s) \/ Configure(t, iv, s)
       PROVE  TypeOK'
  <2>1. Clamped(iv) \in Nat \ {0}
    BY DEF Clamped
  <2>2. CASE AddTimer(t, iv, s)
    <3>1. nextTimeout' \in [Timers -> Int]
      <4>1. -MaxLag - 1 \in Int
        OBVIOUS
      <4> QED BY <1>0, <2>2, <4>1 DEF AddTimer, TypeOK
    <3>2. /\ isWorking' \in [Timers -> BOOLEAN] /\ isSingle' \in [Timers -> BOOLEAN]
          /\ interval' \in [Timers -> Nat \ {0}]
      BY <1>0, <2>1, <2>2 DEF AddTimer, TypeOK
    <3> QED BY <1>0, <1>2, <1>3, <2>2, <3>1, <3>2 DEF AddTimer, TypeOK, IdType, fireVars
  <2>3. CASE Configure(t, iv, s)
    BY <1>0, <2>1, <2>3 DEF Configure, TypeOK, idVars, fireVars
  <2> QED BY <1>11, <2>2, <2>3
<1>12. ASSUME NEW t \in Timers, NEW op \in Ops, ForeignCall(t, op) PROVE TypeOK'
  BY <1>0, <1>2, <1>3, <1>12 DEF ForeignCall, TypeOK, IdType, timerVars, idVars, fireVars
<1>13. CASE UNCHANGED vars
  BY <1>0, <1>2, <1>3, <1>13 DEF vars, TypeOK, IdType, timerVars, idVars, fireVars
<1> QED BY <1>2, <1>5, <1>6, <1>7, <1>8, <1>9, <1>10, <1>11, <1>12, <1>13
        DEF Next, UserStep, HandleTimerEvent

\* The operations keep Armed and Batch: one that ends the work of a timer
\* leaves no entry of it, one that begins it finds none.
LEMMA ApplyMap ==
  ASSUME MapInv, NEW op \in Ops, NEW id \in Ids, Apply(op, id), Called(op, id), UNCHANGED fireVars
  PROVE  Armed' /\ Batch'
<1> DEFINE t == timerMap[id]
<1>0. TypeOK /\ IdPartition /\ Armed /\ Batch
  BY DEF MapInv
<1>1. UNCHANGED <<phase, timeoutQueue, cycleQueue>>
  BY DEF fireVars
<1>2. CASE UNCHANGED <<timerId, isWorking, nextTimeout, timerEventsMap>>
  BY <1>0, <1>1, <1>2 DEF Armed, Batch, InSeq, working
<1>3. CASE t # NoTimer /\ op \in {"stop", "release"}
  <2>1. t \in Timers /\ timerId[t] = id
    BY <1>0, <1>3 DEF TypeOK, IdPartition, Registered
  <2>2. /\ timerEventsMap' = Erase(timerEventsMap, nextTimeout[t], id)
        /\ nextTimeout' = nextTimeout
    BY <1>3 DEF Apply, Ops, StopTimer, ReleaseTimer, timerVars
  <2>3. \A e \in timerEventsMap' : e \in timerEventsMap /\ e.timer # t
    BY <1>0, <2>1, <2>2 DEF Erase, Armed
  <2>4. \A u \in Timers : u # t => timerId'[u] = timerId[u] /\ isWorking'[u] = isWorking[u]
    <3>1. CASE op = "stop"
      BY <1>0, <1>3, <2>1, <3>1 DEF Apply, StopTimer, idVars, TypeOK
    <3>2. CASE op = "release"
      BY <1>0, <1>3, <2>1, <3>2 DEF Apply, ReleaseTimer, timerVars, TypeOK
    <3> QED BY <1>3, <3>1, <3>2
  <2>5. \A u \in Timers : u # t => (working(u)' <=> working(u))
    BY <2>4 DEF working
  <2>6. Armed'
    <3>1. \A e \in timerEventsMap : e.timer \in Timers
      BY <1>0, EntryType
    <3> QED BY <1>0, <2>2, <2>3, <2>4, <2>5, <3>1 DEF Armed
  <2>7. phase # "free" => /\ phase = "callback" /\ 1 \in DOMAIN timeoutQueue
                          /\ t = timeoutQueue[1]
    <3>1. CASE phase = "callback"
      <4>1. 1 \in DOMAIN timeoutQueue /\ Head(timeoutQueue) = timeoutQueue[1] /\ timeoutQueue[1] \in Timers
        BY <1>0, <3>1 DEF TypeOK
      <4>2. id = timerId[timeoutQueue[1]]
        BY <3>1, <4>1 DEF Called
      <4>3. Valid(timerId[timeoutQueue[1]])
        BY <4>2 DEF Valid, Ids, INVALID_TIMER_ID
      <4> QED BY <1>0, <3>1, <4>1, <4>2, <4>3 DEF IdPartition
    <3> QED BY <3>1 DEF Called
  <2>8. Batch'
    <3>1. CASE phase = "free"
      BY <1>0, <1>1, <3>1 DEF Batch, InSeq
    <3>2. CASE phase # "free"
      <4>1. \A i \in DOMAIN timeoutQueue : timeoutQueue[i] \in Timers /\ (i # 1 => timeoutQueue[i] # t)
        BY <1>0, <2>7, <3>2 DEF Batch, TypeOK
      <4>2. \A i \in DOMAIN cycleQueue : cycleQueue[i] \in Timers /\ cycleQueue[i] # t
        BY <1>0, <2>7, <3>2 DEF Batch, TypeOK, InSeq
      <4> QED BY <1>0, <1>1, <2>3, <2>5, <2>7, <3>2, <4>1, <4>2 DEF Batch, InSeq
    <3> QED BY <3>1, <3>2
  <2> QED BY <2>6, <2>8
<1>4. CASE t # NoTimer /\ op = "start" /\ ~working(t)
  <2>1. t \in Timers /\ timerId[t] = id /\ Valid(id)
    BY <1>0, <1>4 DEF TypeOK, IdPartition, Registered, Valid, Ids, INVALID_TIMER_ID
  <2>2. /\ isWorking' = [isWorking EXCEPT ![t] = TRUE]
        /\ nextTimeout' = [nextTimeout EXCEPT ![t] = interval[t]]
        /\ timerEventsMap' = Emplace(timerEventsMap, interval[t], id, t)
        /\ timerId' = timerId
    BY <1>4 DEF Apply, Ops, StartTimer, idVars
  <2>3. ASSUME NEW e \in timerEventsMap'
        PROVE  e.when = nextTimeout'[e.timer] /\ e.id = timerId'[e.timer] /\ working(e.timer)'
    <3>1. CASE e \in timerEventsMap
      <4>1. e.timer \in Timers /\ e.timer # t
        BY <1>0, <1>4, <3>1, EntryType DEF Armed
      <4> QED BY <1>0, <2>2, <3>1, <4>1 DEF Armed, working, TypeOK
    <3>2. CASE e = [when |-> interval[t], id |-> id, timer |-> t]
      BY <1>0, <2>1, <2>2, <3>2 DEF working, TypeOK
    <3> QED BY <2>2, <3>1, <3>2, EmplaceMember
  <2>4. phase = "free"
    BY <1>4 DEF Called
  <2> QED BY <1>0, <1>1, <2>3, <2>4 DEF Armed, Batch, InSeq
<1>5. CASE t = NoTimer \/ (op = "start" /\ working(t))
  BY <1>2, <1>5 DEF Apply, Ops, StartTimer, StopTimer, ReleaseTimer, timerVars, idVars
<1> QED BY <1>3, <1>4, <1>5 DEF Ops

\* Collecting the expired timers.
LEMMA CollectMap == ASSUME MapInv, Collect PROVE Armed' /\ Batch'
<1>0. TypeOK /\ Armed /\ Batch
  BY DEF MapInv
<1>1. /\ timerEventsMap' = timerEventsMap \ Due /\ phase' = "fire"
      /\ UNCHANGED <<timerId, isWorking, nextTimeout, cycleQueue>>
  BY DEF Collect, timerVars, idVars
<1>2. cycleQueue = <<>>
  BY <1>0 DEF Collect, Batch
<1>3. Armed'
  BY <1>0, <1>1 DEF Armed, working
<1>4. /\ \A i \in DOMAIN timeoutQueue' : \E e \in Due : timeoutQueue'[i] = e.timer
      /\ \A i, j \in DOMAIN timeoutQueue' : timeoutQueue'[i] = timeoutQueue'[j] => i = j
  BY <1>0, Collected
<1>5. \A i \in DOMAIN timeoutQueue' : working(timeoutQueue[i])'
  <2>1. \A e \in Due : working(e.timer)'
    BY <1>0, <1>1 DEF Due, Armed, working
  <2> QED BY <1>4, <2>1 DEF working
<1>6. \A e \in timerEventsMap' : \A i \in DOMAIN timeoutQueue' : timeoutQueue'[i] # e.timer
  BY <1>0, <1>1, <1>4, OneEntry DEF Due
<1> QED BY <1>1, <1>2, <1>3, <1>4, <1>5, <1>6 DEF Batch, InSeq

\* The return of a callback.
LEMMA AfterCallbackMap == ASSUME MapInv, AfterCallback PROVE Armed' /\ Batch'
<1> DEFINE t == Head(timeoutQueue)
           q == timeoutQueue
<1>0. TypeOK /\ Armed /\ Batch
  BY DEF MapInv
<1>1. /\ phase = "callback" /\ phase' = "fire" /\ timeoutQueue' = Tail(q)
      /\ UNCHANGED <<timerId, nextTimeout, timerEventsMap>>
  BY DEF AfterCallback, idVars
<1>2. q \in Seq(Timers) /\ q # <<>> /\ t = q[1] /\ t \in Timers /\ 1 \in DOMAIN q
  BY <1>0, <1>1 DEF TypeOK
<1>3. \A i \in DOMAIN timeoutQueue' : i + 1 \in DOMAIN q /\ i + 1 # 1 /\ timeoutQueue'[i] = q[i + 1]
  BY <1>1, <1>2
<1>4. \A u \in Timers : u # t => (working(u)' <=> working(u))
  BY <1>0, <1>1, <1>2 DEF AfterCallback, working, TypeOK
<1>5. \A e \in timerEventsMap : e.timer \in Timers /\ e.timer # t
  BY <1>0, <1>2, EntryType DEF Batch, InSeq
<1>6. Armed'
  BY <1>0, <1>1, <1>4, <1>5 DEF Armed
<1>7. /\ \A e \in timerEventsMap' : ~InSeq(e.timer, timeoutQueue')
      /\ \A i, j \in DOMAIN timeoutQueue' : timeoutQueue'[i] = timeoutQueue'[j] => i = j
  <2>1. \A i \in DOMAIN timeoutQueue' : i \in Int
    BY <1>1, <1>2
  <2> QED BY <1>0, <1>1, <1>3, <2>1 DEF Batch, InSeq
<1>8. \A u \in Timers : InSeq(u, timeoutQueue') => u # t /\ working(u)'
  <2>1. \A i \in DOMAIN q : i # 1 => q[i] # t /\ q[i] \in Timers /\ working(q[i])
    BY <1>0, <1>2 DEF Batch
  <2> QED BY <1>3, <1>4, <2>1 DEF InSeq
<1>9. \A i \in DOMAIN timeoutQueue' : ~InSeq(timeoutQueue'[i], cycleQueue)
  BY <1>0, <1>3 DEF Batch
<1>10. \A u \in Timers : InSeq(u, cycleQueue) => u # t /\ working(u)'
  <2>1. \A i \in DOMAIN cycleQueue : cycleQueue[i] \in Timers /\ cycleQueue[i] # t
    BY <1>0, <1>2 DEF Batch, InSeq, TypeOK
  <2> QED BY <1>0, <1>4, <2>1 DEF Batch, InSeq
<1>11. \A i \in DOMAIN timeoutQueue' : timeoutQueue'[i] # t /\ working(timeoutQueue[i])'
  <2>1. \A i \in DOMAIN timeoutQueue' : timeoutQueue'[i] \in Timers /\ InSeq(timeoutQueue'[i], timeoutQueue')
    BY <1>2, <1>3 DEF InSeq
  <2> QED BY <1>8, <2>1 DEF working
<1>12. CASE ~isSingle[t] /\ working(t)
  <2>1. cycleQueue' = Append(cycleQueue, t) /\ isWorking' = isWorking
    BY <1>12 DEF AfterCallback
  <2>2. \A u \in Timers : u = t => working(u)'
    BY <1>1, <1>12, <2>1 DEF working
  <2>3. /\ cycleQueue \in Seq(Timers) /\ \A i \in DOMAIN cycleQueue : cycleQueue[i] \in Timers
    BY <1>0 DEF TypeOK
  <2>4. /\ DOMAIN cycleQueue' = 1 .. Len(cycleQueue) + 1
        /\ \A i \in DOMAIN cycleQueue' :
             cycleQueue'[i] = IF i \in DOMAIN cycleQueue THEN cycleQueue[i] ELSE t
        /\ DOMAIN cycleQueue = 1 .. Len(cycleQueue) /\ Len(cycleQueue) \in Nat
    BY <1>2, <2>1, <2>3
  <2>5. \A i, j \in DOMAIN cycleQueue' : cycleQueue'[i] = cycleQueue'[j] => i = j
    BY <1>0, <1>10, <2>3, <2>4 DEF Batch, InSeq
  <2>6. \A i \in DOMAIN cycleQueue' : working(cycleQueue[i])'
    <3>1. \A i \in DOMAIN cycleQueue' : cycleQueue'[i] \in Timers
      BY <1>2, <2>3, <2>4
    <3>2. \A i \in DOMAIN cycleQueue' : InSeq(cycleQueue'[i], cycleQueue) \/ cycleQueue'[i] = t
      BY <2>4 DEF InSeq
    <3> QED BY <1>10, <2>2, <3>1, <3>2 DEF working
  <2>7. \A i \in DOMAIN timeoutQueue' : ~InSeq(timeoutQueue'[i], cycleQueue')
    BY <1>9, <1>11, <2>4 DEF InSeq
  <2>8. \A e \in timerEventsMap' : ~InSeq(e.timer, cycleQueue')
    BY <1>0, <1>1, <1>5, <2>4 DEF InSeq, Batch
  <2> QED BY <1>1, <1>6, <1>7, <1>11, <2>5, <2>6, <2>7, <2>8 DEF Batch
<1>13. CASE ~(~isSingle[t] /\ working(t))
  <2>1. cycleQueue' = cycleQueue
    BY <1>13 DEF AfterCallback
  <2>2. \A i \in DOMAIN cycleQueue' : working(cycleQueue[i])'
    <3>1. \A i \in DOMAIN cycleQueue' : cycleQueue'[i] \in Timers /\ InSeq(cycleQueue'[i], cycleQueue)
      BY <1>0, <2>1 DEF TypeOK, InSeq
    <3> QED BY <1>10, <3>1 DEF working
  <2> QED BY <1>0, <1>1, <1>6, <1>7, <1>9, <1>11, <2>1, <2>2 DEF Batch
<1> QED BY <1>12, <1>13

\* The end of handleTimerEvent, where repeating timers are armed again.
LEMMA RecycleMap == ASSUME MapInv, Recycle PROVE Armed' /\ Batch'
<1>0. TypeOK /\ Armed /\ Batch
  BY DEF MapInv
<1>1. /\ timerEventsMap' = WithKept /\ phase' = "free"
      /\ timeoutQueue' = <<>> /\ cycleQueue' = <<>>
      /\ nextTimeout' = [t \in Timers |-> IF t \in Kept THEN interval[t] ELSE nextTimeout[t]]
      /\ UNCHANGED <<timerId, isWorking>>
  BY DEF Recycle, idVars
<1>2. \A t \in Kept : t \in Timers /\ working(t)
  BY <1>0 DEF Kept, Batch, TypeOK
<1>3. ASSUME NEW e \in timerEventsMap'
      PROVE  e.when = nextTimeout'[e.timer] /\ e.id = timerId'[e.timer] /\ working(e.timer)'
  <2>1. CASE e \in timerEventsMap
    <3>1. e.timer \in Timers /\ e.timer \notin Kept
      BY <1>0, <2>1, EntryType DEF Batch, Kept, InSeq
    <3> QED BY <1>0, <1>1, <2>1, <3>1 DEF Armed, working
  <2>2. ASSUME NEW t \in Kept, e = [when |-> interval[t], id |-> timerId[t], timer |-> t]
        PROVE  e.when = nextTimeout'[e.timer] /\ e.id = timerId'[e.timer] /\ working(e.timer)'
    BY <1>1, <1>2, <2>2 DEF working
  <2> QED BY <1>1, <2>1, <2>2, KeptMember
<1> QED BY <1>1, <1>3 DEF Armed, Batch, InSeq

\* The passing of time.
LEMMA TickMap == ASSUME MapInv, Tick PROVE Armed' /\ Batch'
<1>0. TypeOK /\ Armed /\ Batch
  BY DEF MapInv
<1>1. /\ \A e \in timerEventsMap : e.when > -MaxLag
      /\ nextTimeout' = [t \in Timers |->
           IF nextTimeout[t] < -MaxLag THEN nextTimeout[t] ELSE nextTimeout[t] - 1]
      /\ UNCHANGED <<timerId, isWorking, phase, timeoutQueue, cycleQueue>>
  BY DEF Tick, idVars, fireVars
<1>2. \A e \in timerEventsMap' :
        \E g \in timerEventsMap : e = [when |-> g.when - 1, id |-> g.id, timer |-> g.timer]
  BY <1>0, TickMember
<1>3. Armed'
  <2> SUFFICES ASSUME NEW e \in timerEventsMap'
               PROVE  e.when = nextTimeout'[e.timer] /\ e.id = timerId'[e.timer] /\ working(e.timer)'
    BY DEF Armed
  <2>1. PICK g \in timerEventsMap : e = [when |-> g.when - 1, id |-> g.id, timer |-> g.timer]
    BY <1>2
  <2>2. /\ g.timer \in Timers /\ g.when \in Int /\ g.when > -MaxLag /\ MaxLag \in Nat
        /\ g.when = nextTimeout[g.timer] /\ g.id = timerId[g.timer] /\ working(g.timer)
    BY <1>0, <1>1, EntryType, TimerAssumption DEF Armed
  <2>3. nextTimeout'[g.timer] = g.when - 1
    BY <1>1, <2>2
  <2> QED BY <1>1, <2>1, <2>2, <2>3 DEF working
<1>4. Batch'
  BY <1>0, <1>1, <1>2 DEF Batch, InSeq, working
<1> QED BY <1>3, <1>4

\* addTimer.
LEMMA AddTimerMap ==
  ASSUME MapInv, NEW t \in Timers, NEW iv, NEW s, AddTimer(t, iv, s)
  PROVE  Armed' /\ Batch'
<1>0. TypeOK /\ Armed /\ Batch
  BY DEF MapInv
<1>1. /\ Fresh(t) /\ UNCHANGED <<timerEventsMap, phase, timeoutQueue, cycleQueue>>
      /\ \A u \in Timers : u # t => /\ timerId'[u] = timerId[u] /\ isWorking'[u] = isWorking[u]
                                     /\ nextTimeout'[u] = nextTimeout[u]
  BY <1>0 DEF AddTimer, fireVars, TypeOK
<1>2. /\ \A e \in timerEventsMap : e.timer \in Timers /\ e.timer # t
      /\ \A i \in DOMAIN timeoutQueue : timeoutQueue[i] \in Timers /\ timeoutQueue[i] # t
      /\ \A i \in DOMAIN cycleQueue : cycleQueue[i] \in Timers /\ cycleQueue[i] # t
  BY <1>0, <1>1, EntryType DEF Fresh, TypeOK
<1>3. \A u \in Timers : u # t => (working(u)' <=> working(u))
  BY <1>1 DEF working
<1>4. Armed'
  BY <1>0, <1>1, <1>2, <1>3 DEF Armed
<1>5. Batch'
  BY <1>0, <1>1, <1>2, <1>3 DEF Batch, InSeq
<1> QED BY <1>4, <1>5

\* Every step keeps armed timers and entries in step.
LEMMA MapStep == OwnTimer /\ MapInv /\ [Next]_vars => MapInv'
<1> SUFFICES ASSUME OwnTimer, MapInv, [Next]_vars PROVE Armed' /\ Batch'
  BY TypeStep DEF MapInv
<1>0. TypeOK /\ Armed /\ Batch
  BY DEF MapInv
<1>1. CASE RunCall \/ \E t \in Timers, op \in Ops : LoopCall(t, op) \/ CallbackCall(t, op)
  BY <1>0, <1>1, CallCases, ApplyMap
<1>2. CASE Fire
  <2>1. /\ phase' = "callback" /\ timeoutQueue # <<>>
        /\ UNCHANGED <<timerId, isWorking, nextTimeout, timerEventsMap, timeoutQueue, cycleQueue>>
    BY <1>2 DEF Fire, timerVars, idVars
  <2> QED BY <1>0, <1>2, <2>1 DEF Fire, Armed, Batch, InSeq, working
<1>3. CASE UNCHANGED <<timerId, isWorking, nextTimeout, timerEventsMap, phase, timeoutQueue, cycleQueue>>
  BY <1>0, <1>3 DEF Armed, Batch, InSeq, working
<1>4. ASSUME NEW t \in Timers, NEW iv \in Intervals, NEW s \in BOOLEAN,
             AddTimer(t, iv, s) \/ Configure(t, iv, s)
      PROVE  Armed' /\ Batch'
  BY <1>3, <1>4, AddTimerMap DEF Configure, idVars, fireVars
<1>5. ASSUME NEW t \in Timers, NEW op \in Ops, ForeignCall(t, op) PROVE Armed' /\ Batch'
  BY <1>3, <1>5 DEF ForeignCall, timerVars, idVars, fireVars
<1>6. CASE UNCHANGED vars
  BY <1>3, <1>6 DEF vars, timerVars, idVars, fireVars
<1>7. CASE HandleTimerEvent \/ Tick
  BY <1>2, <1>7, CollectMap, AfterCallbackMap, RecycleMap, TickMap DEF HandleTimerEvent
<1> QED BY <1>1, <1>4, <1>5, <1>6, <1>7 DEF Next, UserStep

\* When callbacks of a batch touch only their own timers and do not start
\* them, stopTimer and releaseTimer find the entry they look for: the key that
\* a timer remembers is the key of its entry, however operations of the loop,
\* of callbacks and of foreign threads, expiries and the passing of time
\* follow one another.
THEOREM KeysAreCurrent == ASSUME OwnTimer PROVE Spec => []KeyIsCurrent
<1>1. MapInv => KeyIsCurrent
  BY DEF MapInv, Armed, KeyIsCurrent
<1>2. MapInv /\ [Next]_vars => MapInv'
  BY MapStep
<1> QED BY <1>1, <1>2, MapInit, PTL DEF Spec

\* Under the same discipline no timer that was stopped, or that is single and
\* has fired, is armed again by handleTimerEvent.
THEOREM StoppedStaysDisarmed == ASSUME OwnTimer PROVE Spec => []StoppedIsDisarmed
<1>1. MapInv => StoppedIsDisarmed
  BY DEF MapInv, Armed, StoppedIsDisarmed, working
<1>2. MapInv /\ [Next]_vars => MapInv'
  BY MapStep
<1> QED BY <1>1, <1>2, MapInit, PTL DEF Spec

=============================================================================
