------------------------- MODULE ObjectEventsProofs -------------------------
(***************************************************************************)
(* Proofs about ObjectEvents, for every tree of objects, every number of   *)
(* producers and events and every capacity.                                *)
(***************************************************************************)
EXTENDS ObjectEvents, TLAPS

\* Whoever goes on to an object's parent is not at the scheduler.
BelowRoot == /\ \A p \in Producers : pc[p] = "set" => tgt[p] # Root
             /\ stage[Root] # "push"

TypeInv == TypeOK /\ BelowRoot

USE DEF Children, Threads, Closures, Stages, LoopStates, Pcs

\* The queue an accepted closure leaves behind is a queue within its bound.
LEMMA AppendInBound ==
  ASSUME TypeOK, NEW o \in Objects, NEW c \in Closures, ~Full(o)
  PROVE  LET q == [queue EXCEPT ![o] = Append(@, c)]
         IN  /\ q \in [Objects -> Seq(Closures)]
             /\ \A x \in Objects : Len(q[x]) <= Capacity
<1> DEFINE q == [queue EXCEPT ![o] = Append(@, c)]
<1>0. queue \in [Objects -> Seq(Closures)] /\ Capacity \in Nat
  BY CallAssumption DEF TypeOK
<1>1. Append(queue[o], c) \in Seq(Closures) /\ Len(Append(queue[o], c)) = Len(queue[o]) + 1
  BY <1>0
<1>2. q \in [Objects -> Seq(Closures)]
  BY <1>0, <1>1
<1>3. ASSUME NEW x \in Objects PROVE Len(q[x]) <= Capacity
  <2>1. Len(queue[o]) < Capacity
    BY <1>0, Len(queue[o]) \in Nat DEF Full, TypeOK
  <2>2. CASE x = o BY <1>0, <1>1, <2>1, <2>2
  <2>3. CASE x # o BY <1>0, <2>3 DEF TypeOK
  <2> QED BY <2>2, <2>3
<1> QED BY <1>2, <1>3

\* pushExec keeps the types of the sets and flags it changes.
LEMMA PushExecType ==
  ASSUME TypeOK, NEW c \in Children, PushExec(c)
  PROVE  /\ execSub' \in [Objects -> SUBSET Children]
         /\ isTriggering' \in [Objects -> BOOLEAN]
<1>1. Climb(Parent[c]) \subseteq Children
  BY DEF Climb, Path
<1> QED BY <1>1 DEF PushExec, TypeOK

\* The types hold at the start.
LEMMA TypeInit == Init => TypeInv
<1> SUFFICES ASSUME Init PROVE TypeInv
  OBVIOUS
<1>1. <<>> \in Seq(Closures) /\ Len(<<>>) <= Capacity
  BY CallAssumption
<1>2. clo \in [Producers -> Closures]
  BY DEF Init
<1> QED BY <1>1, <1>2, TreeAssumption DEF Init, TypeInv, TypeOK, BelowRoot

\* Every step keeps the types.
LEMMA TypeStep == TypeInv /\ [Next]_vars => TypeInv'
<1> SUFFICES ASSUME TypeInv, [Next]_vars PROVE TypeInv'
  OBVIOUS
<1> USE DEF TypeInv
<1>a. CASE UNCHANGED vars
  BY <1>a DEF TypeOK, BelowRoot, vars, treeVars, loopVars, prodVars
<1>1. ASSUME NEW o \in Objects, SwapQueue(o) PROVE TypeInv'
  <2>1. <<>> \in Seq(Closures) /\ Len(<<>>) <= Capacity
    BY CallAssumption
  <2> QED BY <1>1, <2>1 DEF SwapQueue, Goto, TypeOK, BelowRoot, prodVars
<1>2. ASSUME NEW o \in Objects, RunClosure(o) PROVE TypeInv'
  <2> DEFINE x == Head(running[o])[1]
  <2>1. running[o] \in Seq(Closures) /\ running[o] # <<>>
    BY <1>2 DEF TypeOK, RunClosure
  <2>2. Head(running[o]) \in Closures /\ Tail(running[o]) \in Seq(Closures)
    BY <2>1
  <2>3. running' \in [Objects -> Seq(Closures)]
    BY <1>2, <2>2 DEF TypeOK, RunClosure
  <2>4. execSub' \in [Objects -> SUBSET Children] /\ isTriggering' \in [Objects -> BOOLEAN]
    <3>1. CASE x \in Children BY <1>2, <3>1, PushExecType DEF RunClosure
    <3>2. CASE x \notin Children BY <1>2, <3>2 DEF RunClosure, TypeOK
    <3> QED BY <3>1, <3>2
  <2>5. waiting' \in [Producers -> SUBSET (Events \cup Children)] /\ ran' \subseteq Events /\ pipe' \in BOOLEAN
    BY <1>2 DEF RunClosure, TypeOK
  <2> QED BY <1>2, <2>3, <2>4, <2>5 DEF RunClosure, TypeOK, BelowRoot
<1>3. ASSUME NEW o \in Objects, SwapChildren(o) PROVE TypeInv'
  BY <1>3 DEF SwapChildren, Goto, TypeOK, BelowRoot, prodVars
<1>4. ASSUME NEW o \in Objects, NEW c \in Children, VisitChild(o, c) PROVE TypeInv'
  BY <1>4 DEF VisitChild, Goto, TypeOK, BelowRoot, prodVars
<1>5. ASSUME NEW o \in Objects, ChildrenDone(o) PROVE TypeInv'
  BY <1>5 DEF ChildrenDone, Goto, TypeOK, BelowRoot, treeVars, prodVars
<1>6. ASSUME NEW o \in Objects, HandleTimerEvent(o) PROVE TypeInv'
  BY <1>6 DEF HandleTimerEvent, Goto, TypeOK, BelowRoot, prodVars
<1>7. ASSUME NEW o \in Objects, TailCheck(o) PROVE TypeInv'
  BY <1>7 DEF TailCheck, Goto, TypeOK, BelowRoot, treeVars, prodVars
<1>8. ASSUME NEW o \in Objects, TailPush(o) PROVE TypeInv'
  <2>1. o \in Children
    BY <1>8 DEF TailPush, At, BelowRoot
  <2>2. execSub' \in [Objects -> SUBSET Children] /\ isTriggering' \in [Objects -> BOOLEAN]
    BY <1>8, <2>1, PushExecType DEF TailPush
  <2>3. stage' \in [Objects -> Stages] /\ stage'[Root] # "push"
    BY <1>8, <2>1, TreeAssumption DEF TailPush, Goto, TypeOK, BelowRoot
  <2> QED BY <1>8, <2>2, <2>3 DEF TailPush, TypeOK, BelowRoot, prodVars
<1>9. ASSUME NEW o \in Objects, TailReset(o) PROVE TypeInv'
  BY <1>9 DEF TailReset, Goto, TypeOK, BelowRoot, prodVars
<1>10. CASE GetNextTimeOut
  BY <1>10 DEF GetNextTimeOut, TypeOK, BelowRoot, treeVars, prodVars
<1>11. CASE HandleNetworkEvent
  <2>1. queue' \in [Objects -> Seq(Closures)] /\ \A x \in Objects : Len(queue'[x]) <= Capacity
    <3>1. CASE pipe /\ ~Full(Root)
      <4>1. <<Drain, Loop>> \in Closures
        OBVIOUS
      <4>2. Root \in Objects
        BY TreeAssumption
      <4>3. queue' = [queue EXCEPT ![Root] = Append(@, <<Drain, Loop>>)]
        BY <1>11, <3>1 DEF HandleNetworkEvent
      <4> QED BY <3>1, <4>1, <4>2, <4>3, AppendInBound
    <3>2. CASE ~(pipe /\ ~Full(Root))
      BY <1>11, <3>2 DEF HandleNetworkEvent, TypeOK
    <3> QED BY <3>1, <3>2
  <2> QED BY <1>11, <2>1 DEF HandleNetworkEvent, TypeOK, BelowRoot, prodVars
<1>12. CASE NextRound
  BY <1>12, ZenonT(40) DEF NextRound, Goto, TypeOK, BelowRoot, treeVars, prodVars
<1>13. ASSUME NEW o \in Objects, NEW e \in Events, LoopAdd(o, e) PROVE TypeInv'
  <2>1. queue' \in [Objects -> Seq(Closures)] /\ \A x \in Objects : Len(queue'[x]) <= Capacity
    <3>1. <<e, Loop>> \in Closures
      OBVIOUS
    <3> QED BY <1>13, <3>1, AppendInBound DEF LoopAdd
  <2>2. execSub' \in [Objects -> SUBSET Children] /\ isTriggering' \in [Objects -> BOOLEAN]
    <3>1. CASE o # Root /\ ~isTriggering[o]
      <4>1. {o} \cup Climb(Parent[o]) \subseteq Children
        BY <3>1 DEF Climb, Path
      <4> DEFINE pushed == {o} \cup Climb(Parent[o])
      <4>2. /\ execSub' = [x \in Objects |-> execSub[x] \cup {y \in pushed : Parent[y] = x}]
            /\ isTriggering' = [x \in Objects |-> isTriggering[x] \/ x \in pushed]
        BY <1>13, <3>1 DEF LoopAdd
      <4> HIDE DEF pushed
      <4>3. pushed \subseteq Children
        BY <4>1 DEF pushed
      <4> QED BY <4>2, <4>3 DEF TypeOK
    <3>2. CASE ~(o # Root /\ ~isTriggering[o])
      BY <1>13, <3>2 DEF LoopAdd, TypeOK
    <3> QED BY <3>1, <3>2
  <2> QED BY <1>13, <2>1, <2>2 DEF LoopAdd, TypeOK, BelowRoot, prodVars
<1>14. ASSUME NEW o \in Objects, NEW e \in Events, LoopAddFull(o, e) PROVE TypeInv'
  BY <1>14 DEF LoopAddFull, TypeOK, BelowRoot, treeVars, loopVars, prodVars
<1>15. ASSUME NEW o \in Objects, StartTimer(o) PROVE TypeInv'
  BY <1>15 DEF StartTimer, TypeOK, BelowRoot, prodVars
<1>16. ASSUME NEW o \in Objects, StopTimer(o) PROVE TypeInv'
  BY <1>16 DEF StopTimer, TypeOK, BelowRoot, prodVars
<1>17. ASSUME NEW p \in Producers, NEW o \in Objects, NEW e \in Events, NEW kind,
              Call(p, o, e, kind)
       PROVE  TypeInv'
  BY <1>17 DEF Call, Step, TypeOK, BelowRoot, treeVars, loopVars
<1>18. ASSUME NEW p \in Producers, Enqueue(p) PROVE TypeInv'
  <2>1. queue' \in [Objects -> Seq(Closures)] /\ \A x \in Objects : Len(queue'[x]) <= Capacity
    <3>1. tgt[p] \in Objects /\ clo[p] \in Closures
      BY DEF TypeOK
    <3> QED BY <1>18, <3>1, AppendInBound DEF Enqueue
  <2> QED BY <1>18, <2>1 DEF Enqueue, TypeOK, BelowRoot, loopVars
<1>19. ASSUME NEW p \in Producers, Refused(p) PROVE TypeInv'
  BY <1>19 DEF Refused, Step, TypeOK, BelowRoot, treeVars, loopVars
<1>20. ASSUME NEW p \in Producers, RunInline(p) PROVE TypeInv'
  BY <1>20 DEF RunInline, Step, TypeOK, BelowRoot, treeVars, loopVars
<1>21. ASSUME NEW p \in Producers, PushInline(p) PROVE TypeInv'
  BY <1>21 DEF PushInline, Step, TypeOK, BelowRoot, loopVars
<1>22. ASSUME NEW p \in Producers, Active(p) PROVE TypeInv'
  BY <1>22 DEF Active, Step, TypeOK, BelowRoot, treeVars
<1>23. ASSUME NEW p \in Producers, CheckTriggering(p) PROVE TypeInv'
  BY <1>23 DEF CheckTriggering, Step, TypeOK, BelowRoot, treeVars, loopVars
<1>24. ASSUME NEW p \in Producers, SetTriggering(p) PROVE TypeInv'
  <2>1. tgt[p] \in Children /\ Parent[tgt[p]] \in Objects
    BY <1>24, TreeAssumption DEF SetTriggering, Step, BelowRoot, TypeOK
  <2> QED BY <1>24, <2>1 DEF SetTriggering, Step, TypeOK, BelowRoot, loopVars
<1>25. ASSUME NEW p \in Producers, Return(p) PROVE TypeInv'
  BY <1>25 DEF Return, Step, TypeOK, BelowRoot, treeVars, loopVars
<1> QED
  BY <1>a, <1>1, <1>2, <1>3, <1>4, <1>5, <1>6, <1>7, <1>8, <1>9, <1>10, <1>11, <1>12,
     <1>13, <1>14, <1>15, <1>16, <1>17, <1>18, <1>19, <1>20, <1>21, <1>22, <1>23,
     <1>24, <1>25, CallAssumption
  DEF Next, LoopStep, HandleEvent, UserCode, ProducerStep

\* Types, the bound of every queue included: no interleaving of the loop and
\* the producers takes a queue beyond the capacity of
\* TriggerEventQueueForObject.
THEOREM TypeCorrect == Spec => []TypeOK
<1>1. TypeInv => TypeOK
  BY DEF TypeInv
<1> QED BY <1>1, TypeInit, TypeStep, PTL DEF Spec
-----------------------------------------------------------------------------
(* Which first components a queue carries *)

\* pushEvent adds its closure to what the queue carries.
LEMMA CarriesAppend ==
  ASSUME NEW s \in Seq(Closures), NEW c \in Closures, NEW x
  PROVE  Carries(Append(s, c), x) <=> Carries(s, x) \/ c[1] = x
<1> DEFINE a == Append(s, c)
<1>1. /\ DOMAIN s = 1 .. Len(s) /\ Len(s) \in Nat
      /\ DOMAIN a = 1 .. Len(s) + 1 /\ a[Len(s) + 1] = c
      /\ \A i \in 1 .. Len(s) : a[i] = s[i]
  OBVIOUS
<1>2. \A i \in DOMAIN a : i \in DOMAIN s \/ i = Len(s) + 1
  BY <1>1
<1> QED BY <1>1, <1>2 DEF Carries

\* Taking the head takes one closure from what the queue carries.
LEMMA CarriesTail ==
  ASSUME NEW s \in Seq(Closures), s # <<>>, NEW x
  PROVE  Carries(s, x) <=> Carries(Tail(s), x) \/ Head(s)[1] = x
<1>1. /\ DOMAIN s = 1 .. Len(s) /\ Len(s) \in Nat \ {0}
      /\ DOMAIN Tail(s) = 1 .. Len(s) - 1 /\ Head(s) = s[1]
      /\ \A i \in 1 .. Len(s) - 1 : Tail(s)[i] = s[i + 1]
  OBVIOUS
<1>2. \A i \in DOMAIN s : i = 1 \/ (i - 1 \in DOMAIN Tail(s) /\ Tail(s)[i - 1] = s[i])
  BY <1>1
<1>3. \A i \in DOMAIN Tail(s) : i + 1 \in DOMAIN s /\ s[i + 1] = Tail(s)[i]
  BY <1>1
<1>4. 1 \in DOMAIN s /\ Head(s) = s[1]
  BY <1>1
<1>5. Carries(s, x) => Carries(Tail(s), x) \/ Head(s)[1] = x
  BY <1>2, <1>4 DEF Carries
<1>6. Carries(Tail(s), x) \/ Head(s)[1] = x => Carries(s, x)
  BY <1>3, <1>4 DEF Carries
<1> QED BY <1>5, <1>6

\* An empty queue carries nothing.
LEMMA CarriesEmpty == ASSUME NEW x PROVE ~Carries(<<>>, x)
  BY DEF Carries

-----------------------------------------------------------------------------
(* isTriggering means scheduled *)

\* A child is only ever put into its own parent's queue or sets.
InPlace ==
  /\ \A o \in Objects, c \in Children :
        Carries(queue[o], c) \/ Carries(running[o], c) \/ c \in execSub[o] \cup todo[o]
           => Parent[c] = o
  /\ \A p \in Producers : clo[p][1] \in Children => Parent[clo[p][1]] = tgt[p]

\* The locals of handleEvent are empty outside the stage that uses them.
VisitShape ==
  /\ \A o \in Objects : stage[o] # "children" => todo[o] = {}
  /\ \A o \in Objects : stage[o] # "run" => running[o] = <<>>
  /\ loop # "handle" => stage[Root] = "idle"

SchedInv == InPlace /\ VisitShape /\ TriggeringMeansScheduled

\* At the start no object is triggering.
LEMMA SchedInit == Init => SchedInv
<1> SUFFICES ASSUME Init PROVE SchedInv
  OBVIOUS
<1>1. InPlace
  BY CarriesEmpty, NamesAssumption DEF Init, InPlace
<1> QED BY <1>1 DEF Init, SchedInv, VisitShape, TriggeringMeansScheduled
\* Steps that only change a producer's position, away from "add", the pipe, the
\* timers or the bookkeeping of events disturb nothing.
LEMMA SchedFrame ==
  ASSUME SchedInv, UNCHANGED <<queue, running, execSub, todo, isTriggering, stage, tgt, clo>>,
         loop # "handle" \/ UNCHANGED loop, loop' # "handle" \/ UNCHANGED loop,
         \A p \in Producers : pc[p] = "add" /\ clo[p][1] \in Children => pc'[p] = "add"
  PROVE  SchedInv'
  BY DEF SchedInv, InPlace, VisitShape, TriggeringMeansScheduled, Scheduled

\* pushExec on the loop's thread puts every object it flags into its parent.
LEMMA PushExecSched ==
  ASSUME TypeOK, NEW c \in Children, PushExec(c)
  PROVE  /\ \A o \in Objects : execSub[o] \subseteq execSub'[o]
         /\ \A o \in Objects : \A x \in execSub'[o] \ execSub[o] : Parent[x] = o
         /\ c \in execSub'[Parent[c]]
         /\ \A o \in Children : isTriggering'[o] => isTriggering[o] \/ o \in execSub'[Parent[o]]
  BY TreeAssumption DEF PushExec, TypeOK

\* Every step keeps a triggering child scheduled with its parent.
LEMMA SchedStep == TypeInv /\ SchedInv /\ [Next]_vars => SchedInv'
<1> SUFFICES ASSUME TypeInv, SchedInv, [Next]_vars PROVE SchedInv'
  OBVIOUS
<1> USE DEF TypeInv
<1>0. \A c \in Children : Parent[c] \in Objects
  BY TreeAssumption
<1>a. CASE UNCHANGED vars
  BY <1>a, SchedFrame DEF vars, treeVars, loopVars, prodVars
<1>1. ASSUME NEW o \in Objects, SwapQueue(o) PROVE SchedInv'
  <2>1. stage[o] = "swap" /\ running[o] = <<>> /\ o \in Objects
    BY <1>1 DEF SwapQueue, At, SchedInv, VisitShape
  <2>2. InPlace'
    BY <1>1, CarriesEmpty DEF SwapQueue, SchedInv, InPlace, TypeOK, prodVars
  <2>3. VisitShape'
    BY <1>1, <2>1 DEF SwapQueue, Goto, SchedInv, VisitShape, TypeOK
  <2>4. TriggeringMeansScheduled'
    <3> SUFFICES ASSUME NEW c \in Children, isTriggering[c], Scheduled(c) PROVE Scheduled(c)'
      BY <1>1 DEF SwapQueue, SchedInv, TriggeringMeansScheduled
    <3>1. Carries(queue[Parent[c]], c) \/ Carries(running[Parent[c]], c)
            => Carries(queue'[Parent[c]], c) \/ Carries(running'[Parent[c]], c)
      BY <1>1, <1>0, <2>1, CarriesEmpty DEF SwapQueue, TypeOK
    <3>2. stage[c] # "idle" => stage'[c] # "idle"
      BY <1>1 DEF SwapQueue, Goto, TypeOK
    <3> QED BY <1>1, <3>1, <3>2 DEF SwapQueue, Scheduled, prodVars
  <2> QED BY <2>2, <2>3, <2>4 DEF SchedInv
<1>2. ASSUME NEW o \in Objects, RunClosure(o) PROVE SchedInv'
  <2> DEFINE x == Head(running[o])[1]
  <2>1. /\ running[o] \in Seq(Closures) /\ running[o] # <<>> /\ stage[o] = "run"
        /\ running' = [running EXCEPT ![o] = Tail(@)]
        /\ UNCHANGED <<queue, todo, stage, loop, pc, tgt, clo>>
    BY <1>2 DEF RunClosure, At, TypeOK
  <2>2. \A c \in Children : Carries(running[o], c) <=> Carries(running'[o], c) \/ x = c
    <3>1. running'[o] = Tail(running[o])
      BY <2>1 DEF TypeOK
    <3> QED BY <2>1, <3>1, CarriesTail
  <2>3. \A z \in Objects : z # o => running'[z] = running[z]
    BY <2>1 DEF TypeOK
  <2>4. /\ \A z \in Objects : execSub[z] \subseteq execSub'[z]
        /\ \A z \in Objects : \A y \in execSub'[z] \ execSub[z] : Parent[y] = z
        /\ x \in Children => x \in execSub'[Parent[x]]
        /\ \A z \in Children : isTriggering'[z] => isTriggering[z] \/ z \in execSub'[Parent[z]]
    <3>1. CASE x \in Children
      BY <1>2, <3>1, PushExecSched DEF RunClosure
    <3>2. CASE x \notin Children
      BY <1>2, <3>2 DEF RunClosure
    <3> QED BY <3>1, <3>2
  <2> HIDE DEF x
  <2>5. InPlace'
    BY <2>1, <2>2, <2>3, <2>4 DEF SchedInv, InPlace
  <2>6. VisitShape'
    BY <2>1, <2>3 DEF SchedInv, VisitShape
  <2>7. TriggeringMeansScheduled'
    <3> SUFFICES ASSUME NEW c \in Children, isTriggering[c], Scheduled(c) PROVE Scheduled(c)'
      BY <2>4 DEF SchedInv, TriggeringMeansScheduled, Scheduled
    <3>1. Carries(running[Parent[c]], c) => Carries(running'[Parent[c]], c) \/ c \in execSub'[Parent[c]]
      BY <1>0, <2>2, <2>3, <2>4
    <3> QED BY <1>0, <2>1, <2>4, <3>1 DEF Scheduled
  <2> QED BY <2>5, <2>6, <2>7 DEF SchedInv
<1>3. ASSUME NEW o \in Objects, SwapChildren(o) PROVE SchedInv'
  <2>1. stage[o] = "run" /\ running[o] = <<>> /\ todo[o] = {}
    BY <1>3 DEF SwapChildren, At, SchedInv, VisitShape
  <2>2. InPlace'
    BY <1>3 DEF SwapChildren, SchedInv, InPlace, TypeOK, prodVars
  <2>3. VisitShape'
    BY <1>3, <2>1 DEF SwapChildren, Goto, SchedInv, VisitShape, TypeOK
  <2>4. TriggeringMeansScheduled'
    <3> SUFFICES ASSUME NEW c \in Children, isTriggering[c], Scheduled(c) PROVE Scheduled(c)'
      BY <1>3 DEF SwapChildren, SchedInv, TriggeringMeansScheduled
    <3>1. execSub[Parent[c]] \cup todo[Parent[c]] \subseteq execSub'[Parent[c]] \cup todo'[Parent[c]]
      BY <1>3, <1>0, <2>1 DEF SwapChildren, TypeOK
    <3>2. stage[c] # "idle" => stage'[c] # "idle"
      BY <1>3 DEF SwapChildren, Goto, TypeOK
    <3> QED BY <1>3, <3>1, <3>2 DEF SwapChildren, Scheduled, prodVars
  <2> QED BY <2>2, <2>3, <2>4 DEF SchedInv
<1>4. ASSUME NEW o \in Objects, NEW c \in Children, VisitChild(o, c) PROVE SchedInv'
  <2>1. stage[o] = "children" /\ Parent[c] = o /\ stage[c] = "idle" /\ c # Root
    BY <1>4 DEF VisitChild, At, SchedInv, InPlace
  <2>2. running[c] = <<>> /\ todo[c] = {} /\ c # o
    BY <2>1 DEF SchedInv, VisitShape
  <2>3. InPlace'
    BY <1>4 DEF VisitChild, SchedInv, InPlace, TypeOK, prodVars
  <2>4. VisitShape'
    BY <1>4, <2>1, <2>2 DEF VisitChild, Goto, SchedInv, VisitShape, TypeOK
  <2>5. TriggeringMeansScheduled'
    <3> SUFFICES ASSUME NEW d \in Children, isTriggering[d], Scheduled(d) PROVE Scheduled(d)'
      BY <1>4 DEF VisitChild, SchedInv, TriggeringMeansScheduled
    <3>1. stage[d] # "idle" \/ d = c => stage'[d] # "idle"
      BY <1>4 DEF VisitChild, Goto, TypeOK
    <3>2. d # c /\ d \in todo[Parent[d]] => d \in todo'[Parent[d]]
      BY <1>4, <1>0 DEF VisitChild, TypeOK
    <3> QED BY <1>4, <3>1, <3>2 DEF VisitChild, Scheduled, prodVars
  <2> QED BY <2>3, <2>4, <2>5 DEF SchedInv
\* The visit goes on to another stage, which is neither "run" nor "children".
<1>5. ASSUME NEW o \in Objects, NEW s \in Stages \ {"idle", "run", "children"}, Goto(o, s),
             stage[o] \notin {"idle", "run"}, todo[o] = {}, running[o] = <<>>,
             UNCHANGED <<queue, running, execSub, todo, isTriggering, loop, prodVars>>
      PROVE  SchedInv'
  <2>1. stage' = [stage EXCEPT ![o] = s] /\ \A c \in Objects : stage[c] # "idle" => stage'[c] # "idle"
    BY <1>5 DEF Goto, TypeOK
  <2>2. InPlace'
    BY <1>5 DEF SchedInv, InPlace, prodVars
  <2>3. VisitShape'
    BY <1>5, <2>1, TreeAssumption DEF SchedInv, VisitShape, TypeOK
  <2>4. TriggeringMeansScheduled'
    BY <1>5, <2>1 DEF SchedInv, TriggeringMeansScheduled, Scheduled, prodVars
  <2> QED BY <2>2, <2>3, <2>4 DEF SchedInv
<1>6. ASSUME NEW o \in Objects, ChildrenDone(o) \/ HandleTimerEvent(o) \/ TailCheck(o)
      PROVE  SchedInv'
  <2>1. /\ stage[o] \in {"children", "timers", "tail"}
        /\ UNCHANGED <<queue, running, execSub, todo, isTriggering, loop, prodVars>>
        /\ todo[o] = {}
    BY <1>6 DEF ChildrenDone, HandleTimerEvent, TailCheck, At, treeVars, SchedInv, VisitShape
  <2>2. running[o] = <<>>
    BY <2>1 DEF SchedInv, VisitShape
  <2>3. Goto(o, "timers") \/ Goto(o, "tail") \/ Goto(o, "push") \/ Goto(o, "reset")
    BY <1>6 DEF ChildrenDone, HandleTimerEvent, TailCheck
  <2> QED BY <1>5, <2>1, <2>2, <2>3
<1>7. ASSUME NEW o \in Objects, TailPush(o) PROVE SchedInv'
  <2>1. stage[o] = "push" /\ o \in Children /\ todo[o] = {} /\ running[o] = <<>>
    BY <1>7 DEF TailPush, At, BelowRoot, SchedInv, VisitShape
  <2>2. /\ \A z \in Objects : execSub[z] \subseteq execSub'[z]
        /\ \A z \in Objects : \A y \in execSub'[z] \ execSub[z] : Parent[y] = z
        /\ o \in execSub'[Parent[o]]
        /\ \A z \in Children : isTriggering'[z] => isTriggering[z] \/ z \in execSub'[Parent[z]]
    BY <1>7, <2>1, PushExecSched DEF TailPush
  <2>3. /\ UNCHANGED <<queue, running, todo, loop, pc, clo, tgt>>
        /\ stage' = [stage EXCEPT ![o] = "idle"]
    BY <1>7 DEF TailPush, Goto, prodVars
  <2>4. InPlace'
    BY <2>2, <2>3 DEF SchedInv, InPlace
  <2>5. VisitShape'
    BY <2>1, <2>3, TreeAssumption DEF SchedInv, VisitShape, TypeOK
  <2>6. TriggeringMeansScheduled'
    <3> SUFFICES ASSUME NEW c \in Children, isTriggering[c], Scheduled(c) PROVE Scheduled(c)'
      BY <2>2 DEF SchedInv, TriggeringMeansScheduled, Scheduled
    <3>1. stage[c] # "idle" => stage'[c] # "idle" \/ c = o
      BY <2>3 DEF TypeOK
    <3> QED BY <1>0, <2>2, <2>3, <3>1 DEF Scheduled
  <2> QED BY <2>4, <2>5, <2>6 DEF SchedInv
<1>8. ASSUME NEW o \in Objects, TailReset(o) PROVE SchedInv'
  <2>1. stage[o] = "reset" /\ todo[o] = {} /\ running[o] = <<>>
    BY <1>8 DEF TailReset, At, SchedInv, VisitShape
  <2>2. /\ UNCHANGED <<queue, running, execSub, todo, pc, clo, tgt>>
        /\ stage' = [stage EXCEPT ![o] = "idle"]
        /\ isTriggering' = [isTriggering EXCEPT ![o] = FALSE]
        /\ loop' = IF o = Root THEN "timeout" ELSE loop
    BY <1>8 DEF TailReset, Goto, prodVars
  <2>3. InPlace'
    BY <2>2 DEF SchedInv, InPlace
  <2>4. VisitShape'
    BY <2>1, <2>2, TreeAssumption DEF SchedInv, VisitShape, TypeOK
  <2>5. TriggeringMeansScheduled'
    <3> SUFFICES ASSUME NEW c \in Children, c # o, isTriggering[c], Scheduled(c) PROVE Scheduled(c)'
      BY <2>2 DEF SchedInv, TriggeringMeansScheduled, TypeOK
    <3>1. stage'[c] = stage[c]
      BY <2>2 DEF TypeOK
    <3> QED BY <2>2, <3>1 DEF Scheduled
  <2> QED BY <2>3, <2>4, <2>5 DEF SchedInv
<1>9. CASE GetNextTimeOut
  BY <1>9, SchedFrame DEF GetNextTimeOut, treeVars, prodVars
\* A closure is appended to some queue; the flags only grow with the sets.
<1>10. ASSUME NEW o \in Objects, NEW c \in Closures,
              queue' = [queue EXCEPT ![o] = Append(@, c)],
              c[1] \in Children => Parent[c[1]] = o,
              UNCHANGED <<running, todo, stage, tgt, clo>>,
              (loop = "handle" /\ loop' = loop) \/ (loop # "handle" /\ loop' # "handle"),
              \A p \in Producers : pc[p] = "add" => pc'[p] = "add" \/ clo[p][1] = c[1],
              \A z \in Objects : execSub[z] \subseteq execSub'[z],
              \A z \in Objects : \A y \in execSub'[z] \ execSub[z] : Parent[y] = z,
              \A z \in Children : isTriggering'[z] => isTriggering[z] \/ z \in execSub'[Parent[z]]
       PROVE  SchedInv'
  <2>1. \A z \in Objects, x \in Children :
           Carries(queue'[z], x) <=> Carries(queue[z], x) \/ (z = o /\ c[1] = x)
    <3> SUFFICES ASSUME NEW z \in Objects, NEW x \in Children
                 PROVE  Carries(queue'[z], x) <=> Carries(queue[z], x) \/ (z = o /\ c[1] = x)
      OBVIOUS
    <3>1. CASE z = o
      <4>1. queue[o] \in Seq(Closures) /\ queue'[o] = Append(queue[o], c)
        BY <1>10 DEF TypeOK
      <4>2. Carries(Append(queue[o], c), x) <=> Carries(queue[o], x) \/ c[1] = x
        BY <4>1, CarriesAppend
      <4> QED BY <3>1, <4>1, <4>2
    <3>2. CASE z # o
      BY <1>10, <3>2 DEF TypeOK
    <3> QED BY <3>1, <3>2
  <2>2. InPlace'
    BY <1>10, <2>1 DEF SchedInv, InPlace
  <2>3. VisitShape'
    BY <1>10 DEF SchedInv, VisitShape
  <2>4. TriggeringMeansScheduled'
    <3> SUFFICES ASSUME NEW x \in Children, isTriggering[x], Scheduled(x) PROVE Scheduled(x)'
      BY <1>10 DEF SchedInv, TriggeringMeansScheduled, Scheduled
    <3>1. ASSUME NEW p \in Producers, pc[p] = "add", clo[p][1] = x
          PROVE  pc'[p] = "add" \/ Carries(queue'[Parent[x]], x)
      BY <1>10, <1>0, <2>1, <3>1
    <3> QED BY <1>10, <1>0, <2>1, <3>1 DEF Scheduled
  <2> QED BY <2>2, <2>3, <2>4 DEF SchedInv
<1>11. CASE HandleNetworkEvent
  <2>1. CASE pipe /\ ~Full(Root)
    <3>1. Root \in Objects /\ <<Drain, Loop>> \in Closures /\ Drain \notin Children
      BY TreeAssumption, NamesAssumption
    <3>2. queue' = [queue EXCEPT ![Root] = Append(@, <<Drain, Loop>>)]
      BY <1>11, <2>1 DEF HandleNetworkEvent
    <3>3. /\ UNCHANGED <<running, execSub, todo, isTriggering, stage, tgt, clo, pc>>
          /\ loop # "handle" /\ loop' # "handle"
      BY <1>11 DEF HandleNetworkEvent, prodVars
    <3> QED BY <1>10, <3>1, <3>2, <3>3
  <2>2. CASE ~(pipe /\ ~Full(Root))
    BY <1>11, <2>2, SchedFrame DEF HandleNetworkEvent, prodVars
  <2> QED BY <2>1, <2>2
<1>12. CASE NextRound
  <2>1. /\ stage[Root] = "idle" /\ stage' = [stage EXCEPT ![Root] = "swap"] /\ loop' = "handle"
        /\ UNCHANGED <<queue, running, execSub, todo, isTriggering, pc, clo, tgt>>
    BY <1>12 DEF NextRound, Goto, treeVars, prodVars, SchedInv, VisitShape
  <2>2. InPlace'
    BY <2>1 DEF SchedInv, InPlace
  <2>3. VisitShape'
    BY <2>1, TreeAssumption DEF SchedInv, VisitShape, TypeOK
  <2>4. TriggeringMeansScheduled'
    <3>1. \A c \in Children : stage'[c] = stage[c]
      BY <2>1 DEF TypeOK
    <3> QED BY <2>1, <3>1 DEF SchedInv, TriggeringMeansScheduled, Scheduled
  <2> QED BY <2>2, <2>3, <2>4 DEF SchedInv
<1>13. ASSUME NEW o \in Objects, NEW e \in Events, LoopAdd(o, e) PROVE SchedInv'
  <2>1. <<e, Loop>> \in Closures /\ e \notin Children
    BY NamesAssumption
  <2>2. /\ queue' = [queue EXCEPT ![o] = Append(@, <<e, Loop>>)]
        /\ UNCHANGED <<running, todo, stage, loop, pc, tgt, clo>>
    BY <1>13 DEF LoopAdd, prodVars
  <2>3. /\ \A z \in Objects : execSub[z] \subseteq execSub'[z]
        /\ \A z \in Objects : \A y \in execSub'[z] \ execSub[z] : Parent[y] = z
        /\ \A z \in Children : isTriggering'[z] => isTriggering[z] \/ z \in execSub'[Parent[z]]
    <3>1. CASE o # Root /\ ~isTriggering[o]
      <4> DEFINE pushed == {o} \cup Climb(Parent[o])
      <4>1. /\ execSub' = [x \in Objects |-> execSub[x] \cup {y \in pushed : Parent[y] = x}]
            /\ isTriggering' = [x \in Objects |-> isTriggering[x] \/ x \in pushed]
        BY <1>13, <3>1 DEF LoopAdd
      <4> HIDE DEF pushed
      <4> QED BY <1>0, <4>1 DEF TypeOK
    <3>2. CASE ~(o # Root /\ ~isTriggering[o])
      BY <1>13, <3>2 DEF LoopAdd
    <3> QED BY <3>1, <3>2
  <2>4. (loop = "handle" /\ loop' = loop) \/ (loop # "handle" /\ loop' # "handle")
    BY <2>2
  <2> QED BY <1>10, <2>1, <2>2, <2>3, <2>4
<1>14. ASSUME NEW o \in Objects,
              StartTimer(o) \/ StopTimer(o) \/ \E e \in Events : LoopAddFull(o, e)
       PROVE  SchedInv'
  BY <1>14, SchedFrame DEF LoopAddFull, StartTimer, StopTimer, treeVars, loopVars, prodVars
<1>15. ASSUME NEW p \in Producers, NEW o \in Objects, NEW e \in Events, NEW kind,
              Call(p, o, e, kind)
       PROVE  SchedInv'
  <2>1. /\ pc[p] = "idle" /\ clo' = [clo EXCEPT ![p] = <<e, p>>] /\ tgt' = [tgt EXCEPT ![p] = o]
        /\ \A q \in Producers : q # p => pc'[q] = pc[q]
        /\ UNCHANGED <<queue, running, execSub, todo, isTriggering, stage, loop>>
    BY <1>15 DEF Call, Step, treeVars, loopVars, TypeOK
  <2>2. e \notin Children /\ \A q \in Producers : q # p => clo'[q] = clo[q] /\ tgt'[q] = tgt[q]
    BY <2>1, NamesAssumption DEF TypeOK
  <2>3. clo'[p][1] = e
    BY <2>1 DEF TypeOK
  <2>4. InPlace'
    BY <2>1, <2>2, <2>3 DEF SchedInv, InPlace
  <2>5. TriggeringMeansScheduled'
    BY <2>1, <2>2 DEF SchedInv, TriggeringMeansScheduled, Scheduled
  <2> QED BY <2>1, <2>4, <2>5 DEF SchedInv, VisitShape
<1>16. ASSUME NEW p \in Producers, Enqueue(p) PROVE SchedInv'
  <2>1. tgt[p] \in Objects /\ clo[p] \in Closures
    BY DEF TypeOK
  <2>2. /\ queue' = [queue EXCEPT ![tgt[p]] = Append(@, clo[p])]
        /\ UNCHANGED <<running, execSub, todo, isTriggering, stage, loop, tgt, clo>>
        /\ \A q \in Producers : q # p => pc'[q] = pc[q]
    BY <1>16 DEF Enqueue, loopVars, TypeOK
  <2>3. clo[p][1] \in Children => Parent[clo[p][1]] = tgt[p]
    BY DEF SchedInv, InPlace
  <2>4. \A q \in Producers : pc[q] = "add" => pc'[q] = "add" \/ clo[q][1] = clo[p][1]
    BY <2>2
  <2>5. (loop = "handle" /\ loop' = loop) \/ (loop # "handle" /\ loop' # "handle")
    BY <2>2
  <2> QED BY <1>10, <2>1, <2>2, <2>3, <2>4, <2>5
<1>17. ASSUME NEW p \in Producers,
              Refused(p) \/ RunInline(p) \/ Active(p) \/ CheckTriggering(p) \/ Return(p)
       PROVE  SchedInv'
  <2>1. UNCHANGED <<queue, running, execSub, todo, isTriggering, stage, tgt, clo, loop>>
    BY <1>17 DEF Refused, RunInline, Active, CheckTriggering, Return, treeVars, loopVars
  <2>2. \A q \in Producers : pc[q] = "add" /\ clo[q][1] \in Children => pc'[q] = "add"
    BY <1>17, NamesAssumption
    DEF Refused, RunInline, Active, CheckTriggering, Return, Step, TypeOK
  <2> QED BY <2>1, <2>2, SchedFrame
<1>18. ASSUME NEW p \in Producers, PushInline(p) PROVE SchedInv'
  <2>1. /\ clo[p][1] \in Children /\ Parent[clo[p][1]] = tgt[p] /\ tgt[p] \in Objects
        /\ execSub' = [execSub EXCEPT ![tgt[p]] = @ \cup {clo[p][1]}]
        /\ UNCHANGED <<queue, running, todo, isTriggering, stage, loop, tgt, clo>>
        /\ \A q \in Producers : q # p => pc'[q] = pc[q]
    BY <1>18 DEF PushInline, Step, loopVars, TypeOK, SchedInv, InPlace
  <2>2. \A z \in Objects : execSub[z] \subseteq execSub'[z]
    BY <2>1 DEF TypeOK
  <2>3. \A z \in Objects : \A y \in execSub'[z] \ execSub[z] : Parent[y] = z
    BY <2>1 DEF TypeOK
  <2>4. clo[p][1] \in execSub'[Parent[clo[p][1]]]
    BY <2>1 DEF TypeOK
  <2>5. InPlace'
    BY <2>1, <2>3 DEF SchedInv, InPlace
  <2>6. TriggeringMeansScheduled'
    BY <1>0, <2>1, <2>2, <2>4 DEF SchedInv, TriggeringMeansScheduled, Scheduled
  <2> QED BY <2>1, <2>5, <2>6 DEF SchedInv, VisitShape
<1>19. ASSUME NEW p \in Producers, SetTriggering(p) PROVE SchedInv'
  <2>1. /\ tgt[p] \in Children /\ pc[p] = "set" /\ pc' = [pc EXCEPT ![p] = "add"]
        /\ isTriggering' = [isTriggering EXCEPT ![tgt[p]] = TRUE]
        /\ tgt' = [tgt EXCEPT ![p] = Parent[tgt[p]]]
        /\ clo' = [clo EXCEPT ![p] = <<tgt[p], p>>]
        /\ UNCHANGED <<queue, running, execSub, todo, stage, loop>>
    BY <1>19 DEF SetTriggering, Step, BelowRoot, TypeOK, loopVars
  <2>2. /\ pc'[p] = "add" /\ clo'[p][1] = tgt[p] /\ tgt'[p] = Parent[tgt[p]]
        /\ \A q \in Producers : q # p => pc'[q] = pc[q] /\ clo'[q] = clo[q] /\ tgt'[q] = tgt[q]
    BY <2>1 DEF TypeOK
  <2>3. \A c \in Children : isTriggering'[c] => isTriggering[c] \/ c = tgt[p]
    BY <2>1 DEF TypeOK
  <2>4. InPlace'
    BY <2>1, <2>2 DEF SchedInv, InPlace
  <2>5. TriggeringMeansScheduled'
    BY <2>1, <2>2, <2>3 DEF SchedInv, TriggeringMeansScheduled, Scheduled
  <2> QED BY <2>1, <2>4, <2>5 DEF SchedInv, VisitShape
<1> QED
  BY <1>a, <1>1, <1>2, <1>3, <1>4, <1>6, <1>7, <1>8, <1>9, <1>11, <1>12, <1>13, <1>14,
     <1>15, <1>16, <1>17, <1>18, <1>19, CallAssumption
  DEF Next, LoopStep, HandleEvent, UserCode, ProducerStep

\* isTriggering never outlives the visit it announces, whatever the tree and
\* however the threads interleave: an event that was left behind (InvokeReturns
\* shows how) is picked up by the next addTriggerEvent on its object.
THEOREM TriggeringScheduled == Spec => []TriggeringMeansScheduled
<1>1. TypeInv /\ SchedInv => TriggeringMeansScheduled
  BY DEF SchedInv
<1> QED BY <1>1, TypeInit, TypeStep, SchedInit, SchedStep, PTL DEF Spec
-----------------------------------------------------------------------------
(* The queue and execQueue together are one FIFO *)

Pending == [o \in Objects |-> running[o] \o queue[o]]

HeldBy(e) == \E o \in Objects : Carries(running[o], e) \/ Carries(queue[o], e)

\* p is about to give a user event to a queue.
Giving(p) == pc[p] \in {"post", "add"} /\ clo[p][1] \in Events

\* A user event is with nobody, with the one thread that gives it to a queue,
\* in a queue, or has run: in the first two cases it is nowhere else.
Once ==
  /\ \A e \in unused : e \notin ran /\ ~HeldBy(e)
  /\ \A p \in Producers : Giving(p) =>
        clo[p][1] \notin unused \cup ran /\ ~HeldBy(clo[p][1])
  /\ \A p, q \in Producers : Giving(p) /\ Giving(q) /\ clo[p][1] = clo[q][1] => p = q

\* Two queues together carry what either of them carries.
LEMMA ConcatParts ==
  ASSUME NEW r \in Seq(Closures), NEW q \in Seq(Closures)
  PROVE  /\ r \o q \in Seq(Closures)
         /\ \A x : Carries(r \o q, x) <=> Carries(r, x) \/ Carries(q, x)
<1>1. /\ DOMAIN (r \o q) = 1 .. Len(r) + Len(q) /\ Len(r) \in Nat /\ Len(q) \in Nat
      /\ DOMAIN r = 1 .. Len(r) /\ DOMAIN q = 1 .. Len(q)
      /\ \A i \in 1 .. Len(r) + Len(q) : (r \o q)[i] = IF i <= Len(r) THEN r[i] ELSE q[i - Len(r)]
  OBVIOUS
<1>2. ASSUME NEW x, Carries(r \o q, x) PROVE Carries(r, x) \/ Carries(q, x)
  <2>1. PICK i \in DOMAIN (r \o q) : (r \o q)[i][1] = x
    BY <1>2 DEF Carries
  <2>2. CASE i <= Len(r)
    <3>1. i \in DOMAIN r /\ r[i][1] = x
      BY <1>1, <2>1, <2>2
    <3> QED BY <3>1 DEF Carries
  <2>3. CASE ~(i <= Len(r))
    <3>1. i - Len(r) \in DOMAIN q /\ q[i - Len(r)][1] = x
      BY <1>1, <2>1, <2>3
    <3> QED BY <3>1 DEF Carries
  <2> QED BY <2>2, <2>3
<1>3. ASSUME NEW x, Carries(r, x) PROVE Carries(r \o q, x)
  <2>1. PICK i \in DOMAIN r : r[i][1] = x
    BY <1>3 DEF Carries
  <2>2. i \in DOMAIN (r \o q) /\ (r \o q)[i][1] = x
    BY <1>1, <2>1
  <2> QED BY <2>2 DEF Carries
<1>4. ASSUME NEW x, Carries(q, x) PROVE Carries(r \o q, x)
  <2>1. PICK i \in DOMAIN q : q[i][1] = x
    BY <1>4 DEF Carries
  <2>2. i + Len(r) \in DOMAIN (r \o q) /\ (r \o q)[i + Len(r)][1] = x
    BY <1>1, <2>1
  <2> QED BY <2>2 DEF Carries
<1>5. r \o q \in Seq(Closures)
  OBVIOUS
<1> QED BY <1>2, <1>3, <1>4, <1>5

\* Appending to the second of two queues appends to both together.
LEMMA ConcatAppend ==
  ASSUME NEW r \in Seq(Closures), NEW q \in Seq(Closures), NEW c \in Closures
  PROVE  r \o Append(q, c) = Append(r \o q, c)
<1>1. Append(q, c) = q \o <<c>> /\ Append(r \o q, c) = (r \o q) \o <<c>>
  OBVIOUS
<1> QED BY <1>1

\* Taking the head of the first of two queues takes the head of both together.
LEMMA ConcatTail ==
  ASSUME NEW r \in Seq(Closures), NEW q \in Seq(Closures), r # <<>>
  PROVE  /\ r \o q # <<>> /\ Head(r \o q) = Head(r)
         /\ Tail(r) \o q = Tail(r \o q)
  OBVIOUS

\* The queues start empty.
LEMMA FifoInit == Init => Fifo!Init
  BY DEF Init, Fifo!Init

\* At the start every event is unused.
LEMMA OnceInit == Init => Once
  BY CarriesEmpty DEF Init, Once, HeldBy, Giving

\* An event is held in the abstract queue when the swapped or the new queue
\* holds it.
LEMMA HeldIsHeld == ASSUME TypeOK, NEW x PROVE Fifo!Held(x) <=> HeldBy(x)
<1>1. \A o \in Objects : running[o] \in Seq(Closures) /\ queue[o] \in Seq(Closures)
  BY DEF TypeOK
<1>2. \A o \in Objects : Carries(Pending[o], x) <=> Carries(running[o], x) \/ Carries(queue[o], x)
  BY <1>1, ConcatParts DEF Pending
<1> QED BY <1>2 DEF Fifo!Held, HeldBy, Carries, Pending

\* A closure is appended to a queue: the abstract queue accepts it.
LEMMA Accepting ==
  ASSUME TypeOK, NEW o \in Objects, NEW c \in Closures,
         queue' = [queue EXCEPT ![o] = Append(@, c)], UNCHANGED <<running, ran>>,
         c[1] \in Events => c[1] \notin ran /\ ~HeldBy(c[1])
  PROVE  Fifo!Next /\ \A x : HeldBy(x)' => HeldBy(x) \/ x = c[1]
<1>1. /\ running[o] \in Seq(Closures) /\ queue[o] \in Seq(Closures)
      /\ queue'[o] = Append(queue[o], c) /\ \A z \in Objects : z # o => queue'[z] = queue[z]
  BY DEF TypeOK
<1>2. Pending' = [Pending EXCEPT ![o] = Append(@, c)]
  <2>1. running[o] \o Append(queue[o], c) = Append(running[o] \o queue[o], c)
    BY <1>1, ConcatAppend
  <2>2. \A z \in Objects : running'[z] \o queue'[z] =
          IF z = o THEN Append(running[o] \o queue[o], c) ELSE running[z] \o queue[z]
    <3>1. running' = running
      OBVIOUS
    <3>2. running'[o] \o queue'[o] = Append(running[o] \o queue[o], c)
      BY <1>1, <2>1, <3>1, Zenon
    <3>3. \A z \in Objects : z # o => running'[z] \o queue'[z] = running[z] \o queue[z]
      BY <1>1, <3>1, Zenon
    <3> QED BY <3>2, <3>3, Zenon
  <2> QED BY <2>2, Zenon DEF Pending
<1>3. Fifo!Accept(o, c)
  BY <1>2, HeldIsHeld DEF Fifo!Accept, Pending
<1>4. ASSUME NEW x, HeldBy(x)' PROVE HeldBy(x) \/ x = c[1]
  <2>1. PICK z \in Objects : Carries(running'[z], x) \/ Carries(queue'[z], x)
    BY <1>4 DEF HeldBy
  <2>2. CASE z # o
    BY <1>1, <2>1, <2>2 DEF HeldBy
  <2>3. CASE z = o
    <3>1. Carries(Append(queue[o], c), x) <=> Carries(queue[o], x) \/ c[1] = x
      BY <1>1, CarriesAppend
    <3> QED BY <1>1, <2>1, <2>3, <3>1 DEF HeldBy
  <2> QED BY <2>2, <2>3
<1> QED BY <1>3, <1>4 DEF Fifo!Next

\* Steps that leave the queues and the events alone.
LEMMA FifoFrame ==
  ASSUME Once, UNCHANGED <<queue, running, ran, unused>>,
         \A p \in Producers : Giving(p)' => Giving(p) /\ clo'[p] = clo[p]
  PROVE  Once' /\ UNCHANGED Fifo!fifoVars
<1>1. \A x : HeldBy(x)' <=> HeldBy(x)
  BY DEF HeldBy
<1>2. UNCHANGED Fifo!fifoVars
  BY DEF Fifo!fifoVars
<1>3. \A p \in Producers : Giving(p)' => clo'[p][1] = clo[p][1]
  OBVIOUS
<1>4. Once'
  BY <1>1, <1>3 DEF Once
<1> QED BY <1>2, <1>4

\* Every step is a step of the abstract queue, and keeps an event in one place.
LEMMA FifoStep ==
  TypeInv /\ SchedInv /\ Once /\ [Next]_vars => Once' /\ [Fifo!Next]_(Fifo!fifoVars)
<1> SUFFICES ASSUME TypeInv, SchedInv, Once, [Next]_vars
             PROVE  Once' /\ [Fifo!Next]_(Fifo!fifoVars)
  OBVIOUS
<1> USE DEF TypeInv
<1>a. CASE UNCHANGED <<queue, running, ran, unused, pc, clo>>
  BY <1>a, FifoFrame DEF Giving
<1>1. ASSUME NEW o \in Objects, SwapQueue(o) PROVE Once' /\ UNCHANGED Fifo!fifoVars
  <2>1. /\ running[o] = <<>> /\ queue[o] \in Seq(Closures)
        /\ running' = [running EXCEPT ![o] = queue[o]] /\ queue' = [queue EXCEPT ![o] = <<>>]
        /\ UNCHANGED <<ran, unused, pc, clo>>
    BY <1>1 DEF SwapQueue, At, SchedInv, VisitShape, TypeOK, prodVars
  <2>2. Pending' = Pending
    <3>1. queue[o] \o <<>> = <<>> \o queue[o]
      BY <2>1
    <3> QED BY <2>1, <3>1 DEF Pending, TypeOK
  <2>3. \A x : HeldBy(x)' => HeldBy(x)
    BY <2>1, CarriesEmpty DEF HeldBy, TypeOK
  <2>4. Once'
    BY <2>1, <2>3 DEF Once, Giving
  <2> QED BY <2>1, <2>2, <2>4 DEF Fifo!fifoVars, Pending
<1>2. ASSUME NEW o \in Objects, RunClosure(o) PROVE Once' /\ Fifo!Next
  <2> DEFINE x == Head(running[o])[1]
  <2>1. /\ running[o] \in Seq(Closures) /\ running[o] # <<>> /\ queue[o] \in Seq(Closures)
        /\ running' = [running EXCEPT ![o] = Tail(@)] /\ ran' = ran \cup ({x} \cap Events)
        /\ UNCHANGED <<queue, unused, pc, clo>>
    BY <1>2 DEF RunClosure, TypeOK
  <2>2. \A y : Carries(running[o], y) <=> Carries(Tail(running[o]), y) \/ x = y
    BY <2>1, CarriesTail
  <2>3. HeldBy(x) /\ \A y : HeldBy(y)' => HeldBy(y)
    BY <2>1, <2>2 DEF HeldBy, TypeOK
  <2>4. Once'
    BY <2>1, <2>3 DEF Once, Giving
  <2>5. /\ Pending[o] # <<>> /\ Head(Pending[o]) = Head(running[o])
        /\ Pending' = [Pending EXCEPT ![o] = Tail(@)]
    <3>1. /\ running[o] \o queue[o] # <<>> /\ Head(running[o] \o queue[o]) = Head(running[o])
          /\ Tail(running[o]) \o queue[o] = Tail(running[o] \o queue[o])
      BY <2>1, ConcatTail
    <3> QED BY <2>1, <3>1 DEF Pending, TypeOK
  <2>6. Fifo!RunOldest(o)
    BY <2>1, <2>5 DEF Fifo!RunOldest, Pending
  <2> QED BY <2>4, <2>6 DEF Fifo!Next
\* A closure of the loop or of a producer is accepted.
<1>3. ASSUME NEW o \in Objects, NEW c \in Closures,
             queue' = [queue EXCEPT ![o] = Append(@, c)], UNCHANGED <<running, ran, clo>>,
             c[1] \in Events => c[1] \notin ran \cup unused' /\ ~HeldBy(c[1]),
             unused' \subseteq unused,
             \A p \in Producers : Giving(p)' => Giving(p) /\ clo[p][1] # c[1]
      PROVE  Once' /\ [Fifo!Next]_(Fifo!fifoVars)
  <2>1. Fifo!Next /\ \A x : HeldBy(x)' => HeldBy(x) \/ x = c[1]
    BY <1>3, Accepting
  <2>2. \A e \in unused' : e \notin ran' /\ ~HeldBy(e)'
    BY <1>3, <2>1 DEF Once, TypeOK
  <2>3. \A p \in Producers : Giving(p)' => /\ clo[p][1] \notin unused' \cup ran'
                                          /\ ~HeldBy(clo[p][1])'
    BY <1>3, <2>1 DEF Once, Giving
  <2>4. Once'
    BY <1>3, <2>2, <2>3 DEF Once
  <2> QED BY <2>1, <2>4
<1>4. CASE HandleNetworkEvent
  <2>1. UNCHANGED <<running, ran, unused, pc, clo>>
    BY <1>4 DEF HandleNetworkEvent, prodVars
  <2>2. CASE pipe /\ ~Full(Root)
    <3>1. Root \in Objects /\ <<Drain, Loop>> \in Closures /\ Drain \notin Events
      BY TreeAssumption, NamesAssumption
    <3>2. queue' = [queue EXCEPT ![Root] = Append(@, <<Drain, Loop>>)]
      BY <1>4, <2>2 DEF HandleNetworkEvent
    <3>3. \A p \in Producers : Giving(p)' => Giving(p) /\ clo[p][1] # Drain
      BY <2>1, <3>1 DEF Giving
    <3> QED BY <1>3, <2>1, <3>1, <3>2, <3>3
  <2>3. CASE ~(pipe /\ ~Full(Root))
    BY <1>4, <1>a, <2>1, <2>3 DEF HandleNetworkEvent
  <2> QED BY <2>2, <2>3
<1>5. ASSUME NEW o \in Objects, NEW e \in Events, LoopAdd(o, e)
      PROVE  Once' /\ [Fifo!Next]_(Fifo!fifoVars)
  <2>1. /\ queue' = [queue EXCEPT ![o] = Append(@, <<e, Loop>>)] /\ e \in unused
        /\ unused' = unused \ {e} /\ UNCHANGED <<running, ran, pc, clo>>
    BY <1>5 DEF LoopAdd, prodVars
  <2>2. <<e, Loop>> \in Closures
    OBVIOUS
  <2>3. e \notin ran /\ ~HeldBy(e)
    BY <2>1 DEF Once
  <2>4. \A p \in Producers : Giving(p)' => Giving(p) /\ clo[p][1] # e
    BY <2>1 DEF Once, Giving
  <2> QED BY <1>3, <2>1, <2>2, <2>3, <2>4
\* An event is run at once.
<1>6. ASSUME NEW e \in Events, ran' = ran \cup {e}, UNCHANGED <<queue, running, clo>>,
             unused' \subseteq unused \ {e}, e \notin ran /\ ~HeldBy(e),
             \A p \in Producers : Giving(p)' => Giving(p) /\ clo[p][1] # e
      PROVE  Once' /\ [Fifo!Next]_(Fifo!fifoVars)
  <2>1. \A x : HeldBy(x)' <=> HeldBy(x)
    BY <1>6 DEF HeldBy
  <2>2. Once'
    BY <1>6, <2>1 DEF Once, Giving
  <2>3. Fifo!RunAtOnce(e)
    BY <1>6, HeldIsHeld DEF Fifo!RunAtOnce
  <2> QED BY <2>2, <2>3 DEF Fifo!Next
<1>7. ASSUME NEW o \in Objects, NEW e \in Events, LoopAddFull(o, e)
      PROVE  Once' /\ [Fifo!Next]_(Fifo!fifoVars)
  <2>1. /\ e \in unused /\ unused' = unused \ {e} /\ UNCHANGED <<queue, running, pc, clo>>
        /\ ran' = ran \/ ran' = ran \cup {e}
    BY <1>7 DEF LoopAddFull, treeVars, prodVars
  <2>2. e \notin ran /\ ~HeldBy(e)
    BY <2>1 DEF Once
  <2>3. \A p \in Producers : Giving(p)' => Giving(p) /\ clo[p][1] # e
    BY <2>1 DEF Once, Giving
  <2>4. CASE ran' = ran
    <3>1. \A x : HeldBy(x)' <=> HeldBy(x)
      BY <2>1 DEF HeldBy
    <3>2. Once'
      BY <2>1, <2>4, <3>1 DEF Once, Giving
    <3> QED BY <2>1, <2>4, <3>2 DEF Fifo!fifoVars
  <2> QED BY <1>6, <2>1, <2>2, <2>3, <2>4
<1>8. ASSUME NEW p \in Producers, NEW o \in Objects, NEW e \in Events, NEW kind,
             Call(p, o, e, kind)
      PROVE  Once' /\ [Fifo!Next]_(Fifo!fifoVars)
  <2>1. /\ pc[p] = "idle" /\ e \in unused /\ unused' = unused \ {e}
        /\ clo' = [clo EXCEPT ![p] = <<e, p>>] /\ UNCHANGED <<queue, running, ran>>
        /\ \A q \in Producers : q # p => pc'[q] = pc[q]
    BY <1>8 DEF Call, Step, treeVars, TypeOK
  <2>2. clo'[p][1] = e /\ \A q \in Producers : q # p => clo'[q] = clo[q]
    BY <2>1 DEF TypeOK
  <2>3. \A q \in Producers : q # p => (Giving(q)' <=> Giving(q))
    BY <2>1, <2>2 DEF Giving
  <2>4. \A q \in Producers : q # p /\ Giving(q) => clo[q][1] # e
    BY <2>1 DEF Once
  <2>5. e \notin ran /\ ~HeldBy(e) /\ \A x : HeldBy(x)' <=> HeldBy(x)
    BY <2>1 DEF Once, HeldBy
  <2>6. \A q \in Producers : Giving(q)' => /\ clo'[q][1] \notin unused' \cup ran'
                                          /\ ~HeldBy(clo'[q][1])
    BY <2>1, <2>2, <2>3, <2>5 DEF Once
  <2>7. Once'
    BY <2>1, <2>2, <2>3, <2>4, <2>5, <2>6 DEF Once
  <2> QED BY <2>1, <2>7 DEF Fifo!fifoVars
<1>9. ASSUME NEW p \in Producers, Enqueue(p) PROVE Once' /\ [Fifo!Next]_(Fifo!fifoVars)
  <2>1. /\ tgt[p] \in Objects /\ clo[p] \in Closures /\ pc[p] \in {"post", "add"}
        /\ pc' = [pc EXCEPT ![p] = "active"]
        /\ queue' = [queue EXCEPT ![tgt[p]] = Append(@, clo[p])]
        /\ UNCHANGED <<running, ran, unused, clo>>
    BY <1>9 DEF Enqueue, TypeOK
  <2>2. clo[p][1] \in Events => clo[p][1] \notin ran \cup unused /\ ~HeldBy(clo[p][1])
    BY <2>1 DEF Once, Giving
  <2>3. \A q \in Producers : Giving(q)' => Giving(q) /\ clo[q][1] # clo[p][1]
    <3>1. pc'[p] = "active" /\ \A q \in Producers : q # p => pc'[q] = pc[q]
      BY <2>1 DEF TypeOK
    <3> QED BY <2>1, <3>1 DEF Once, Giving
  <2> QED BY <1>3, <2>1, <2>2, <2>3
<1>10. ASSUME NEW p \in Producers, RunInline(p) PROVE Once' /\ [Fifo!Next]_(Fifo!fifoVars)
  <2>1. /\ pc[p] = "add" /\ pc' = [pc EXCEPT ![p] = "wait"] /\ clo[p][1] \in Events
        /\ ran' = ran \cup {clo[p][1]} /\ UNCHANGED <<queue, running, clo, unused>>
    BY <1>10 DEF RunInline, Step, treeVars
  <2>2. clo[p][1] \notin ran \cup unused /\ ~HeldBy(clo[p][1])
    BY <2>1 DEF Once, Giving
  <2>3. \A q \in Producers : Giving(q)' => Giving(q) /\ clo[q][1] # clo[p][1]
    <3>1. pc'[p] = "wait" /\ \A q \in Producers : q # p => pc'[q] = pc[q]
      BY <2>1 DEF TypeOK
    <3> QED BY <2>1, <3>1 DEF Once, Giving
  <2> QED BY <1>6, <2>1, <2>2, <2>3
<1>11. ASSUME NEW p \in Producers,
              \/ Refused(p) \/ PushInline(p) \/ Active(p) \/ CheckTriggering(p)
              \/ SetTriggering(p) \/ Return(p)
       PROVE  Once' /\ UNCHANGED Fifo!fifoVars
  <2>1. /\ UNCHANGED <<queue, running, ran, unused>>
        /\ \A q \in Producers : q # p => pc'[q] = pc[q] /\ clo'[q] = clo[q]
    BY <1>11 DEF Refused, PushInline, Active, CheckTriggering, SetTriggering, Return, Step, treeVars, TypeOK
  <2>2. ~Giving(p)'
    <3>1. CASE SetTriggering(p)
      <4>1. clo'[p][1] = tgt[p] /\ tgt[p] \notin Events
        BY <3>1, NamesAssumption DEF SetTriggering, TypeOK
      <4> QED BY <4>1 DEF Giving
    <3>2. CASE ~SetTriggering(p)
      BY <1>11, <3>2 DEF Refused, PushInline, Active, CheckTriggering, Return, Step, TypeOK, Giving
    <3> QED BY <3>1, <3>2
  <2>3. \A q \in Producers : Giving(q)' => Giving(q) /\ clo'[q] = clo[q]
    BY <2>1, <2>2 DEF Giving
  <2> QED BY <2>1, <2>3, FifoFrame
<1>12. CASE \/ GetNextTimeOut \/ NextRound
            \/ \E o \in Objects :
                 \/ SwapChildren(o) \/ ChildrenDone(o) \/ HandleTimerEvent(o)
                 \/ TailCheck(o) \/ TailPush(o) \/ TailReset(o) \/ StartTimer(o) \/ StopTimer(o)
                 \/ \E c \in Children : VisitChild(o, c)
  BY <1>12, <1>a DEF GetNextTimeOut, NextRound, SwapChildren, ChildrenDone, HandleTimerEvent, TailCheck,
     TailPush, TailReset, StartTimer, StopTimer, VisitChild, treeVars, prodVars
<1>13. CASE UNCHANGED vars
  BY <1>13, <1>a DEF vars, treeVars, prodVars
<1> QED
  BY <1>1, <1>2, <1>4, <1>5, <1>7, <1>8, <1>9, <1>10, <1>11, <1>12, <1>13, CallAssumption
  DEF Next, LoopStep, HandleEvent, UserCode, ProducerStep

\* For every tree, every number of threads and every capacity: what an object
\* has accepted runs in the order of acceptance, each user event once, over
\* the swap of the queue by the loop, calls from callbacks, and closures that
\* a full queue leaves to the calling thread.
THEOREM QueueIsFifo == Spec => ImplementsFifo
<1>1. Init => TypeInv /\ SchedInv /\ Once /\ Fifo!Init
  BY TypeInit, SchedInit, OnceInit, FifoInit
<1>2. TypeInv /\ SchedInv /\ Once /\ [Next]_vars
        => (TypeInv /\ SchedInv /\ Once)' /\ [Fifo!Next]_(Fifo!fifoVars)
  BY TypeStep, SchedStep, FifoStep
<1> QED BY <1>1, <1>2, PTL DEF Spec, ImplementsFifo, Fifo!Spec
-----------------------------------------------------------------------------
(* The loop does not sleep over work it can see *)

\* The callers' objects are the scheduler and its direct children, whose
\* active() reaches the wakeup pipe.
NearTargets == \A o \in Targets : WakesLoop(o)

\* handleEvent of an object is called by handleChildEvent of its parent, and
\* outside the scheduler's handleEvent none is.
Nested ==
  /\ \A c \in Children : stage[c] # "idle" => stage[Parent[c]] = "children"
  /\ loop # "handle" => \A o \in Objects : stage[o] = "idle"

Near == \A p \in Producers :
          WakesLoop(tgt[p]) /\ (clo[p][1] \in Children => Parent[clo[p][1]] = Root)

\* The loop sleeps over work; somebody is about to wake it.
Overslept == loop = "sleep" /\ \E o \in Visible : queue[o] # <<>>
Woken == pipe \/ \E p \in Producers : pc[p] = "active"

SleepInv == Nested /\ Near /\ (Overslept => Woken)

\* No object is its own parent.
LEMMA NotOwnParent == \A c \in Children : Parent[c] \in Objects /\ Parent[c] # c
<1> SUFFICES ASSUME NEW c \in Children PROVE Parent[c] \in Objects /\ Parent[c] # c
  OBVIOUS
<1>1. {c} \in SUBSET Children /\ {c} # {}
  OBVIOUS
<1>2. \E o \in {c} : Parent[o] \notin {c}
  BY <1>1, TreeAssumption
<1> QED BY <1>2, TreeAssumption

\* When the scheduler is not in handleChildEvent, no other handleEvent runs.
LEMMA OnlyRoot ==
  ASSUME TypeOK, Nested, stage[Root] # "children", NEW c \in Children
  PROVE  stage[c] = "idle"
<1> DEFINE S == {d \in Children : stage[d] # "idle"}
<1> SUFFICES ASSUME S # {} PROVE FALSE
  OBVIOUS
<1>1. PICK d \in S : Parent[d] \notin S
  BY TreeAssumption
<1>2. stage[Parent[d]] = "children" /\ Parent[d] \in Objects
  BY <1>1, TreeAssumption DEF Nested
<1> QED BY <1>1, <1>2

\* The scheduler sees its own queue.
LEMMA RootVisible == Root \in Visible
<1>1. \A x \in Path(Root) : x = Root
  <2> SUFFICES ASSUME NEW x \in Path(Root) PROVE x = Root
    OBVIOUS
  <2>1. {Root} \in SUBSET Objects /\ Root \in {Root} /\ \A y \in {Root} \ {Root} : Parent[y] \in {Root}
    BY TreeAssumption
  <2>2. x \in {Root}
    BY <2>1 DEF Path
  <2> QED BY <2>2
<1> QED BY <1>1, TreeAssumption DEF Visible

\* A step of the handleEvent that is innermost.
LEMMA StageStep ==
  ASSUME TypeOK, Nested, NEW o \in Objects, NEW s, At(o, stage[o]), stage[o] # "idle",
         Goto(o, s), UNCHANGED loop, s # "idle" \/ o # Root
  PROVE  Nested' /\ loop = "handle"
<1>1. loop = "handle"
  BY DEF Nested
<1>2. \A z \in Objects : z # o => stage'[z] = stage[z]
  BY DEF Goto, TypeOK
<1>3. ASSUME NEW c \in Children, stage'[c] # "idle" PROVE stage'[Parent[c]] = "children"
  <2>1. stage[c] # "idle"
    BY <1>2, <1>3
  <2>2. stage[Parent[c]] = "children" /\ Parent[c] # o /\ Parent[c] \in Objects
    BY <2>1, NotOwnParent DEF Nested, At
  <2> QED BY <1>2, <2>2
<1> QED BY <1>1, <1>3 DEF Nested

\* The loop does not start asleep.
LEMMA SleepInit == Init => SleepInv
<1> SUFFICES ASSUME Init PROVE SleepInv
  OBVIOUS
<1> QED BY TreeAssumption, NamesAssumption DEF Init, SleepInv, Nested, Near, Overslept, WakesLoop

\* Whoever fills a queue the sleeping loop can see is about to write to the pipe.
LEMMA SleepStep ==
  ASSUME NearTargets
  PROVE  TypeInv /\ SchedInv /\ SleepInv /\ [Next]_vars => SleepInv'
<1> SUFFICES ASSUME TypeInv, SchedInv, SleepInv, [Next]_vars PROVE SleepInv'
  OBVIOUS
<1> USE DEF TypeInv
<1>0. Nested /\ Near /\ (Overslept => Woken)
  BY DEF SleepInv
<1>1. UNCHANGED <<loop, stage>> => Nested'
  BY <1>0 DEF Nested
<1>2. UNCHANGED <<tgt, clo>> => Near'
  BY <1>0 DEF Near, WakesLoop
<1>3. UNCHANGED execSub => Visible' = Visible
  BY DEF Visible, Path
\* A visit goes on: the loop does not sleep.
<1>4. ASSUME NEW o \in Objects, NEW s, At(o, stage[o]), stage[o] # "idle", Goto(o, s),
             UNCHANGED loop, s # "idle" \/ o # Root, UNCHANGED <<tgt, clo>>
      PROVE  SleepInv'
  <2>1. Nested' /\ loop = "handle"
    BY <1>0, <1>4, StageStep
  <2> QED BY <1>2, <1>4, <2>1 DEF SleepInv, Overslept
<1>5. ASSUME NEW o \in Objects,
             \/ SwapQueue(o) \/ SwapChildren(o) \/ ChildrenDone(o) \/ HandleTimerEvent(o)
             \/ TailCheck(o) \/ TailPush(o) \/ (o # Root /\ TailReset(o))
      PROVE  SleepInv'
  <2>1. At(o, stage[o]) /\ stage[o] # "idle" /\ UNCHANGED <<loop, tgt, clo>>
    BY <1>5 DEF SwapQueue, SwapChildren, ChildrenDone, HandleTimerEvent, TailCheck, TailPush, TailReset,
                At, prodVars
  <2>2. \E s : Goto(o, s) /\ (s # "idle" \/ o # Root)
    <3>1. stage[Root] # "push"
      BY DEF BelowRoot
    <3> QED BY <1>5, <3>1 DEF SwapQueue, SwapChildren, ChildrenDone, HandleTimerEvent, TailCheck, TailPush,
                              TailReset, At
  <2> QED BY <1>4, <2>1, <2>2
<1>6. CASE TailReset(Root)
  <2>1. /\ stage[Root] = "reset" /\ loop' = "timeout" /\ stage' = [stage EXCEPT ![Root] = "idle"]
        /\ UNCHANGED <<tgt, clo>> /\ Root \in Objects
    BY <1>6, TreeAssumption DEF TailReset, At, Goto, prodVars
  <2>2. \A c \in Children : stage[c] = "idle"
    BY <1>0, <2>1, OnlyRoot
  <2>3. \A o \in Objects : stage'[o] = "idle"
    BY <2>1, <2>2 DEF TypeOK
  <2> QED BY <1>2, <2>1, <2>3 DEF SleepInv, Nested, Overslept
<1>7. ASSUME NEW o \in Objects, RunClosure(o) PROVE SleepInv'
  <2>1. stage[o] = "run" /\ UNCHANGED <<loop, stage, tgt, clo>>
    BY <1>7 DEF RunClosure, At
  <2>2. loop = "handle"
    BY <1>0, <2>1 DEF Nested
  <2> QED BY <1>1, <1>2, <2>1, <2>2 DEF SleepInv, Overslept
<1>8. ASSUME NEW o \in Objects, NEW c \in Children, VisitChild(o, c) PROVE SleepInv'
  <2>1. /\ stage[o] = "children" /\ Parent[c] = o /\ stage[c] = "idle"
        /\ stage' = [stage EXCEPT ![c] = "swap"] /\ UNCHANGED <<loop, tgt, clo>>
    BY <1>8 DEF VisitChild, At, Goto, prodVars, SchedInv, InPlace
  <2>2. loop = "handle"
    BY <1>0, <2>1 DEF Nested
  <2>3. \A z \in Objects : z # c => stage'[z] = stage[z]
    BY <2>1 DEF TypeOK
  <2>4. ASSUME NEW d \in Children, stage'[d] # "idle" PROVE stage'[Parent[d]] = "children"
    <3>1. Parent[d] \in Objects /\ Parent[d] # d
      BY NotOwnParent
    <3>2. stage[Parent[d]] = "children"
      BY <1>0, <2>1, <2>3, <2>4 DEF Nested
    <3> QED BY <2>1, <2>3, <3>1, <3>2
  <2> QED BY <1>2, <2>1, <2>2, <2>4 DEF SleepInv, Nested, Overslept
<1>9. CASE GetNextTimeOut \/ HandleNetworkEvent
  <2>1. /\ loop \in {"timeout", "poll", "sleep"} /\ loop' \in {"poll", "sleep", "io"}
        /\ UNCHANGED <<stage, tgt, clo>>
    BY <1>9 DEF GetNextTimeOut, HandleNetworkEvent, prodVars
  <2>2. ~Overslept'
    <3>1. CASE GetNextTimeOut
      <4>1. UNCHANGED <<execSub, queue>> /\ (loop' = "sleep" => \A o \in Visible : queue[o] = <<>>)
        BY <3>1 DEF GetNextTimeOut, treeVars
      <4> QED BY <1>3, <4>1 DEF Overslept
    <3>2. CASE HandleNetworkEvent
      BY <3>2 DEF HandleNetworkEvent, Overslept
    <3> QED BY <1>9, <3>1, <3>2
  <2> QED BY <1>0, <1>2, <2>1, <2>2 DEF SleepInv, Nested
<1>10. CASE NextRound
  <2>1. /\ loop = "io" /\ loop' = "handle" /\ stage' = [stage EXCEPT ![Root] = "swap"]
        /\ UNCHANGED <<tgt, clo>>
    BY <1>10 DEF NextRound, Goto, prodVars
  <2>2. \A c \in Children : stage'[c] = "idle"
    BY <1>0, <2>1 DEF Nested, TypeOK
  <2> QED BY <1>2, <2>1, <2>2 DEF SleepInv, Nested, Overslept
<1>11. CASE UserCode
  <2>1. UNCHANGED <<loop, stage, tgt, clo>>
    BY <1>11 DEF UserCode, LoopAdd, LoopAddFull, StartTimer, StopTimer, loopVars, prodVars
  <2>2. InUserCode
    BY <1>11 DEF UserCode, LoopAdd, LoopAddFull, StartTimer, StopTimer
  <2>3. loop # "sleep"
    BY <1>0, <2>2 DEF InUserCode, At, Nested, TypeOK
  <2> QED BY <1>1, <1>2, <2>1, <2>3 DEF SleepInv, Overslept
\* A producer: it keeps the loop asleep only with somebody to wake it.
<1>12. ASSUME NEW p \in Producers, NEW o \in Targets, NEW e \in Events, NEW kind, Call(p, o, e, kind)
       PROVE  SleepInv'
  <2>1. /\ UNCHANGED <<loop, stage, queue, execSub, pipe>> /\ tgt' = [tgt EXCEPT ![p] = o]
        /\ clo' = [clo EXCEPT ![p] = <<e, p>>]
        /\ pc[p] = "idle" /\ \A q \in Producers : q # p => pc'[q] = pc[q]
    BY <1>12 DEF Call, Step, treeVars, loopVars, TypeOK
  <2>2. Near'
    <3>1. \A q \in Producers : \/ q = p /\ tgt'[q] = o /\ clo'[q][1] = e
                               \/ tgt'[q] = tgt[q] /\ clo'[q] = clo[q]
      BY <2>1 DEF TypeOK
    <3> QED BY <1>0, <3>1, NamesAssumption DEF Near, NearTargets, WakesLoop
  <2>3. Overslept' => Overslept
    BY <1>3, <2>1 DEF Overslept
  <2>4. Woken => Woken'
    BY <2>1 DEF Woken
  <2> QED BY <1>0, <1>1, <2>1, <2>2, <2>3, <2>4 DEF SleepInv
<1>13. ASSUME NEW p \in Producers, Enqueue(p) PROVE SleepInv'
  <2>1. UNCHANGED <<loop, stage, tgt, clo>> /\ pc'[p] = "active"
    BY <1>13 DEF Enqueue, loopVars, TypeOK
  <2> QED BY <1>1, <1>2, <2>1 DEF SleepInv, Woken
<1>14. ASSUME NEW p \in Producers, Active(p) PROVE SleepInv'
  <2>1. UNCHANGED <<loop, stage, tgt, clo>> /\ pipe' = (pipe \/ WakesLoop(tgt[p]))
    BY <1>14 DEF Active
  <2>2. pipe'
    BY <1>0, <2>1 DEF Near
  <2> QED BY <1>1, <1>2, <2>1, <2>2 DEF SleepInv, Woken
<1>15. ASSUME NEW p \in Producers, PushInline(p) PROVE SleepInv'
  <2>1. /\ UNCHANGED <<loop, stage, tgt, clo, queue, pipe>> /\ Full(tgt[p]) /\ clo[p][1] \in Children
        /\ pc[p] = "add" /\ \A q \in Producers : q # p => pc'[q] = pc[q]
    BY <1>15 DEF PushInline, Step, loopVars, TypeOK
  <2>2. tgt[p] = Root
    BY <1>0, <2>1 DEF Near, SchedInv, InPlace
  <2>3. Root \in Visible /\ queue[Root] # <<>>
    BY <2>1, <2>2, RootVisible, CallAssumption DEF Full
  <2>4. loop = "sleep" => Woken
    BY <1>0, <2>3 DEF Overslept
  <2>5. Woken => Woken'
    BY <2>1 DEF Woken
  <2> QED BY <1>1, <1>2, <2>1, <2>4, <2>5 DEF SleepInv, Overslept
<1>16. ASSUME NEW p \in Producers, SetTriggering(p) PROVE SleepInv'
  <2>1. /\ UNCHANGED <<loop, stage, queue, execSub, pipe>> /\ pc[p] = "set" /\ tgt[p] \in Children
        /\ tgt' = [tgt EXCEPT ![p] = Parent[tgt[p]]] /\ clo' = [clo EXCEPT ![p] = <<tgt[p], p>>]
        /\ \A q \in Producers : q # p => pc'[q] = pc[q]
    BY <1>16 DEF SetTriggering, Step, loopVars, TypeOK, BelowRoot
  <2>2. Parent[tgt[p]] = Root
    BY <1>0, <2>1 DEF Near, WakesLoop
  <2>3. Near'
    <3>1. \A q \in Producers : \/ q = p /\ tgt'[q] = Root /\ clo'[q][1] = tgt[p]
                               \/ tgt'[q] = tgt[q] /\ clo'[q] = clo[q]
      BY <2>1, <2>2 DEF TypeOK
    <3> QED BY <1>0, <2>2, <3>1 DEF Near, WakesLoop
  <2>4. (Overslept' => Overslept) /\ (Woken => Woken')
    BY <1>3, <2>1 DEF Overslept, Woken
  <2> QED BY <1>0, <1>1, <2>1, <2>3, <2>4 DEF SleepInv
<1>17. ASSUME NEW p \in Producers,
              Refused(p) \/ RunInline(p) \/ CheckTriggering(p) \/ Return(p)
       PROVE  SleepInv'
  <2>1. UNCHANGED <<loop, stage, tgt, clo, queue, execSub, pipe>>
    BY <1>17 DEF Refused, RunInline, CheckTriggering, Return, treeVars, loopVars
  <2>2. \A q \in Producers : pc[q] = "active" => pc'[q] = "active"
    BY <1>17 DEF Refused, RunInline, CheckTriggering, Return, Step, TypeOK
  <2>3. (Overslept' => Overslept) /\ (Woken => Woken')
    BY <1>3, <2>1, <2>2 DEF Overslept, Woken
  <2> QED BY <1>0, <1>1, <1>2, <2>1, <2>3 DEF SleepInv
<1>18. CASE UNCHANGED vars
  <2>1. UNCHANGED <<loop, stage, tgt, clo, queue, execSub, pipe, pc>>
    BY <1>18 DEF vars, treeVars, loopVars, prodVars
  <2>2. (Overslept' => Overslept) /\ (Woken => Woken')
    BY <1>3, <2>1 DEF Overslept, Woken
  <2> QED BY <1>0, <1>1, <1>2, <2>1, <2>2 DEF SleepInv
<1> QED
  BY <1>5, <1>6, <1>7, <1>8, <1>9, <1>10, <1>11, <1>12, <1>13, <1>14, <1>15, <1>16, <1>17, <1>18
  DEF Next, LoopStep, HandleEvent, ProducerStep

\* When foreign threads call only the scheduler and its direct children, the
\* loop never sleeps over a closure it can see without somebody on the way to
\* the wakeup pipe. Below the direct children active() wakes nobody, and the
\* hypothesis is needed.
THEOREM LoopAwake == ASSUME NearTargets PROVE Spec => []NoSleepOnWork
<1>1. SleepInv => NoSleepOnWork
  BY DEF SleepInv, Overslept, Woken, NoSleepOnWork
<1>2. Init => TypeInv /\ SchedInv /\ SleepInv
  BY TypeInit, SchedInit, SleepInit
<1>3. TypeInv /\ SchedInv /\ SleepInv /\ [Next]_vars => (TypeInv /\ SchedInv /\ SleepInv)'
  BY TypeStep, SchedStep, SleepStep
<1> QED BY <1>1, <1>2, <1>3, PTL DEF Spec
=============================================================================
