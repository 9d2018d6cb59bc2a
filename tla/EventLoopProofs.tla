--------------------------- MODULE EventLoopProofs ---------------------------
(***************************************************************************)
(* Proofs about EventLoop for any number of schedulers and of callers.     *)
(***************************************************************************)
EXTENDS EventLoop, TLAPS

\* The type invariant is inductive by itself.
LEMMA TypeStep == TypeOK /\ [Next]_vars => TypeOK'
<1> SUFFICES ASSUME TypeOK, [Next]_vars PROVE TypeOK'
  OBVIOUS
<1> USE DEF TypeOK
<1>1. ASSUME NEW c \in Callers, CallerStep(c) PROVE TypeOK'
  <2>1. CASE Load(c)
    BY <2>1 DEF Load, CStep, mainVars, threadVars
  <2>2. CASE Increment(c) \/ Wrap(c)
    BY <2>2 DEF Increment, Wrap, CStep, mainVars, threadVars
  <2>3. CASE WrapCheck(c) \/ Use(c)
    BY <2>3 DEF WrapCheck, Use, CStep, mainVars, threadVars
  <2> QED BY <1>1, <2>1, <2>2, <2>3 DEF CallerStep
<1>2. ASSUME NEW i \in Threads, ThreadStep(i) \/ Stop(i) PROVE TypeOK'
  BY <1>2 DEF ThreadStep, TStep, SetThreadId, LoopCheck, Round, Stop, StopNotify,
              ResetThreadId, ThreadEnds, mainVars, indexVars, ThreadStates, MainStates
<1>3. ASSUME MainStep PROVE TypeOK'
  <2> USE DEF MainStates
  <2>1. CASE Start
    BY <2>1, LoopAssumption DEF Start, MStep, indexVars, threadVars, Threads
  <2>2. CASE StartNext
    <3>1. cursor' \in Threads
      BY <2>2, LoopAssumption DEF StartNext, Threads
    <3>2. isExecing' \in [Threads -> BOOLEAN] /\ tpc' \in [Threads -> ThreadStates]
      BY <2>2 DEF StartNext, StartThread, ThreadStates
    <3> QED BY <2>2, <3>1, <3>2 DEF StartNext, StartThread, MStep, indexVars
  <2>3. CASE WaitStopCheck \/ WaitStop
    BY <2>3 DEF WaitStopCheck, WaitStop, MStep, indexVars, threadVars
  <2>4. CASE JoinPool
    BY <2>4, LoopAssumption DEF JoinPool, MStep, indexVars, threadVars, Threads
  <2>5. CASE StopThread
    BY <2>5 DEF StopThread, MStep, indexVars
  <2>6. CASE Destroy
    BY <2>6 DEF Destroy, MStep, indexVars, threadVars
  <2>7. CASE JoinThread
    <3>1. CASE cursor = N \/ cleared
      BY <2>7, <3>1 DEF JoinThread, NextToStop, indexVars, ThreadStates
    <3>2. CASE ~(cursor = N \/ cleared)
      <4>1. cursor' \in Threads
        BY <2>7, <3>2, LoopAssumption DEF JoinThread, NextToStop, Threads
      <4> QED BY <2>7, <3>2, <4>1 DEF JoinThread, NextToStop, indexVars, ThreadStates
    <3> QED BY <3>1, <3>2
  <2> QED BY <1>3, <2>1, <2>2, <2>3, <2>4, <2>5, <2>6, <2>7 DEF MainStep
<1>4. CASE UNCHANGED vars
  BY <1>4 DEF vars, mainVars, threadVars, indexVars
<1>5. CASE SpuriousWakeup
  BY <1>5 DEF SpuriousWakeup, MStep, MainStates, indexVars, threadVars
<1> QED BY <1>1, <1>2, <1>3, <1>4, <1>5 DEF Next

\* The types hold at the start.
LEMMA TypeInit == Init => TypeOK
<1>1. 0 \in Threads
  BY LoopAssumption DEF Threads
<1> SUFFICES ASSUME Init PROVE TypeOK
  OBVIOUS
<1>2. running \in BOOLEAN /\ cleared \in BOOLEAN /\ destroying \in BOOLEAN
  BY DEF Init
<1>3. isExecing \in [Threads -> BOOLEAN] /\ threadId \in [Threads -> BOOLEAN]
  BY DEF Init
<1>4. /\ tpc \in [Threads -> ThreadStates] /\ mpc \in MainStates /\ cursor \in Threads
      /\ index \in Nat /\ ret \in [Callers -> Nat]
      /\ cpc \in [Callers -> {"idle", "loaded", "incremented", "wrap", "use"}]
  BY <1>1 DEF Init, MainStates, ThreadStates
<1> QED BY <1>2, <1>3, <1>4 DEF TypeOK

\* Type correctness of the loop's life cycle, for any number of schedulers.
THEOREM TypeCorrect == Spec => []TypeOK
BY TypeInit, TypeStep, PTL DEF Spec

-----------------------------------------------------------------------------
\* What makes JoinedMeansDead inductive: a thread that has ended left both of
\* its flags reset, join has reset the threads it has passed, and after the
\* threads are gone no start follows.
Ended == \A i \in Threads : /\ tpc[i] \in {"none", "finished"} => ~isExecing[i]
                            /\ tpc[i] \in {"none", "reset", "finished"} => ~threadId[i]
PassedAreJoined ==
  mpc \in {"stop", "join"} => \A j \in Threads : j < cursor => tpc[j] = "none"
ClearedAreJoined ==
  cleared => /\ \A i \in Threads : tpc[i] = "none"
             /\ mpc \notin {"created", "starting"}
JoinInv == TypeOK /\ Ended /\ PassedAreJoined /\ ClearedAreJoined

\* Every step keeps what is known of joined threads.
LEMMA JoinStepInv == JoinInv /\ [Next]_vars => JoinInv'
<1> SUFFICES ASSUME JoinInv, [Next]_vars PROVE JoinInv'
  OBVIOUS
<1>0. TypeOK /\ TypeOK'
  BY TypeStep DEF JoinInv
<1> USE LoopAssumption DEF JoinInv, Ended, PassedAreJoined, ClearedAreJoined, Threads
<1>1. ASSUME NEW c \in Callers, CallerStep(c) PROVE JoinInv'
  BY <1>0, <1>1 DEF CallerStep, Load, Increment, WrapCheck, Wrap, Use, mainVars, threadVars
<1>2. ASSUME NEW i \in Threads, ThreadStep(i) \/ Stop(i) PROVE JoinInv'
  <2>1. CASE SetThreadId(i) \/ LoopCheck(i) \/ Round(i)
    BY ZenonT(40), <1>0, <2>1 DEF TypeOK, TStep, SetThreadId, LoopCheck, Round, mainVars
  <2>2. CASE Stop(i) \/ StopNotify(i)
    BY <1>0, <2>2 DEF TypeOK, TStep, Stop, StopNotify
  <2>3. CASE ResetThreadId(i) \/ ThreadEnds(i)
    BY <1>0, <2>3 DEF TypeOK, TStep, ResetThreadId, ThreadEnds, mainVars
  <2> QED BY <1>2, <2>1, <2>2, <2>3 DEF ThreadStep
<1>3. ASSUME MainStep PROVE JoinInv'
  <2>1. CASE Start
    BY <1>0, <2>1 DEF TypeOK, Start, MStep, threadVars
  <2>5. CASE StartNext
    BY <1>0, <2>5 DEF TypeOK, StartNext, StartThread, MStep
  <2>2. CASE WaitStopCheck \/ WaitStop \/ JoinPool \/ Destroy
    BY <1>0, <2>2 DEF WaitStopCheck, WaitStop, JoinPool, Destroy, MStep, threadVars, TypeOK
  <2>3. CASE StopThread
    BY <1>0, <2>3 DEF StopThread, MStep, TypeOK
  <2>4. CASE JoinThread
    BY <1>0, <2>4 DEF JoinThread, NextToStop, TypeOK
  <2> QED BY <1>3, <2>1, <2>2, <2>3, <2>4, <2>5 DEF MainStep
<1>4. CASE UNCHANGED vars
  BY <1>0, <1>4 DEF vars, mainVars, threadVars
<1>5. CASE SpuriousWakeup
  BY <1>0, <1>5 DEF SpuriousWakeup, MStep, threadVars, TypeOK
<1> QED BY <1>1, <1>2, <1>3, <1>4, <1>5 DEF Next

\* Once EventLoop::join has cleared taskSchedulers every thread has been joined
\* and both of its flags are reset, for any number of schedulers.
THEOREM JoinedAreDead == Spec => []JoinedMeansDead
<1>1. Init => JoinInv
  BY TypeInit DEF Init, JoinInv, Ended, PassedAreJoined, ClearedAreJoined
<1>2. JoinInv => JoinedMeansDead
  BY DEF JoinInv, Ended, ClearedAreJoined, JoinedMeansDead
<1> QED BY <1>1, <1>2, JoinStepInv, PTL DEF Spec
=============================================================================
