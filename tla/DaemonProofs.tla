---------------------------- MODULE DaemonProofs ----------------------------
(***************************************************************************)
(* What the worker keeps about processes and pipes is right for any number *)
(* of sessions, descriptors, commands and failures of fork: no process     *)
(* behind a session's back as long as killSignal ends a process, and no    *)
(* process's pipe left open or redirected to another session.              *)
(***************************************************************************)
EXTENDS Daemon, FiniteSetTheorems, NaturalsInduction, WellFoundedInduction, TLAPS

-----------------------------------------------------------------------------
(* Helpers *)

\* A nonempty set of descriptors has a lowest one.
LEMMA MinInSet == ASSUME NEW S, S \subseteq Nat, S # {} PROVE Min(S) \in S
<1> DEFINE R == {p \in Nat \X Nat : p[1] < p[2]}
<1>1. IsWellFoundedOn(R, Nat)
  BY NatLessThanWellFounded DEF OpToRel
<1>2. PICK i \in S : \A j \in S : ~(<<j, i>> \in R)
  BY <1>1, WFMin
<1>3. ASSUME NEW j \in S PROVE i <= j
  <2>1. i \in Nat /\ j \in Nat /\ ~(j < i)
    BY <1>2
  <2> QED BY <2>1
<1> QED BY <1>3 DEF Min

\* 0 is no process id.
LEMMA PidsAreNat == Pids \subseteq Nat /\ 0 \notin Pids
<1>1. Cardinality(Sessions) \in Nat
  BY FS_CardinalityType, DaemonAssumption
<1> QED BY <1>1 DEF Pids

-----------------------------------------------------------------------------
(* The type of sessions and processes *)

SessionRecord == [status : {"wait", "running", "exited", "fatal"}, pid : Nat,
                  next : {"never", "later", "now"}, errors : Nat, readFd : 0 .. MaxFd]
Process == [state : {"free", "alive", "zombie"}, of : Sessions \cup {NoProcess.of}]

TypeOK == /\ sess \in [Sessions -> SessionRecord] /\ procs \in [Pids -> Process]
          /\ DOMAIN fds \subseteq 1 .. MaxFd
          /\ tasks \in [DOMAIN tasks -> Sessions] /\ DOMAIN tasks \subseteq 1 .. MaxFd

\* What the steps do to a session, its process and its pipe: it gets another
\* boot time, or it is reset, or it is started (CheckBoot).
Retimed(s) ==
  /\ sess[s].status # "running" /\ UNCHANGED <<procs, fds, tasks>>
  /\ \E r \in SessionRecord : /\ r.status # "running" /\ r.readFd = sess[s].readFd
                              /\ sess' = [sess EXCEPT ![s] = r]
Ended(s) ==
  /\ procs' \in IF sess[s].status = "running" THEN Reaped(s) ELSE {procs}
  /\ tasks' = Without(tasks, {sess[s].readFd})
  /\ fds' = Without(fds, {sess[s].readFd})
  /\ \E r \in SessionRecord : /\ r.status # "running" /\ r.readFd = NoFd
                              /\ sess' = [sess EXCEPT ![s] = r]
\* The other steps change no session: a process ends, or tasks are erased.
Quiet ==
  /\ UNCHANGED <<sess, fds>>
  /\ \/ procs' = procs
     \/ \E p \in Pids : procs[p].state = "alive" /\ procs' = [procs EXCEPT ![p].state = "zombie"]
  /\ tasks' = tasks \/ tasks' = Without(tasks, redirect.erase)

\* After resetBootStatus a session does not run and has no pipe.
LEMMA Resetting ==
  ASSUME NEW s \in Sessions, NEW st \in {"wait", "exited", "fatal"},
         NEW nx \in {"never", "later", "now"}, NEW er \in Nat, sess' = Reset(s, st, nx, er)
  PROVE  \E r \in SessionRecord : /\ r.status # "running" /\ r.readFd = NoFd
                                  /\ sess' = [sess EXCEPT ![s] = r]
<1> DEFINE r == [status |-> st, pid |-> 0, next |-> nx, errors |-> er, readFd |-> NoFd]
<1>1. 0 \in 0 .. MaxFd
  BY DaemonAssumption
<1>2. r \in SessionRecord /\ r.status # "running" /\ r.readFd = NoFd
  BY <1>1 DEF SessionRecord, NoFd
<1>3. sess' = [sess EXCEPT ![s] = r]
  BY DEF Reset
<1> QED BY <1>2, <1>3

\* Every step of the worker is one of these for the sessions.
LEMMA Steps ==
  ASSUME TypeOK, [Next]_vars
  PROVE  Quiet \/ \E s \in Sessions : Retimed(s) \/ Ended(s) \/ CheckBoot(s)
<1>1. ASSUME NEW s \in Sessions, CheckExit(s) PROVE Ended(s)
  <2>1. PICK q \in BOOLEAN : sess' = AfterExit(s, Errors(s, q))
    BY <1>1 DEF CheckExit
  <2>2. sess[s].errors \in Nat
    BY DEF TypeOK, SessionRecord
  <2>3. Errors(s, q) \in Nat
    BY <2>2 DEF Errors
  <2>4. \E st \in {"wait", "exited", "fatal"}, nx \in {"never", "later", "now"}, er \in Nat :
          sess' = Reset(s, st, nx, er)
    BY <2>1, <2>3 DEF AfterExit
  <2>5. \E r \in SessionRecord : /\ r.status # "running" /\ r.readFd = NoFd
                                /\ sess' = [sess EXCEPT ![s] = r]
    BY <2>4, Resetting
  <2> QED BY <1>1, <2>5 DEF CheckExit, Ended, Reaped, ResetBootStatus
<1>2. ASSUME NEW s \in Sessions, NEW st \in {"wait", "exited"}, NEW nx \in {"never", "later", "now"},
             Command(s, st, nx)
      PROVE  Ended(s)
  <2>1. sess[s].errors \in Nat
    BY DEF TypeOK, SessionRecord
  <2>2. sess' = Reset(s, st, nx, sess[s].errors)
    BY <1>2 DEF Command
  <2>3. \E r \in SessionRecord : /\ r.status # "running" /\ r.readFd = NoFd
                                /\ sess' = [sess EXCEPT ![s] = r]
    BY <2>1, <2>2, Resetting
  <2> QED BY <1>2, <2>3 DEF Command, Ended, ResetBootStatus
<1>3. ASSUME NEW s \in Sessions, StopTask(s) \/ RestartTask(s) \/ ReloadTask(s) PROVE Ended(s)
  BY <1>2, <1>3 DEF StopTask, RestartTask, ReloadTask
<1>4. ASSUME NEW s \in Sessions, StartTask(s) \/ Elapse(s) PROVE Retimed(s)
  <2> DEFINE r == [sess[s] EXCEPT !.status = "wait", !.next = "now"]
  <2>1. sess[s] \in SessionRecord
    BY DEF TypeOK
  <2>2. r \in SessionRecord /\ r.status # "running" /\ r.readFd = sess[s].readFd
    BY <2>1 DEF SessionRecord
  <2>3. sess[s].status # "running" /\ UNCHANGED <<procs, fds, tasks>>
    BY <1>4 DEF StartTask, Elapse
  <2>4. sess' = [sess EXCEPT ![s] = r]
    <3>1. CASE StartTask(s)
      BY <3>1 DEF StartTask, TypeOK
    <3>2. CASE Elapse(s)
      <4>1. sess' = [sess EXCEPT ![s] = [@ EXCEPT !.next = "now"]] /\ sess[s].status = "wait"
        BY <3>2 DEF Elapse
      <4>2. [sess[s] EXCEPT !.next = "now"] = r
        BY <2>1, <4>1 DEF SessionRecord
      <4> QED BY <4>1, <4>2
    <3> QED BY <1>4, <3>1, <3>2
  <2> QED BY <2>2, <2>3, <2>4 DEF Retimed
<1>5. CASE RedirectStep \/ RedirectEnds \/ StopCall \/ WorkerEnds \/ StopReturns
  BY <1>5 DEF RedirectStep, RedirectEnds, StopCall, WorkerEnds, StopReturns, Copy, Select, Check, Read,
              EraseAll, RedirectVars, session, Quiet
<1>6. ASSUME NEW fd \in 1 .. MaxFd, Write(fd) PROVE Quiet
  BY <1>6 DEF Write, Quiet
<1>7. ASSUME NEW p \in Pids, Exit(p) PROVE Quiet
  BY <1>7 DEF Exit, Quiet
<1>8. CASE UNCHANGED vars
  BY <1>8 DEF vars, Quiet
<1> QED BY <1>1, <1>3, <1>4, <1>5, <1>6, <1>7, <1>8 DEF Next, SessionStep

\* A start: the process was free, and is 0 when fork failed; the descriptor was
\* free, and is NoFd when pipe2 failed; r is what becomes of the session.
Started(s, fd, p, r) ==
  /\ sess[s].status = "wait"
  /\ p = 0 \/ (p \in Pids /\ procs[p].state = "free")
  /\ procs' = [q \in Pids |-> IF q = p THEN [state |-> "alive", of |-> s] ELSE procs[q]]
  /\ \/ fd = NoFd /\ r.readFd = sess[s].readFd /\ tasks' = tasks /\ fds' = fds
     \/ /\ fd \in (1 .. MaxFd) \ DOMAIN fds /\ r.readFd = fd
        /\ tasks' = Emplaced(tasks, fd, s) /\ fds' = Emplaced(fds, fd, p)
  /\ r \in SessionRecord /\ sess' = [sess EXCEPT ![s] = r]
  /\ r.status = IF p = 0 THEN "wait" ELSE "running"
  /\ p # 0 => r.pid = p

\* pipe2 gives a free descriptor, or none.
LEMMA Pipe2Free == Pipe2 = NoFd \/ Pipe2 \in (1 .. MaxFd) \ DOMAIN fds
<1> DEFINE free == (1 .. MaxFd) \ DOMAIN fds
<1>1. free \subseteq Nat
  BY DaemonAssumption
<1>2. free # {} => Min(free) \in free
  <2> HIDE DEF free
  <2> QED BY <1>1, MinInSet
<1>3. Pipe2 = IF free = {} THEN NoFd ELSE Min(free)
  BY DEF Pipe2
<1> HIDE DEF free
<1>4. Pipe2 = NoFd \/ Pipe2 \in free
  BY <1>2, <1>3
<1> QED BY <1>4 DEF free

\* CheckBoot takes a free descriptor if there is one, and a free process id
\* unless fork fails.
LEMMA Booting ==
  ASSUME TypeOK, NEW s \in Sessions, CheckBoot(s)
  PROVE  \E fd, p, r : Started(s, fd, p, r)
<1>0. PICK fd : fd = Pipe2
  OBVIOUS
<1> DEFINE free == {p \in Pids : procs[p].state = "free"}
           readFd == IF fd = NoFd THEN sess[s].readFd ELSE fd
<1>1. fd = NoFd \/ fd \in (1 .. MaxFd) \ DOMAIN fds
  BY <1>0, Pipe2Free
<1>2. Min(free) \in free
  <2>1. free \subseteq Nat /\ free # {}
    BY PidsAreNat DEF CheckBoot
  <2> HIDE DEF free
  <2> QED BY <2>1, MinInSet
<1>3. PICK p \in ForkResults : Exec(s, p)
  BY DEF CheckBoot
<1>4. p = 0 \/ (p \in Pids /\ procs[p].state = "free")
  <2>1. p = Min(free) \/ p = 0
    BY <1>3, Zenon DEF ForkResults
  <2> QED BY <1>2, <2>1
<1>5. p \in Nat
  <2>1. CASE p = 0
    BY <2>1
  <2>2. CASE p \in Pids
    BY <2>2, PidsAreNat, Zenon
  <2> QED BY <1>4, <2>1, <2>2, Zenon
<1>6. /\ tasks' = IF fd = NoFd THEN tasks ELSE Emplaced(tasks, fd, s)
      /\ fds' = IF fd = NoFd THEN fds ELSE Emplaced(fds, fd, p)
      /\ procs' = [q \in Pids |-> IF q = p THEN [state |-> "alive", of |-> s] ELSE procs[q]]
      /\ sess' = IF p = 0 THEN [sess EXCEPT ![s].next = "later", ![s].readFd = readFd]
                 ELSE Booted(s, p, readFd)
  BY <1>0, <1>3 DEF Exec
<1>7. sess[s] \in SessionRecord /\ sess[s].status = "wait"
  BY DEF CheckBoot, TypeOK
<1>8. readFd \in 0 .. MaxFd
  BY <1>1, <1>7 DEF SessionRecord
<1> HIDE DEF readFd
<1>9. PICK r \in SessionRecord :
        /\ r.status = (IF p = 0 THEN "wait" ELSE "running")
        /\ r.readFd = readFd
        /\ p # 0 => r.pid = p
        /\ sess' = [sess EXCEPT ![s] = r]
  <2>1. CASE p = 0
    <3> DEFINE r == [sess[s] EXCEPT !.next = "later", !.readFd = readFd]
    <3>1. r \in SessionRecord /\ r.status = "wait" /\ r.readFd = readFd
      BY <1>7, <1>8 DEF SessionRecord
    <3>2. sess' = [sess EXCEPT ![s] = r]
      BY <1>6, <2>1 DEF TypeOK
    <3> QED BY <2>1, <3>1, <3>2
  <2>2. CASE p # 0
    <3> DEFINE r == [sess[s] EXCEPT !.status = "running", !.pid = p, !.readFd = readFd]
    <3>1. r \in SessionRecord /\ r.status = "running" /\ r.readFd = readFd /\ r.pid = p
      BY <1>5, <1>7, <1>8 DEF SessionRecord
    <3>2. sess' = [sess EXCEPT ![s] = r]
      BY <1>6, <2>2 DEF Booted, TypeOK
    <3> QED BY <2>2, <3>1, <3>2
  <2> QED BY <2>1, <2>2
<1>10. \/ fd = NoFd /\ r.readFd = sess[s].readFd /\ tasks' = tasks /\ fds' = fds
       \/ /\ fd \in (1 .. MaxFd) \ DOMAIN fds /\ r.readFd = fd
          /\ tasks' = Emplaced(tasks, fd, s) /\ fds' = Emplaced(fds, fd, p)
  <2>1. CASE fd = NoFd
    <3>1. readFd = sess[s].readFd /\ tasks' = tasks /\ fds' = fds
      BY <1>6, <2>1, Zenon DEF readFd
    <3> QED BY <1>9, <2>1, <3>1, Zenon
  <2>2. CASE fd # NoFd
    <3>1. readFd = fd /\ tasks' = Emplaced(tasks, fd, s) /\ fds' = Emplaced(fds, fd, p)
      BY <1>6, <2>2, Zenon DEF readFd
    <3> QED BY <1>1, <1>9, <2>2, <3>1, Zenon
  <2> QED BY <2>1, <2>2, Zenon
<1>11. procs' = [q \in Pids |-> IF q = p THEN [state |-> "alive", of |-> s] ELSE procs[q]]
  BY <1>6, Zenon
<1>12. /\ sess[s].status = "wait" /\ r \in SessionRecord /\ sess' = [sess EXCEPT ![s] = r]
       /\ r.status = IF p = 0 THEN "wait" ELSE "running"
       /\ p # 0 => r.pid = p
  BY <1>7, <1>9, Zenon
<1>13. Started(s, fd, p, r)
  BY ONLY <1>4, <1>10, <1>11, <1>12, Zenon DEF Started
<1> QED BY <1>13

\* The types hold at the start.
LEMMA TypeInit == Init => TypeOK
<1> SUFFICES ASSUME Init PROVE TypeOK
  OBVIOUS
<1>1. 0 \in 0 .. MaxFd
  BY DaemonAssumption
<1>2. NoProcess \in Process
  BY DEF NoProcess, Process
<1> QED BY <1>1, <1>2 DEF Init, TypeOK, SessionRecord, NoFd

\* Every step keeps the types.
LEMMA TypeStep ==
  ASSUME TypeOK, [Next]_vars
  PROVE  TypeOK'
<1>1. NoProcess \in Process
  BY DEF NoProcess, Process
<1>2. CASE Quiet
  <2>1. procs' \in [Pids -> Process]
    BY <1>2 DEF Quiet, TypeOK, Process
  <2>2. tasks' \in [DOMAIN tasks' -> Sessions] /\ DOMAIN tasks' \subseteq 1 .. MaxFd
    BY <1>2 DEF Quiet, TypeOK, Without, Restrict
  <2> QED BY <1>2, <2>1, <2>2 DEF Quiet, TypeOK
<1>3. ASSUME NEW s \in Sessions, Retimed(s) PROVE TypeOK'
  BY <1>3 DEF Retimed, TypeOK
<1>4. ASSUME NEW s \in Sessions, Ended(s) PROVE TypeOK'
  <2>1. sess' \in [Sessions -> SessionRecord]
    BY <1>4 DEF Ended, TypeOK
  <2>2. procs' \in [Pids -> Process]
    BY <1>1, <1>4 DEF Ended, Reaped, Free, TypeOK
  <2>3. /\ tasks' \in [DOMAIN tasks' -> Sessions] /\ DOMAIN tasks' \subseteq 1 .. MaxFd
        /\ DOMAIN fds' \subseteq 1 .. MaxFd
    BY <1>4 DEF Ended, TypeOK, Without, Restrict
  <2> QED BY <2>1, <2>2, <2>3 DEF TypeOK
<1>5. ASSUME NEW s \in Sessions, NEW fd, NEW p, NEW r, Started(s, fd, p, r) PROVE TypeOK'
  <2>1. sess' \in [Sessions -> SessionRecord]
    BY <1>5 DEF Started, TypeOK
  <2>2. procs' \in [Pids -> Process]
    BY <1>5 DEF Started, TypeOK, Process
  <2>3. /\ tasks' \in [DOMAIN tasks' -> Sessions] /\ DOMAIN tasks' \subseteq 1 .. MaxFd
        /\ DOMAIN fds' \subseteq 1 .. MaxFd
    BY <1>5 DEF Started, TypeOK, Emplaced
  <2> QED BY <2>1, <2>2, <2>3 DEF TypeOK
<1> QED BY <1>2, <1>3, <1>4, <1>5, Steps, Booting

-----------------------------------------------------------------------------
(* Processes *)

OwnInv == /\ TypeOK /\ ProcessesOwned
          /\ \A s \in Sessions : sess[s].status = "running" => sess[s].pid \in Pids
          /\ \A p \in Pids : procs[p].state # "free" => procs[p].of \in Sessions

\* At the start there is no process.
LEMMA OwnInit == Init => OwnInv
<1> SUFFICES ASSUME Init PROVE OwnInv
  OBVIOUS
<1> QED BY TypeInit DEF Init, OwnInv, ProcessesOwned, NoProcess

\* A session is started only when its process is gone; a process is
\* forgotten only after waitpid.
LEMMA OwnStep == ASSUME ~Unkillable PROVE OwnInv /\ [Next]_vars => OwnInv'
<1> SUFFICES ASSUME OwnInv, [Next]_vars PROVE OwnInv'
  OBVIOUS
<1>0. TypeOK /\ TypeOK' /\ ProcessesOwned
  BY TypeStep DEF OwnInv
<1>1. /\ \A s \in Sessions : sess[s].status = "running" => sess[s].pid \in Pids
      /\ \A p \in Pids : procs[p].state # "free" => procs[p].of \in Sessions
  BY DEF OwnInv
<1>2. CASE Quiet
  <2>1. \A q \in Pids : procs'[q].of = procs[q].of /\ (procs'[q].state = "free" <=> procs[q].state = "free")
    BY <1>0, <1>2 DEF Quiet, TypeOK, Process
  <2> QED BY <1>0, <1>1, <1>2, <2>1 DEF Quiet, OwnInv, ProcessesOwned
<1>3. ASSUME NEW s \in Sessions, Retimed(s) PROVE OwnInv'
  <2>1. \A u \in Sessions : \/ u # s /\ sess'[u] = sess[u]
                            \/ u = s /\ sess'[u].status # "running" /\ sess[u].status # "running"
    BY <1>0, <1>3 DEF Retimed, TypeOK
  <2>2. procs' = procs
    BY <1>3 DEF Retimed
  <2> QED BY <1>0, <1>1, <2>1, <2>2 DEF OwnInv, ProcessesOwned, TypeOK, Process
<1>4. ASSUME NEW s \in Sessions, Ended(s) PROVE OwnInv'
  <2>1. /\ sess'[s].status # "running"
        /\ \A u \in Sessions : u # s => sess'[u] = sess[u]
    BY <1>0, <1>4 DEF Ended, TypeOK
  <2>2. CASE sess[s].status # "running"
    <3>1. procs' = procs
      BY <1>4, <2>2 DEF Ended
    <3> QED BY <1>0, <1>1, <2>1, <2>2, <3>1 DEF OwnInv, ProcessesOwned
  <2>3. CASE sess[s].status = "running"
    <3>1. procs' = Free(sess[s].pid)
      BY <1>4, <2>3, Zenon DEF Ended, Reaped
    <3>2. /\ procs'[sess[s].pid].state = "free"
          /\ \A q \in Pids : q # sess[s].pid => procs'[q] = procs[q]
      BY <1>0, <1>1, <2>3, <3>1 DEF Free, NoProcess, TypeOK
    <3> QED BY <1>0, <1>1, <2>1, <2>3, <3>2 DEF OwnInv, ProcessesOwned
  <2> QED BY <2>2, <2>3
<1>5. ASSUME NEW s \in Sessions, NEW fd, NEW p, NEW r, Started(s, fd, p, r) PROVE OwnInv'
  <2>1. /\ sess[s].status = "wait"
        /\ \A u \in Sessions : u # s => sess'[u] = sess[u]
    BY <1>0, <1>5 DEF Started, TypeOK
  <2>2. CASE p = 0
    <3>1. sess'[s].status = "wait"
      BY <1>0, <1>5, <2>2 DEF Started, TypeOK
    <3>2. \A q \in Pids : procs'[q] = procs[q]
      BY <1>5, <2>2, PidsAreNat DEF Started
    <3> QED BY <1>0, <1>1, <2>1, <3>1, <3>2 DEF OwnInv, ProcessesOwned
  <2>3. CASE p \in Pids /\ procs[p].state = "free"
    <3>1. sess'[s].status = "running" /\ sess'[s].pid = p
      BY <1>0, <1>5, <2>3, PidsAreNat DEF Started, TypeOK
    <3>2. /\ procs'[p].state = "alive" /\ procs'[p].of = s
          /\ \A q \in Pids : q # p => procs'[q] = procs[q]
      BY <1>5, <2>3 DEF Started
    <3> QED BY <1>0, <1>1, <2>1, <2>3, <3>1, <3>2 DEF OwnInv, ProcessesOwned
  <2> QED BY <1>5, <2>2, <2>3 DEF Started
<1> QED BY <1>0, <1>2, <1>3, <1>4, <1>5, Steps, Booting

\* As long as killSignal ends a process, no session ever has a process beside
\* the one it knows, nor believes to have one that is gone: over exits, fork
\* failures, restarts by the worker and commands of other threads in any
\* order, for any number of sessions.
THEOREM OneProcessEach == ASSUME ~Unkillable PROVE Spec => []ProcessesOwned
<1>1. OwnInv => ProcessesOwned
  BY DEF OwnInv
<1>2. OwnInv /\ [Next]_vars => OwnInv'
  BY OwnStep
<1> QED BY <1>1, <1>2, OwnInit, PTL DEF Spec

-----------------------------------------------------------------------------
(* Pipes *)

PipeInv == TypeOK /\ PipesHeld

\* At the start there is no pipe.
LEMMA PipeInit == Init => PipeInv
<1> SUFFICES ASSUME Init PROVE PipeInv
  OBVIOUS
<1> QED BY TypeInit DEF Init, PipeInv, PipesHeld, NoFd

\* A pipe is opened with its process and closed with it; a start leaves behind
\* the pipe of a fork that failed only; eraseSet drops tasks, not descriptors.
LEMMA PipeStep == PipeInv /\ [Next]_vars => PipeInv'
<1> SUFFICES ASSUME PipeInv, [Next]_vars PROVE PipeInv'
  OBVIOUS
<1>0. TypeOK /\ TypeOK' /\ PipesHeld
  BY TypeStep DEF PipeInv
<1>1. /\ \A fd \in DOMAIN tasks : tasks[fd] \in Sessions
      /\ \A fd \in DOMAIN fds : fd # NoFd
  BY <1>0 DEF TypeOK, NoFd
<1>2. CASE Quiet
  <2>1. \A fd \in DOMAIN tasks' : fd \in DOMAIN tasks /\ tasks'[fd] = tasks[fd]
    BY <1>2 DEF Quiet, Without, Restrict
  <2> QED BY <1>0, <1>2, <2>1 DEF Quiet, PipeInv, PipesHeld
<1>3. ASSUME NEW s \in Sessions, Retimed(s) PROVE PipeInv'
  <2>1. /\ \A u \in Sessions : sess'[u].readFd = sess[u].readFd
        /\ \A u \in Sessions : sess[u].status = "running" => sess'[u] = sess[u]
    BY <1>0, <1>3 DEF Retimed, TypeOK
  <2>2. fds' = fds /\ tasks' = tasks
    BY <1>3 DEF Retimed
  <2> QED BY <1>0, <1>1, <2>1, <2>2 DEF PipeInv, PipesHeld
<1>4. ASSUME NEW s \in Sessions, Ended(s) PROVE PipeInv'
  <2>1. /\ sess'[s].readFd = NoFd
        /\ \A u \in Sessions : u # s => sess'[u] = sess[u]
    BY <1>0, <1>4 DEF Ended, TypeOK
  <2>2. /\ DOMAIN fds' = DOMAIN fds \ {sess[s].readFd}
        /\ \A fd \in DOMAIN fds' : fds'[fd] = fds[fd]
        /\ DOMAIN tasks' = DOMAIN tasks \ {sess[s].readFd}
        /\ \A fd \in DOMAIN tasks' : tasks'[fd] = tasks[fd]
    BY <1>4 DEF Ended, Without, Restrict
  <2>3. \A u \in Sessions : sess'[u].readFd # NoFd => sess'[u].readFd \in DOMAIN fds'
    BY <1>0, <2>1, <2>2 DEF PipesHeld
  <2>4. \A u, v \in Sessions : sess'[u].readFd = sess'[v].readFd => u = v \/ sess'[u].readFd = NoFd
    BY <1>0, <2>1 DEF PipesHeld
  <2>5. \A fd \in DOMAIN fds' : fds'[fd] # 0 =>
          \E u \in Sessions : sess'[u].readFd = fd /\ sess'[u].status = "running" /\ sess'[u].pid = fds'[fd]
    BY <1>0, <2>1, <2>2 DEF PipesHeld
  <2>6. \A fd \in DOMAIN tasks' : fd \in DOMAIN fds' /\ (fds'[fd] # 0 => sess'[tasks'[fd]].readFd = fd)
    BY <1>0, <1>1, <2>1, <2>2 DEF PipesHeld
  <2> QED BY <1>0, <2>3, <2>4, <2>5, <2>6 DEF PipeInv, PipesHeld
<1>5. ASSUME NEW s \in Sessions, NEW fd, NEW p, NEW r, Started(s, fd, p, r) PROVE PipeInv'
  <2>1. /\ sess[s].status = "wait"
        /\ \A u \in Sessions : u # s => sess'[u] = sess[u]
        /\ sess'[s] = r
        /\ p # 0 => r.status = "running" /\ r.pid = p
    BY <1>0, <1>5 DEF Started, TypeOK
  \* A session that waits has the pipe of no process.
  <2>2. \A g \in DOMAIN fds : fds[g] # 0 => sess[s].readFd # g
    <3> SUFFICES ASSUME NEW g \in DOMAIN fds, fds[g] # 0, sess[s].readFd = g PROVE FALSE
      OBVIOUS
    <3>1. PICK u \in Sessions : sess[u].readFd = g /\ sess[u].status = "running"
      BY <1>0 DEF PipesHeld
    <3>2. u = s
      BY <1>0, <1>1, <3>1 DEF PipesHeld
    <3> QED BY <2>1, <3>1, <3>2
  <2>3. CASE fd = NoFd /\ r.readFd = sess[s].readFd /\ tasks' = tasks /\ fds' = fds
    <3>1. \A u \in Sessions : sess'[u].readFd = sess[u].readFd
      BY <2>1, <2>3
    <3>2. \A g \in DOMAIN fds' : fds'[g] # 0 =>
            \E u \in Sessions : sess'[u].readFd = g /\ sess'[u].status = "running" /\ sess'[u].pid = fds'[g]
      BY <1>0, <2>1, <2>2, <2>3 DEF PipesHeld
    <3> QED BY <1>0, <1>1, <2>3, <3>1, <3>2 DEF PipeInv, PipesHeld
  <2>4. CASE /\ fd \in (1 .. MaxFd) \ DOMAIN fds /\ r.readFd = fd
             /\ tasks' = Emplaced(tasks, fd, s) /\ fds' = Emplaced(fds, fd, p)
    <3>1. fd # NoFd /\ sess'[s].readFd = fd
      BY <2>1, <2>4 DEF NoFd
    <3>2. /\ DOMAIN fds' = DOMAIN fds \cup {fd} /\ fds'[fd] = p
          /\ \A g \in DOMAIN fds : fds'[g] = fds[g] /\ g # fd
      BY <2>4 DEF Emplaced
    <3>3. fd \notin DOMAIN tasks /\ \A u \in Sessions : sess[u].readFd # fd
      BY <1>0, <2>4, <3>1 DEF PipesHeld
    <3>4. /\ DOMAIN tasks' = DOMAIN tasks \cup {fd} /\ tasks'[fd] = s
          /\ \A g \in DOMAIN tasks : tasks'[g] = tasks[g]
      BY <2>4, <3>3 DEF Emplaced
    <3>5. \A u \in Sessions : sess'[u].readFd # NoFd => sess'[u].readFd \in DOMAIN fds'
      BY <1>0, <2>1, <3>1, <3>2 DEF PipesHeld
    <3>6. \A u, v \in Sessions : sess'[u].readFd = sess'[v].readFd => u = v \/ sess'[u].readFd = NoFd
      BY <1>0, <2>1, <3>1, <3>3 DEF PipesHeld
    <3>7. \A g \in DOMAIN fds' : fds'[g] # 0 =>
            \E u \in Sessions : sess'[u].readFd = g /\ sess'[u].status = "running" /\ sess'[u].pid = fds'[g]
      BY <1>0, <2>1, <2>2, <3>1, <3>2 DEF PipesHeld
    <3>8. \A g \in DOMAIN tasks' : g \in DOMAIN fds' /\ (fds'[g] # 0 => sess'[tasks'[g]].readFd = g)
      BY <1>0, <1>1, <2>1, <2>2, <3>1, <3>2, <3>4 DEF PipesHeld
    <3> QED BY <1>0, <3>5, <3>6, <3>7, <3>8 DEF PipeInv, PipesHeld
  <2> QED BY <1>5, <2>3, <2>4 DEF Started
<1> QED BY <1>0, <1>2, <1>3, <1>4, <1>5, Steps, Booting

\* The pipe of a process belongs to its session as long as it is open, and its
\* output goes to no other session, although the redirect thread erases from
\* its map by descriptor: over exits, commands, and failures of pipe2 and of
\* fork, for any number of sessions.
THEOREM PipesStayHeld == Spec => []PipesHeld
<1>1. PipeInv => PipesHeld
  BY DEF PipeInv
<1>2. PipeInv /\ [Next]_vars => PipeInv'
  BY PipeStep
<1> QED BY <1>1, <1>2, PipeInit, PTL DEF Spec

=============================================================================
