------------------------------- MODULE Daemon -------------------------------
(***************************************************************************)
(* sub_project/daemon-service: DaemonWorker and its DaemonSessions. The    *)
(* worker thread checks the sessions, starts their processes and reaps     *)
(* them; the redirect thread reads what they write to stdout; commands of  *)
(* other threads start, stop, restart and reload a session. m_dataMutex is *)
(* held over a check and over a command, which are one step each; the      *)
(* redirect thread takes no lock that spans its steps.                     *)
(*                                                                         *)
(* Time is abstract: a waiting session becomes due, and an exit comes      *)
(* before errorRebootThresholdSec (quick) or after it; restartIntervalSec  *)
(* is not 0, so that an exit and the next start are different checks.      *)
(* Processes and descriptors are external, numbered from 1 and reused.     *)
(***************************************************************************)
EXTENDS Naturals, FiniteSets, FiniteSetsExt, Functions

CONSTANTS Sessions,
          AutoRestart,    \* the sessions with autoRestart
          MaxErrors,      \* maxErrorRebootCnt, 0 for no limit
          MaxFd,          \* bound on descriptors
          MaxCommands,    \* bound on commands
          MaxForkFails,   \* bound on failures of fork
          Unkillable      \* whether a process may outlive killSignal

ASSUME DaemonAssumption == /\ IsFiniteSet(Sessions) /\ AutoRestart \subseteq Sessions
                           /\ {MaxErrors, MaxFd, MaxCommands, MaxForkFails} \subseteq Nat
                           /\ Unkillable \in BOOLEAN

Pids == 1 .. 2 * Cardinality(Sessions)
NoFd == 0   \* readFd is -1
NoProcess == [state |-> "free", of |-> CHOOSE s \in Sessions : TRUE]

VARIABLES
  sess,        \* a session: [status, pid, next, errors, readFd], nextBootTime is
               \* "never" (0), "later" or "now"
  procs,       \* a process: [state, of], "free", "alive" or "zombie"
  fds,         \* open read ends: descriptor -> process, 0 when there is none
  data,        \* descriptors with something to read
  tasks,       \* m_stdoutRedirectTasksMap: descriptor -> session
  running,     \* m_bRunning
  worker,      \* the worker thread: "run", "ended"
  redirect,    \* the redirect thread: [pc, map, todo, fd, erase], pc "copy", "select",
               \* "check", "read" or "ended"
  stopping,    \* stop(): "no", "called", "returned"
  quick,       \* history: whether the last exit of a session was quick
  commands,    \* commands so far
  failed       \* failures of fork so far

vars == <<sess, procs, fds, data, tasks, running, worker, redirect, stopping, quick, commands, failed>>
session == <<sess, procs, fds, data, tasks>>
threads == <<running, worker, redirect, stopping>>

Init ==
  /\ sess = [s \in Sessions |-> [status |-> "wait", pid |-> 0, next |-> "later", errors |-> 0, readFd |-> NoFd]]
  /\ procs = [p \in Pids |-> NoProcess]
  /\ fds = <<>> /\ data = {} /\ tasks = <<>>
  /\ running = TRUE /\ worker = "run" /\ stopping = "no"
  /\ redirect = [pc |-> "copy", map |-> <<>>, todo |-> {}, fd |-> NoFd, erase |-> {}]
  /\ quick = [s \in Sessions |-> FALSE] /\ commands = 0 /\ failed = 0

Without(f, ks) == Restrict(f, DOMAIN f \ ks)
\* A key that is there already keeps its value.
Emplaced(f, k, v) == [x \in DOMAIN f \cup {k} |-> IF x \in DOMAIN f THEN f[x] ELSE v]

-----------------------------------------------------------------------------
(* Sessions, under m_dataMutex *)

\* Mutant of ResetBootStatus: the descriptor stays open.
ResetKeepsFd(s) == tasks' = Without(tasks, {sess[s].readFd}) /\ UNCHANGED <<fds, data>>

\* What resetBootStatus does beside the session: it is not redirected any more
\* and its descriptor is closed. The redirect thread may look at readFd before it
\* is set to -1, but no other session opens a descriptor meanwhile: what it finds
\* is what it finds just before this step, and it reads just after it.
ResetBootStatus(s) ==
  /\ tasks' = Without(tasks, {sess[s].readFd})
  /\ fds' = Without(fds, {sess[s].readFd})
  /\ data' = data \ {sess[s].readFd}
Reset(s, status, next, errors) ==
  [sess EXCEPT ![s] = [status |-> status, pid |-> 0, next |-> next, errors |-> errors, readFd |-> NoFd]]

Free(pid) == [procs EXCEPT ![pid] = NoProcess]

\* Mutant of Errors: exits are not counted.
ErrorsNever(s, q) == 0
Errors(s, q) == IF q THEN sess[s].errors + 1 ELSE 0

\* Mutant of AfterExit: nextBootTime stays as resetBootStatus left it.
AfterExitUntimed(s, errors) == Reset(s, "wait", "never", errors)
AfterExit(s, errors) ==
  IF MaxErrors > 0 /\ errors >= MaxErrors THEN Reset(s, "fatal", "never", 0)
  ELSE IF s \in AutoRestart THEN Reset(s, "wait", "later", errors)
  ELSE Reset(s, "exited", "never", errors)

\* check of a session whose process has ended: waitpid reaps it.
CheckExit(s) ==
  /\ worker = "run" /\ sess[s].status = "running"
  /\ procs[sess[s].pid].state = "zombie"
  /\ procs' = Free(sess[s].pid)
  /\ ResetBootStatus(s)
  /\ \E q \in BOOLEAN :
       /\ quick' = [quick EXCEPT ![s] = q]
       /\ sess' = AfterExit(s, Errors(s, q))
  /\ UNCHANGED <<threads, commands, failed>>

Booted(s, pid, fd) == [sess EXCEPT ![s].status = "running", ![s].pid = pid, ![s].readFd = fd]

\* What fork returns: the new process, or 0 when there is none.
ForkResults == {Min({p \in Pids : procs[p].state = "free"})} \cup IF failed < MaxForkFails THEN {0} ELSE {}

\* pipe2: the lowest free descriptor, if there is one.
Pipe2 == LET free == (1 .. MaxFd) \ DOMAIN fds IN IF free = {} THEN NoFd ELSE Min(free)

\* exec when fork gives p, and setRunningStatus. When fork fails the pipe is kept
\* all the same, and when pipe2 fails readFd stays what it was.
Exec(s, p) ==
  LET fd == Pipe2
      readFd == IF fd = NoFd THEN sess[s].readFd ELSE fd
  IN /\ tasks' = IF fd = NoFd THEN tasks ELSE Emplaced(tasks, fd, s)
     /\ fds' = IF fd = NoFd THEN fds ELSE Emplaced(fds, fd, p)
     /\ procs' = [q \in Pids |-> IF q = p THEN [state |-> "alive", of |-> s] ELSE procs[q]]
     /\ failed' = IF p = 0 THEN failed + 1 ELSE failed
     /\ sess' = IF p = 0 THEN [sess EXCEPT ![s].next = "later", ![s].readFd = readFd]
                ELSE Booted(s, p, readFd)

\* check of a session that waits.
CheckBoot(s) ==
  /\ worker = "run" /\ sess[s].status = "wait" /\ sess[s].next = "now"
  /\ \E p \in Pids : procs[p].state = "free"
  /\ \E p \in ForkResults : Exec(s, p)
  /\ UNCHANGED <<data, threads, quick, commands>>

\* Mutant of Reaped: the process is sent the signal, and nobody waits for it.
ReapedLater(s) == {[procs EXCEPT ![sess[s].pid].state = "zombie"]}
\* releaseProcess: the process is killed and reaped, or given up.
Reaped(s) == {Free(sess[s].pid)} \cup IF Unkillable THEN {procs} ELSE {}

Command(s, status, next) ==
  /\ commands < MaxCommands /\ commands' = commands + 1
  /\ procs' \in IF sess[s].status = "running" THEN Reaped(s) ELSE {procs}
  /\ ResetBootStatus(s)
  /\ sess' = Reset(s, status, next, sess[s].errors)
  /\ UNCHANGED <<threads, quick, failed>>

StopTask(s) == Command(s, "exited", "never")
RestartTask(s) == Command(s, "wait", "now")
\* reloadTask: the configuration has autoStart, or it has not or cannot be read.
ReloadTask(s) == \/ \E next \in {"later", "now"} : Command(s, "wait", next)
                 \/ Command(s, "exited", "never")
StartTask(s) ==
  /\ commands < MaxCommands /\ commands' = commands + 1
  /\ sess[s].status # "running"
  /\ sess' = [sess EXCEPT ![s].status = "wait", ![s].next = "now"]
  /\ UNCHANGED <<procs, fds, data, tasks, threads, quick, failed>>

\* nextBootTime comes.
Elapse(s) ==
  /\ sess[s].status = "wait" /\ sess[s].next = "later"
  /\ sess' = [sess EXCEPT ![s].next = "now"]
  /\ UNCHANGED <<procs, fds, data, tasks, threads, quick, commands, failed>>

-----------------------------------------------------------------------------
(* stdoutRedirectThreadTask *)

RedirectVars == <<session, running, worker, stopping, quick, commands, failed>>

Copy ==
  /\ redirect.pc = "copy" /\ running
  /\ redirect' = [pc |-> "select", map |-> tasks, todo |-> {}, fd |-> NoFd, erase |-> {}]
  /\ UNCHANGED RedirectVars

\* A closed descriptor makes select fail; one is readable when there is
\* something to read or nobody left to write.
Readable(fd) == fd \in data \/ fds[fd] = 0 \/ procs[fds[fd]].state # "alive"
Select ==
  /\ redirect.pc = "select"
  /\ redirect' = IF DOMAIN redirect.map \subseteq DOMAIN fds
                 THEN [redirect EXCEPT !.pc = "check", !.todo = {fd \in DOMAIN redirect.map : Readable(fd)}]
                 ELSE [redirect EXCEPT !.pc = "copy", !.map = <<>>]
  /\ UNCHANGED RedirectVars

\* handleStdoutRedirectTask looks whether the session still has this
\* descriptor, and then reads it.
Check(fd) ==
  /\ redirect.pc = "check" /\ fd = Min(redirect.todo)
  /\ redirect' = IF sess[redirect.map[fd]].readFd = fd
                 THEN [redirect EXCEPT !.pc = "read", !.todo = @ \ {fd}, !.fd = fd]
                 ELSE [redirect EXCEPT !.todo = @ \ {fd}, !.erase = @ \cup {fd}]
  /\ UNCHANGED RedirectVars

\* All there is; a descriptor without anything is erased.
Read ==
  /\ redirect.pc = "read"
  /\ redirect' = [redirect EXCEPT !.pc = "check",
                    !.fd = NoFd, !.erase = IF redirect.fd \in data THEN @ ELSE @ \cup {redirect.fd}]
  /\ data' = data \ {redirect.fd}
  /\ UNCHANGED <<sess, procs, fds, tasks, running, worker, stopping, quick, commands, failed>>

EraseAll ==
  /\ redirect.pc = "check" /\ redirect.todo = {}
  /\ tasks' = Without(tasks, redirect.erase)
  /\ redirect' = [redirect EXCEPT !.pc = "copy", !.map = <<>>, !.erase = {}]
  /\ UNCHANGED <<sess, procs, fds, data, running, worker, stopping, quick, commands, failed>>

RedirectStep == Copy \/ Select \/ Read \/ EraseAll \/ \E fd \in redirect.todo : Check(fd)

-----------------------------------------------------------------------------
(* stop() *)

StopCall == /\ stopping = "no" /\ stopping' = "called" /\ running' = FALSE
            /\ UNCHANGED <<session, worker, redirect, quick, commands, failed>>
WorkerEnds == /\ worker = "run" /\ ~running /\ worker' = "ended"
              /\ UNCHANGED <<session, running, redirect, stopping, quick, commands, failed>>

RedirectSeesStop == ~running

RedirectEnds == /\ redirect.pc = "copy" /\ RedirectSeesStop
                /\ redirect' = [redirect EXCEPT !.pc = "ended"]
                /\ UNCHANGED RedirectVars
StopReturns == /\ stopping = "called" /\ worker = "ended" /\ redirect.pc = "ended"
               /\ stopping' = "returned"
               /\ UNCHANGED <<session, running, worker, redirect, quick, commands, failed>>

-----------------------------------------------------------------------------
(* Processes *)

\* A process writes; with a full pipe it waits.
Write(fd) == /\ fd \in DOMAIN fds \ data /\ fds[fd] # 0 /\ procs[fds[fd]].state = "alive"
             /\ data' = data \cup {fd}
             /\ UNCHANGED <<sess, procs, fds, tasks, threads, quick, commands, failed>>
Exit(p) == /\ procs[p].state = "alive"
           /\ procs' = [procs EXCEPT ![p].state = "zombie"]
           /\ UNCHANGED <<sess, fds, data, tasks, threads, quick, commands, failed>>

SessionStep(s) == CheckExit(s) \/ CheckBoot(s)
Next == \/ \E s \in Sessions : \/ SessionStep(s) \/ Elapse(s)
                               \/ StopTask(s) \/ RestartTask(s) \/ ReloadTask(s) \/ StartTask(s)
        \/ RedirectStep \/ RedirectEnds
        \/ StopCall \/ WorkerEnds \/ StopReturns
        \/ \E fd \in 1 .. MaxFd : Write(fd)
        \/ \E p \in Pids : Exit(p)

\* The threads run and time passes. A process need not write or exit.
Spec == /\ Init /\ [][Next]_vars
        /\ \A s \in Sessions : WF_vars(SessionStep(s)) /\ WF_vars(Elapse(s))
        /\ WF_vars(RedirectStep) /\ WF_vars(RedirectEnds)
        /\ WF_vars(WorkerEnds) /\ WF_vars(StopReturns)

-----------------------------------------------------------------------------
(* Properties *)

\* A session has at most the one process it knows: whatever commands come, no
\* process is left running or unreaped behind its back, to be started twice.
ProcessesOwned ==
  /\ \A p \in Pids : procs[p].state # "free" =>
       sess[procs[p].of].status = "running" /\ sess[procs[p].of].pid = p
  /\ \A s \in Sessions : sess[s].status = "running" =>
       procs[sess[s].pid].state # "free" /\ procs[sess[s].pid].of = s

\* A descriptor that a session has is open, and no other session has it; the
\* pipe of a process is the one of its session as long as it is open, so that no
\* restart leaks it; and what is redirected is open, and a process's output goes to
\* its session, although the redirect thread erases by descriptor. (What leaks is
\* the pipe of a fork that failed, which nobody writes to.)
PipesHeld ==
  /\ \A s \in Sessions : sess[s].readFd # NoFd => sess[s].readFd \in DOMAIN fds
  /\ \A s, t \in Sessions : sess[s].readFd = sess[t].readFd => s = t \/ sess[s].readFd = NoFd
  /\ \A fd \in DOMAIN fds : fds[fd] # 0 =>
       \E s \in Sessions : sess[s].readFd = fd /\ sess[s].status = "running" /\ sess[s].pid = fds[fd]
  /\ \A fd \in DOMAIN tasks :
       fd \in DOMAIN fds /\ (fds[fd] # 0 => sess[tasks[fd]].readFd = fd)

\* A session with autoRestart whose process has ended runs again, unless it is
\* a fatal error, somebody stops it, or the worker stops.
CrashedRestarts ==
  \A s \in AutoRestart :
    (sess[s].status = "running" /\ procs[sess[s].pid].state = "zombie")
      ~> \/ sess[s].status = "running" /\ procs[sess[s].pid].state = "alive"
         \/ sess[s].status \in {"fatal", "exited"}
         \/ ~running

\* A program that fails right after its start is not started for ever: a
\* session is restarted finitely often, or some of its runs were long enough,
\* as long as the worker runs.
CrashLoopEnds ==
  \A s \in Sessions :
    \/ <>(~running)
    \/ <>[](sess[s].status # "running" \/ procs[sess[s].pid].state # "zombie")
    \/ []<>(~quick[s])

=============================================================================
