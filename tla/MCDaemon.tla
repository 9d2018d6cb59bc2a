------------------------------ MODULE MCDaemon ------------------------------
(* Two sessions, so that a descriptor that one of them closes is opened     *)
(* again by the other.                                                      *)
EXTENDS Daemon

\* What a process writes is redirected as long as it runs. It does not hold
\* (see README): eraseSet names a descriptor that was closed
\* and opened again since it was found at its end.
OutputRedirected == \A s \in Sessions :
  sess[s].status = "running" /\ procs[sess[s].pid].state = "alive"
    => sess[s].readFd \in DOMAIN tasks

\* The redirect thread reads the descriptor that the session has. It does not
\* hold either: readFd is looked at and the descriptor read in two steps, without
\* m_dataMutex.
ReadsOwn == redirect.pc = "read" => sess[redirect.map[redirect.fd]].readFd = redirect.fd
=============================================================================
