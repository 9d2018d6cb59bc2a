----------------------------- MODULE TcpServer -----------------------------
(***************************************************************************)
(* imp/network: ITcpServer (itcp-server.cpp) with the channels of its      *)
(* scheduler (core/epoll-task-scheduler.cpp, core/io-channel.cpp) and the  *)
(* TcpConnectionManager that the handler of its signals adds connections   *)
(* to, all on one scheduler. What they do in one callback, the calls of    *)
(* the handler included, is one step; what goes through epoll, a timer or  *)
(* an event queue is not. Descriptors are reused: socket() and accept()    *)
(* return the lowest one that is free.                                     *)
(*                                                                         *)
(* Every socket ever opened has a number, its place in state.sock; the     *)
(* number also names its ConnectionTask and its TcpConnection.             *)
(***************************************************************************)
EXTENDS Naturals, Sequences, FiniteSets, FiniteSetsExt, Functions

CONSTANTS MaxFd,        \* descriptors are 1 .. MaxFd
          MaxSocks,     \* bound on the sockets opened
          TokenMax,     \* largest value of a token
          MaxTries,     \* 1000 in the code: tries to find a token
          Tries,        \* the tokens tried from a first one on (see FindToken)
          TimeoutOps,   \* what the handler may do when a connect timed out,
          IoOps,        \* when it failed or succeeded, and
          CancelOps     \* when it was cancelled: "none", "connect", "cancelAll"

Fds == 1 .. MaxFd
Tokens == 1 .. TokenMax
HandlerOps == {"none", "connect", "cancelAll"}
ASSUME TcpAssumption == /\ {MaxFd, MaxSocks, TokenMax, MaxTries} \subseteq Nat \ {0}
                        /\ Tries \in [Tokens -> [1 .. MaxTries + 1 -> 0 .. TokenMax]]
                        /\ \A first \in Tokens, i \in 1 .. MaxTries : Tries[first][i] # 0
                        /\ TimeoutOps \cup IoOps \cup CancelOps \subseteq HandlerOps

VARIABLES
  state,        \* what callbacks change, a record of tables; 0 is no entry:
                \*   conns       connections_map: fd -> task
                \*   directory   token_directory: token -> fd
                \*   nextToken   next_token
                \*   listening   server_channel_list: a set of descriptors
                \*   timers      timerEventsMap: the tasks with a timer,
                \*   expired     and those whose time has come
                \*   channels    channelsMap: fd -> [kind, n] or NoChannel
                \*   interest    the epoll set: fd -> kind of channel or "none" (external)
                \*   owner       open descriptors: fd -> socket (external)
                \*   opened      the number of sockets opened so far
                \*   sock        sockets: [status, fd, token, by, notes]
                \*   manager     connetions: fd -> TcpConnection
  due,          \* timeoutQueue of handleTimerEvent
  scheduled,    \* the server is in execSubObjectSet of the scheduler
  visited,      \* and has been visited in this round
  phase,        \* "events", "timers", "io"
  batch,        \* events that epoll_wait returned: [fd, ev]
  calls,        \* queue of a TcpConnection: Seq({"recv", "close"})
  removals,     \* queue of the manager: descriptors to remove
  backlog       \* connections to accept (external)

vars == <<state, due, scheduled, visited, phase, batch, calls, removals, backlog>>
loopVars == <<due, scheduled, visited, phase, batch>>

NoChannel == [kind |-> "none", n |-> 0]
NoSocket == [status |-> "closed", fd |-> 0, token |-> 0, by |-> "none", notes |-> <<>>]

Init ==
  /\ state = [conns |-> [fd \in Fds |-> 0], directory |-> [t \in Tokens |-> 0], nextToken |-> 0,
              listening |-> {}, timers |-> {}, expired |-> {},
              channels |-> [fd \in Fds |-> NoChannel], interest |-> [fd \in Fds |-> "none"],
              owner |-> [fd \in Fds |-> 0], opened |-> 0,
              sock |-> [n \in 1 .. MaxSocks |-> NoSocket], manager |-> [fd \in Fds |-> 0]]
  /\ due = {} /\ scheduled = FALSE /\ visited = FALSE
  /\ phase = "events" /\ batch = {}
  /\ calls = [n \in 1 .. MaxSocks |-> <<>>] /\ removals = <<>> /\ backlog = 0

\* emplace keeps the entry there is. Several entries are erased at once.
Emplace(f, k, v) == IF f[k] = 0 THEN [f EXCEPT ![k] = v] ELSE f
Erase(f, K, none) == [k \in DOMAIN f |-> IF k \in K THEN none ELSE f[k]]
Keys(f) == {k \in DOMAIN f : f[k] # 0}

-----------------------------------------------------------------------------
(* Descriptors and channels *)

FreeFds(s) == Fds \ Keys(s.owner)
Opened(s, status, token, by) ==
  LET fd == Min(FreeFds(s))
      n == s.opened + 1
  IN [s EXCEPT !.owner[fd] = n, !.opened = n,
               !.sock[n] = [status |-> status, fd |-> fd, token |-> token, by |-> by,
                            notes |-> <<>>]]

\* close_socket. The kernel takes a closed descriptor out of the epoll set.
CloseFds(s, F) ==
  [s EXCEPT !.owner = Erase(@, F, 0), !.interest = Erase(@, F, "none"),
            !.sock = [n \in DOMAIN s.sock |->
                        IF \E fd \in F : s.owner[fd] = n
                        THEN [s.sock[n] EXCEPT !.status = "closed"] ELSE s.sock[n]]]

\* updateChannel for a channel with events. With an entry for this fd it only
\* asks for EPOLL_CTL_MOD, which fails for a descriptor that is not in the set.
UpdateChannel(s, fd, kind, n) ==
  IF s.channels[fd] # NoChannel
  THEN [s EXCEPT !.interest[fd] = IF @ = "none" THEN @ ELSE kind]
  ELSE [s EXCEPT !.channels[fd] = [kind |-> kind, n |-> n],
                 !.interest[fd] = IF @ = "none" THEN kind ELSE @]

\* Mutant of RemoveChannels: the entries stay in channelsMap.
RemoveInterest(s, F) == [s EXCEPT !.interest = Erase(@, F, "none")]

\* IoChannel::stop, removeChannel
RemoveChannels(s, F) ==
  LET known == {fd \in F : s.channels[fd] # NoChannel}
  IN [s EXCEPT !.channels = Erase(@, known, NoChannel), !.interest = Erase(@, known, "none")]

-----------------------------------------------------------------------------
(* Connections that are established: what the handler does with a descriptor *)

\* A TcpConnection is made and given to addConnection. The manager refuses it
\* when it has one with this descriptor, and it is destroyed.
Adopt(s, fd, n) ==
  IF s.manager[fd] # 0 THEN CloseFds(RemoveChannels(s, {fd}), {fd})
  ELSE [UpdateChannel(s, fd, "conn", n) EXCEPT !.manager[fd] = n]

\* removeConnection and ~TcpConnection, for several descriptors
RemoveConnections(s, F) ==
  LET known == F \cap Keys(s.manager)
  IN [CloseFds(RemoveChannels(s, known), known) EXCEPT !.manager = Erase(@, known, 0)]

-----------------------------------------------------------------------------
(* activeConnect and its end *)

\* The loop that looks for a token: MaxTries of them from next_token on, 0 left
\* out. The code goes on by 1 at first, then by 100, 200 and at last by a random
\* number: Tries[first] lists what it meets. The last try does not count: its
\* token is refused. When all are taken, max_try_times has wrapped and the token
\* after the last is used unseen.
FindToken(s) ==
  LET try == Tries[IF s.nextToken = 0 THEN 1 ELSE s.nextToken]
      free == {i \in 1 .. MaxTries : try[i] \notin Keys(s.directory)}
  IN IF free = {} THEN try[MaxTries + 1]
     ELSE IF Min(free) = MaxTries THEN 0 ELSE try[Min(free)]

\* The bound on sockets, those that wait to be accepted included.
MayOpen(s) == s.opened + backlog < MaxSocks

ActiveConnect(s, by) ==
  LET token == FindToken(s)
      n == s.opened + 1
      o == Opened(s, "connecting", token, by)
      fd == o.sock[n].fd
  IN IF token = 0 \/ FreeFds(s) = {} \/ ~MayOpen(s) THEN s
     ELSE [UpdateChannel(o, fd, "task", n) EXCEPT
             !.timers = @ \cup {n},
             !.nextToken = (token + 1) % (TokenMax + 1),
             !.conns = Emplace(@, fd, n),
             !.directory = Emplace(@, token, fd)]

\* What the handler is told of the tasks N.
Noted(s, N, result) ==
  [s EXCEPT !.sock = [n \in DOMAIN s.sock |->
                        IF n \in N THEN [s.sock[n] EXCEPT !.notes = Append(@, result)]
                        ELSE s.sock[n]]]

\* The timers of the tasks N are released.
ReleaseTimers(s, N) == [s EXCEPT !.timers = @ \ N, !.expired = @ \ N]

\* Tasks end without an answer: timer, channel and descriptor go, the handler
\* is told.
EndTasks(s, F) ==
  LET N == {s.conns[fd] : fd \in F}
  IN Noted(CloseFds(RemoveChannels(ReleaseTimers(s, N), F), F), N, "cancel")

\* Mutant of Cancel: the timer goes on.
CancelKeepsTimer(s, T) ==
  LET F == {s.directory[t] : t \in T} \cap Keys(s.conns)
  IN [EndTasks(s, F) EXCEPT !.timers = s.timers, !.expired = s.expired,
                            !.conns = Erase(@, F, 0), !.directory = Erase(@, T, 0)]

\* cancelActiveConnecttion, for several tokens
Cancel(s, T) ==
  LET F == {s.directory[t] : t \in T} \cap Keys(s.conns)
  IN [EndTasks(s, F) EXCEPT !.conns = Erase(@, F, 0), !.directory = Erase(@, T, 0)]

\* What the handler calls before it returns.
Handler(s, op, by) ==
  IF op = "connect" THEN ActiveConnect(s, by)
  ELSE IF op = "cancelAll" THEN Cancel(s, Tokens)
  ELSE s

\* stopAll: every task ends, the last handler may connect again, and what it
\* added to connections_map is cleared.
StopAll(s, op) ==
  LET unlisten == [CloseFds(RemoveChannels(s, s.listening), s.listening) EXCEPT !.listening = {}]
      tokens == {s.sock[s.conns[fd]].token : fd \in Keys(s.conns)}
      stopped == [EndTasks(unlisten, Keys(s.conns)) EXCEPT !.directory = Erase(@, tokens, 0)]
      told == IF Keys(s.conns) = {} THEN stopped ELSE Handler(stopped, op, "visit")
  IN [told EXCEPT !.conns = Erase(@, Fds, 0)]

\* Mutant of ReleaseTask: the task stays in connections_map.
ReleaseTaskKeeps(s, n) ==
  [RemoveChannels(ReleaseTimers(s, {n}), {s.sock[n].fd}) EXCEPT
     !.directory = Erase(@, {s.sock[n].token}, 0)]

\* release_task
ReleaseTask(s, n) ==
  [RemoveChannels(ReleaseTimers(s, {n}), {s.sock[n].fd}) EXCEPT
     !.conns = Erase(@, {s.sock[n].fd}, 0),
     !.directory = Erase(@, {s.sock[n].token}, 0)]

\* The callback of the timer: the handler is told first.
TimedOut(s, n, op) ==
  CloseFds(ReleaseTask(Handler(Noted(s, {n}, "fail"), op, "visit"), n), {s.sock[n].fd})

\* The callback of writeReady
Connected(s, n, op) ==
  Handler(Adopt(Noted(ReleaseTask(s, n), {n}, "ok"), s.sock[n].fd, n), op, "io")

\* Mutant of Failed: the descriptor is not closed.
FailedLeaks(s, n, op) == Handler(Noted(ReleaseTask(s, n), {n}, "fail"), op, "io")

\* The callbacks of errorEvent and closeEvent
Failed(s, n, op) ==
  Handler(Noted(CloseFds(ReleaseTask(s, n), {s.sock[n].fd}), {n}, "fail"), op, "io")

-----------------------------------------------------------------------------
(* One round of the scheduler: the events of the server, of the connections  *)
(* and of the manager, the timers of the server, and then the channels.      *)

\* Calls of other threads run when the server's queue is handled; its timers
\* are next.
Call(s) == /\ phase = "events" /\ ~visited
           /\ state' = s
           /\ scheduled' = TRUE
           /\ UNCHANGED <<due, visited, phase, batch, calls, removals, backlog>>

CallConnect == MayOpen(state) /\ Call(ActiveConnect(state, "visit"))
CallCancel(token) == Call(Cancel(state, {token}))
CallStopAll == \E op \in CancelOps : Call(StopAll(state, op))
CallStartListen ==
  /\ state.listening = {} /\ FreeFds(state) # {} /\ MayOpen(state)
  /\ LET o == Opened(state, "listen", 0, "visit")
         fd == o.sock[o.opened].fd
     IN Call([UpdateChannel(o, fd, "listen", o.opened) EXCEPT !.listening = {fd}])

HandleTimers ==
  /\ phase = "events" /\ scheduled /\ ~visited
  /\ due' = state.expired
  /\ state' = ReleaseTimers(state, state.expired)
  /\ phase' = "timers"
  /\ UNCHANGED <<scheduled, visited, batch, calls, removals, backlog>>

TimerCallback(n) ==
  /\ phase = "timers" /\ n \in due
  /\ \E op \in TimeoutOps : state' = TimedOut(state, n, op)
  /\ due' = due \ {n}
  /\ UNCHANGED <<scheduled, visited, phase, batch, calls, removals, backlog>>

\* Mutant of Rescheduled: only events keep the server scheduled.
RescheduledByEvents == FALSE
\* handleEvent keeps an object with timers in its parent's set.
Rescheduled == state.timers # {}

EndTimers ==
  /\ phase = "timers" /\ due = {}
  /\ scheduled' = Rescheduled /\ visited' = TRUE /\ phase' = "events"
  /\ UNCHANGED <<state, due, batch, calls, removals, backlog>>

\* A TcpConnection handles its events: on_recv calls on_close when the peer has
\* closed, hand_close and hand_error always do. on_close stops the channel and
\* emits disconnected, for which the manager removes the connection.
Closing(n) == IF state.sock[n].status \in {"eof", "reset"} THEN calls[n]
              ELSE SelectSeq(calls[n], LAMBDA c : c = "close")

VisitConnection(n) ==
  /\ phase = "events" /\ calls[n] # <<>>
  /\ calls' = [calls EXCEPT ![n] = <<>>]
  /\ state' = IF Closing(n) = <<>> THEN state ELSE RemoveChannels(state, {state.sock[n].fd})
  /\ removals' = removals \o [i \in 1 .. Len(Closing(n)) |-> state.sock[n].fd]
  /\ UNCHANGED <<loopVars, backlog>>

\* Mutant of VisitManager: one event is handled in a visit.
VisitManagerOnce ==
  /\ phase = "events" /\ removals # <<>>
  /\ state' = RemoveConnections(state, {Head(removals)})
  /\ removals' = Tail(removals)
  /\ UNCHANGED <<loopVars, calls, backlog>>

VisitManager ==
  /\ phase = "events" /\ removals # <<>>
  /\ state' = RemoveConnections(state, Range(removals))
  /\ removals' = <<>>
  /\ UNCHANGED <<loopVars, calls, backlog>>

\* What epoll reports for a descriptor of its set.
ReadyEvents(fd) ==
  LET status == state.sock[state.owner[fd]].status
      kind == state.interest[fd]
  IN IF kind = "listen" THEN IF backlog > 0 THEN {"in"} ELSE {}
     ELSE IF status = "failed" THEN {"hup"}
     ELSE IF kind = "task" THEN IF status = "connecting" THEN {}
                                ELSE IF status = "reset" THEN {"hup"} ELSE {"out"}
     ELSE IF status = "eof" THEN {"in"} ELSE IF status = "reset" THEN {"inhup"} ELSE {}

\* epoll_wait
Poll ==
  /\ phase = "events" /\ (scheduled => visited)
  /\ \A n \in DOMAIN calls : calls[n] = <<>>
  /\ batch' = {e \in [fd : Fds, ev : {"in", "out", "hup", "inhup"}] :
                 state.interest[e.fd] # "none" /\ e.ev \in ReadyEvents(e.fd)}
  /\ phase' = "io"
  /\ UNCHANGED <<state, due, scheduled, visited, calls, removals, backlog>>

\* on_accept. A failed accept is reported as descriptor -1, which the manager
\* refuses.
Accept ==
  IF backlog = 0 \/ FreeFds(state) = {} THEN UNCHANGED <<state, backlog>>
  ELSE LET o == Opened(state, "connected", 0, "io")
           n == o.opened
       IN state' = Adopt(o, o.sock[n].fd, n) /\ backlog' = backlog - 1

\* handleIoEvent looks at EVENT_HUP before EVENT_OUT; a connect that failed is
\* reported as both.
Hangup(ev) == ev \in {"hup", "inhup"}

\* handleNetworkEvent looks the channel up by its descriptor; handleIoEvent.
IoCallback(e) ==
  /\ phase = "io" /\ e \in batch
  /\ batch' = batch \ {e}
  /\ LET ch == state.channels[e.fd]
     IN IF ch = NoChannel THEN UNCHANGED <<state, calls, backlog>>
        ELSE \/ ch.kind = "listen" /\ e.ev = "in" /\ Accept /\ UNCHANGED calls
             \/ ch.kind = "listen" /\ e.ev # "in" /\ UNCHANGED <<state, calls, backlog>>
             \/ /\ ch.kind = "task" /\ UNCHANGED <<calls, backlog>>
                /\ \E op \in IoOps :
                     state' = IF Hangup(e.ev) THEN Failed(state, ch.n, op)
                              ELSE IF e.ev \in {"out", "hup"} THEN Connected(state, ch.n, op)
                              ELSE state
             \/ /\ ch.kind = "conn" /\ UNCHANGED <<state, backlog>>
                /\ calls' = [calls EXCEPT ![ch.n] = @ \o (IF e.ev = "in" THEN <<"recv">>
                                                          ELSE IF e.ev = "hup" THEN <<"close">>
                                                          ELSE IF e.ev = "inhup" THEN <<"recv", "close">>
                                                          ELSE <<>>)]
  /\ UNCHANGED <<due, scheduled, visited, phase, removals>>

EndRound ==
  /\ phase = "io" /\ batch = {}
  /\ phase' = "events" /\ visited' = FALSE
  /\ UNCHANGED <<state, due, scheduled, batch, calls, removals, backlog>>

-----------------------------------------------------------------------------
(* Time, the network and the peers. They are seen by the next HandleTimers,  *)
(* VisitConnection or Poll, and step before these only.                      *)

Expire(n) == /\ phase = "events" /\ ~visited
             /\ n \in state.timers \ state.expired
             /\ state' = [state EXCEPT !.expired = @ \cup {n}]
             /\ UNCHANGED <<loopVars, calls, removals, backlog>>

NetworkStep(n, status) ==
  /\ phase = "events"
  /\ \/ state.sock[n].status = "connecting" /\ status \in {"connected", "failed"}
     \/ state.sock[n].status = "connected" /\ status \in {"eof", "reset"}
  /\ n \in Range(state.owner)
  /\ state' = [state EXCEPT !.sock[n].status = status]
  /\ UNCHANGED <<loopVars, calls, removals, backlog>>

PeerConnects == /\ phase = "events" /\ state.listening # {} /\ MayOpen(state)
                /\ backlog' = backlog + 1
                /\ UNCHANGED <<state, loopVars, calls, removals>>

Socks == 1 .. state.opened
VisitConnections == \E n \in Socks : VisitConnection(n)
TimerCallbacks == \E n \in Socks : TimerCallback(n)
Expiry == \E n \in Socks : Expire(n)
IoCallbacks == \E e \in batch : IoCallback(e)

Next == \/ CallConnect \/ CallStopAll \/ CallStartListen
        \/ \E token \in Tokens : CallCancel(token)
        \/ HandleTimers \/ TimerCallbacks \/ EndTimers
        \/ VisitConnections \/ VisitManager
        \/ Poll \/ IoCallbacks \/ EndRound
        \/ Expiry
        \/ \E n \in Socks, status \in {"connected", "failed", "eof", "reset"} : NetworkStep(n, status)
        \/ PeerConnects

\* The scheduler runs and time passes: a queued removal is handled in one of
\* the next rounds, a timer expires before one of them. Neither the network
\* nor a peer has to answer, and nobody has to call.
Spec == /\ Init /\ [][Next]_vars
        /\ WF_vars(HandleTimers) /\ WF_vars(TimerCallbacks) /\ WF_vars(EndTimers)
        /\ WF_vars(VisitConnections) /\ SF_vars(VisitManager)
        /\ WF_vars(Poll) /\ WF_vars(IoCallbacks) /\ WF_vars(EndRound)
        /\ SF_vars(Expiry)

-----------------------------------------------------------------------------
(* Properties *)

\* A connect is reported once: whatever ends it, timeout, failure, success,
\* cancel or stopAll, leaves nothing behind that would report it again.
NotifiedOnce == \A n \in Socks : Len(state.sock[n].notes) <= 1

\* connections_map, token_directory, the timers and the descriptors name the
\* same tasks.
MapsAgree ==
  /\ \A fd \in Keys(state.conns) :
       LET n == state.conns[fd]
       IN /\ state.owner[fd] = n
          /\ state.sock[n].token # 0 /\ state.directory[state.sock[n].token] = fd
          /\ n \in state.timers \cup due
  /\ \A token \in Keys(state.directory) : state.directory[token] \in Keys(state.conns)
  /\ state.timers \subseteq Range(state.conns)

\* An entry of channelsMap belongs to the socket that has the descriptor now
\* and is in the epoll set: no updateChannel finds the entry of a former one.
ChannelsAreCurrent ==
  \A fd \in Fds :
    IF state.channels[fd] = NoChannel THEN state.interest[fd] = "none"
    ELSE /\ state.interest[fd] # "none"
         /\ fd \in Keys(state.owner) /\ state.owner[fd] = state.channels[fd].n

\* Every open descriptor is held by exactly one of the server's sockets, the
\* tasks and the manager: none is leaked, and none is closed by two.
DescriptorsHeld ==
  /\ Keys(state.owner) = state.listening \cup Keys(state.conns) \cup Keys(state.manager)
  /\ Keys(state.conns) \cap Keys(state.manager) = {}
  /\ state.listening \cap (Keys(state.conns) \cup Keys(state.manager)) = {}
  /\ \A fd \in Keys(state.manager) : state.owner[fd] = state.manager[fd]

\* The manager drops a connection only when its peer has closed it: disconnected
\* may be emitted twice for one connection, and the second removeConnection must
\* not meet a new connection with the same descriptor.
ConnectionsKept ==
  [][\A n \in Range(state.manager) \ (Range(state'.manager) \cup {0}) :
       state.sock[n].status \in {"eof", "reset"}]_vars

\* A connect that was started in a visit of the server is reported, even when
\* the network never answers.
ConnectEnds ==
  \A n \in 1 .. MaxSocks :
    (n \in Socks /\ state.sock[n].token # 0 /\ state.sock[n].by = "visit")
      ~> (n \in Socks /\ state.sock[n].notes # <<>>)

=============================================================================
