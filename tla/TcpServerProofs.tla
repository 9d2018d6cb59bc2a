-------------------------- MODULE TcpServerProofs --------------------------
(***************************************************************************)
(* The tables of the server, of its scheduler and of the manager agree     *)
(* whatever ends a connect, for any number of descriptors, sockets and     *)
(* tokens: a connect is reported once, a channel belongs to the socket its *)
(* descriptor is, and no descriptor is leaked, closed twice or taken from  *)
(* an open connection.                                                     *)
(***************************************************************************)
EXTENDS TcpServer, FiniteSetTheorems, NaturalsInduction, WellFoundedInduction, TLAPS

\* What the handler may do. In a callback of a timer it cancels nothing: a task
\* it cancels may be in the same timeoutQueue. When stopAll tells it of a task,
\* it connects to nothing: connections_map is cleared after that.
GentleHandler == /\ TimeoutOps \subseteq {"none", "connect"}
                 /\ CancelOps \subseteq {"none", "cancelAll"}

\* In a callback of a channel it cancels nothing either: a descriptor that it
\* closes and opens again may have an event in the same batch.
GentleInIo == IoOps \subseteq {"none", "connect"}

\* 1000 tries by steps of 200 at most do not come round 2^32 tokens: they are
\* different, and there are as many as descriptors.
TokensSuffice ==
  /\ MaxFd <= MaxTries
  /\ \A first \in Tokens : \A i, j \in 1 .. MaxTries : Tries[first][i] = Tries[first][j] => i = j

-----------------------------------------------------------------------------
(* The invariant of the tables, for a state s that a callback may be in the  *)
(* middle of: D are the tasks whose timer was taken for timeoutQueue, R those *)
(* that are reported and not released yet.                                   *)

Sockets == 1 .. MaxSocks
Kinds == {"none", "listen", "task", "conn"}
Statuses == {"closed", "listen", "connecting", "connected", "failed", "eof", "reset"}
Results == {"ok", "fail", "cancel"}
Socket == [status : Statuses, fd : 0 .. MaxFd, token : 0 .. TokenMax,
           by : {"none", "visit", "io"}, notes : Seq(Results)]
Channel == [kind : Kinds, n : 0 .. MaxSocks]
Tables == [conns : [Fds -> 0 .. MaxSocks], directory : [Tokens -> 0 .. MaxFd],
           nextToken : 0 .. TokenMax, listening : SUBSET Fds,
           timers : SUBSET Sockets, expired : SUBSET Sockets,
           channels : [Fds -> Channel], interest : [Fds -> Kinds],
           owner : [Fds -> 0 .. MaxSocks], opened : 0 .. MaxSocks,
           sock : [Sockets -> Socket], manager : [Fds -> 0 .. MaxSocks]]

\* A descriptor and the socket it is.
OwnersKnown(s) ==
  \A fd \in Fds : s.owner[fd] # 0 => s.owner[fd] <= s.opened /\ s.sock[s.owner[fd]].fd = fd

\* A task in connections_map
TasksKnown(s, D, R) ==
  \A fd \in Fds : s.conns[fd] # 0 =>
    /\ s.owner[fd] = s.conns[fd]
    /\ s.sock[s.conns[fd]].token \in Tokens
    /\ s.directory[s.sock[s.conns[fd]].token] = fd
    /\ s.conns[fd] \in s.timers \cup D
    /\ s.conns[fd] \notin R => s.sock[s.conns[fd]].notes = <<>>

TokensKnown(s) ==
  \A t \in Tokens : s.directory[t] # 0 =>
    s.conns[s.directory[t]] # 0 /\ s.sock[s.conns[s.directory[t]]].token = t

TimersKnown(s, D) ==
  /\ s.expired \subseteq s.timers
  /\ \A n \in s.timers \cup D : s.sock[n].fd \in Fds /\ s.conns[s.sock[n].fd] = n

ChannelsKnown(s) ==
  \A fd \in Fds :
    /\ s.channels[fd] = NoChannel => s.interest[fd] = "none"
    /\ s.channels[fd] # NoChannel =>
         /\ s.interest[fd] = s.channels[fd].kind /\ s.interest[fd] # "none"
         /\ s.owner[fd] # 0 /\ s.channels[fd].n = s.owner[fd]
         /\ s.channels[fd].kind = "task" => s.conns[fd] = s.owner[fd]
         /\ s.channels[fd].kind = "conn" => s.manager[fd] = s.owner[fd]

HeldOnce(s) ==
  \A fd \in Fds :
    /\ s.owner[fd] # 0 <=> (fd \in s.listening \/ s.conns[fd] # 0 \/ s.manager[fd] # 0)
    /\ ~(s.conns[fd] # 0 /\ s.manager[fd] # 0)
    /\ fd \in s.listening => s.conns[fd] = 0 /\ s.manager[fd] = 0
    /\ s.manager[fd] # 0 => s.manager[fd] = s.owner[fd]

ToldOnce(s) == \A n \in Sockets : Len(s.sock[n].notes) <= 1

TablesAgree(s, D, R) ==
  /\ s \in Tables /\ OwnersKnown(s) /\ TasksKnown(s, D, R) /\ TokensKnown(s)
  /\ TimersKnown(s, D) /\ ChannelsKnown(s) /\ HeldOnce(s) /\ ToldOnce(s)

TcpInv ==
  /\ due \subseteq Sockets /\ (due # {} => phase = "timers")
  /\ backlog \in Nat /\ state.opened + backlog <= MaxSocks
  /\ batch \subseteq [fd : Fds, ev : {"in", "out", "hup", "inhup"}]
  /\ TablesAgree(state, due, {})

-----------------------------------------------------------------------------
(* The invariant of the connections that are about to be removed             *)

Status(s, fd) == s.sock[s.owner[fd]].status
Over == {"eof", "reset"}

\* A connection of the manager was established, and a task has begun to be.
StatusKnown(s) ==
  \A fd \in Fds :
    /\ s.conns[fd] # 0 => Status(s, fd) \in {"connecting", "connected", "failed"} \cup Over
    /\ s.manager[fd] # 0 => Status(s, fd) \in {"connected"} \cup Over

\* A descriptor to remove is one of a connection that is over, and has no channel.
RemovalsKnown ==
  /\ removals \in Seq(Fds)
  /\ \A fd \in Range(removals) :
       state.manager[fd] # 0 /\ Status(state, fd) \in Over /\ state.channels[fd] = NoChannel

\* A connection with events is over, and its channel is not removed yet.
CallsKnown ==
  /\ calls \in [Sockets -> Seq({"recv", "close"})]
  /\ \A n \in Sockets : calls[n] # <<>> =>
       /\ state.sock[n].fd \in Fds /\ state.channels[state.sock[n].fd] = [kind |-> "conn", n |-> n]
       /\ state.sock[n].status \in Over

\* epoll_wait reports a descriptor once, and none that is closed before its
\* event is handled.
BatchKnown ==
  /\ phase # "io" => batch = {}
  /\ \A e1, e2 \in batch : e1.fd = e2.fd => e1 = e2
  /\ \A e \in batch :
       /\ state.owner[e.fd] # 0
       /\ state.channels[e.fd].kind = "conn" => Status(state, e.fd) \in Over
       /\ (state.channels[e.fd].kind = "task" /\ ~Hangup(e.ev)) =>
            Status(state, e.fd) \in {"connected"} \cup Over

KeepInv == StatusKnown(state) /\ RemovalsKnown /\ CallsKnown /\ BatchKnown

-----------------------------------------------------------------------------
(* Helpers *)

\* A nonempty set of numbers has a least one.
LEMMA LeastInSet == ASSUME NEW S, S \subseteq Nat, S # {} PROVE Min(S) \in S
<1> DEFINE R == {p \in Nat \X Nat : p[1] < p[2]}
<1>1. IsWellFoundedOn(R, Nat)
  BY NatLessThanWellFounded DEF OpToRel
<1>2. PICK i \in S : \A j \in S : ~(<<j, i>> \in R)
  BY <1>1, WFMin
<1>3. ASSUME NEW j \in S PROVE i <= j
  <2>1. i \in Nat /\ j \in Nat /\ ~(j < i)
    BY <1>2
  <2> QED BY <2>1
<1> QED BY <1>3 DEF Min

-----------------------------------------------------------------------------
(* What the operations do to the tables: each is a relation of the tables    *)
(* before and after it, entry by entry.                                      *)

\* Descriptors F are closed.
IsClosed(s, t, F) ==
  /\ t.conns = s.conns /\ t.directory = s.directory /\ t.nextToken = s.nextToken
  /\ t.listening = s.listening /\ t.timers = s.timers /\ t.expired = s.expired
  /\ t.channels = s.channels /\ t.opened = s.opened /\ t.manager = s.manager
  /\ \A fd \in Fds : /\ t.owner[fd] = IF fd \in F THEN 0 ELSE s.owner[fd]
                     /\ t.interest[fd] = IF fd \in F THEN "none" ELSE s.interest[fd]
  /\ \A n \in Sockets :
       /\ t.sock[n].fd = s.sock[n].fd /\ t.sock[n].token = s.sock[n].token
       /\ t.sock[n].notes = s.sock[n].notes
       /\ ~(\E fd \in F : s.owner[fd] = n) => t.sock[n] = s.sock[n]

\* close_socket
LEMMA CloseShape ==
  ASSUME NEW s \in Tables, NEW F
  PROVE  CloseFds(s, F) \in Tables /\ IsClosed(s, CloseFds(s, F), F)
<1> DEFINE t == CloseFds(s, F)
           ow == Erase(s.owner, F, 0)
           it == Erase(s.interest, F, "none")
           so == [n \in DOMAIN s.sock |-> IF \E fd \in F : s.owner[fd] = n
                                          THEN [s.sock[n] EXCEPT !.status = "closed"] ELSE s.sock[n]]
<1>1. t = [s EXCEPT !.owner = ow, !.interest = it, !.sock = so]
  BY DEF CloseFds
<1>2. /\ s.owner \in [Fds -> 0 .. MaxSocks] /\ s.interest \in [Fds -> Kinds]
      /\ s.sock \in [Sockets -> Socket]
  BY DEF Tables
<1>3. /\ ow \in [Fds -> 0 .. MaxSocks]
      /\ \A fd \in Fds : ow[fd] = IF fd \in F THEN 0 ELSE s.owner[fd]
  <2>1. 0 \in 0 .. MaxSocks
    BY TcpAssumption
  <2> QED BY <1>2, <2>1 DEF Erase
<1>4. /\ it \in [Fds -> Kinds]
      /\ \A fd \in Fds : it[fd] = IF fd \in F THEN "none" ELSE s.interest[fd]
  <2>1. "none" \in Kinds
    BY DEF Kinds
  <2> QED BY <1>2, <2>1 DEF Erase
<1>5. ASSUME NEW n \in Sockets
      PROVE  /\ so[n] \in Socket
             /\ so[n].fd = s.sock[n].fd /\ so[n].token = s.sock[n].token
             /\ so[n].notes = s.sock[n].notes
             /\ ~(\E fd \in F : s.owner[fd] = n) => so[n] = s.sock[n]
  BY <1>2 DEF Socket, Statuses
<1>6. so \in [Sockets -> Socket]
  BY <1>2, <1>5
<1> HIDE DEF ow, it, so, t
<1>7. t \in Tables /\ t.owner = ow /\ t.interest = it /\ t.sock = so
  BY <1>1, <1>3, <1>4, <1>6 DEF Tables
<1>8. /\ t.conns = s.conns /\ t.directory = s.directory /\ t.nextToken = s.nextToken
      /\ t.listening = s.listening /\ t.timers = s.timers /\ t.expired = s.expired
      /\ t.channels = s.channels /\ t.opened = s.opened /\ t.manager = s.manager
  BY <1>1 DEF Tables
<1>9. IsClosed(s, t, F)
  BY <1>3, <1>4, <1>5, <1>7, <1>8 DEF IsClosed
<1> QED BY <1>7, <1>9 DEF t

\* Every descriptor of the epoll set has a channel.
Polled(s) == \A fd \in Fds : s.channels[fd] = NoChannel => s.interest[fd] = "none"

\* The channels of F are removed.
IsRemoved(s, t, F) ==
  /\ t.conns = s.conns /\ t.directory = s.directory /\ t.nextToken = s.nextToken
  /\ t.listening = s.listening /\ t.timers = s.timers /\ t.expired = s.expired
  /\ t.owner = s.owner /\ t.opened = s.opened /\ t.sock = s.sock /\ t.manager = s.manager
  /\ \A fd \in Fds :
       /\ t.channels[fd] = IF fd \in F THEN NoChannel ELSE s.channels[fd]
       /\ t.interest[fd] = IF fd \in F THEN "none" ELSE s.interest[fd]

\* removeChannel
LEMMA RemoveShape ==
  ASSUME NEW s \in Tables, NEW F, Polled(s)
  PROVE  RemoveChannels(s, F) \in Tables /\ IsRemoved(s, RemoveChannels(s, F), F)
<1> DEFINE t == RemoveChannels(s, F)
           K == {fd \in F : s.channels[fd] # NoChannel}
           ch == Erase(s.channels, K, NoChannel)
           it == Erase(s.interest, K, "none")
<1>1. t = [s EXCEPT !.channels = ch, !.interest = it]
  BY DEF RemoveChannels
<1>2. s.channels \in [Fds -> Channel] /\ s.interest \in [Fds -> Kinds]
  BY DEF Tables
<1>3. /\ ch \in [Fds -> Channel]
      /\ \A fd \in Fds : ch[fd] = IF fd \in F THEN NoChannel ELSE s.channels[fd]
  <2>1. NoChannel \in Channel
    BY TcpAssumption DEF NoChannel, Channel, Kinds
  <2> QED BY <1>2, <2>1 DEF Erase
<1>4. /\ it \in [Fds -> Kinds]
      /\ \A fd \in Fds : it[fd] = IF fd \in F THEN "none" ELSE s.interest[fd]
  <2>1. "none" \in Kinds
    BY DEF Kinds
  <2> QED BY <1>2, <2>1 DEF Erase, Polled
<1> HIDE DEF ch, it, t
<1>5. t \in Tables /\ t.channels = ch /\ t.interest = it
  BY <1>1, <1>3, <1>4 DEF Tables
<1>6. /\ t.conns = s.conns /\ t.directory = s.directory /\ t.nextToken = s.nextToken
      /\ t.listening = s.listening /\ t.timers = s.timers /\ t.expired = s.expired
      /\ t.owner = s.owner /\ t.opened = s.opened /\ t.sock = s.sock /\ t.manager = s.manager
  BY <1>1 DEF Tables
<1>7. IsRemoved(s, t, F)
  BY <1>3, <1>4, <1>5, <1>6 DEF IsRemoved
<1> QED BY <1>5, <1>7 DEF t

\* The timers of N are released.
IsReleased(s, t, N) ==
  /\ t.timers = s.timers \ N /\ t.expired = s.expired \ N
  /\ t.conns = s.conns /\ t.directory = s.directory /\ t.nextToken = s.nextToken
  /\ t.listening = s.listening /\ t.channels = s.channels /\ t.interest = s.interest
  /\ t.owner = s.owner /\ t.opened = s.opened /\ t.sock = s.sock /\ t.manager = s.manager

\* releaseTimer
LEMMA TimersShape ==
  ASSUME NEW s \in Tables, NEW N
  PROVE  ReleaseTimers(s, N) \in Tables /\ IsReleased(s, ReleaseTimers(s, N), N)
BY DEF ReleaseTimers, Tables, IsReleased

\* The handler is told of N.
IsTold(s, t, N, result) ==
  /\ t.timers = s.timers /\ t.expired = s.expired
  /\ t.conns = s.conns /\ t.directory = s.directory /\ t.nextToken = s.nextToken
  /\ t.listening = s.listening /\ t.channels = s.channels /\ t.interest = s.interest
  /\ t.owner = s.owner /\ t.opened = s.opened /\ t.manager = s.manager
  /\ \A n \in Sockets :
       /\ t.sock[n].fd = s.sock[n].fd /\ t.sock[n].token = s.sock[n].token
       /\ t.sock[n].status = s.sock[n].status
       /\ n \in N => t.sock[n].notes = Append(s.sock[n].notes, result)
       /\ n \notin N => t.sock[n].notes = s.sock[n].notes

\* notifyActiveConnection
LEMMA NotedShape ==
  ASSUME NEW s \in Tables, NEW N, NEW result \in Results
  PROVE  Noted(s, N, result) \in Tables /\ IsTold(s, Noted(s, N, result), N, result)
<1> DEFINE t == Noted(s, N, result)
           so == [n \in DOMAIN s.sock |-> IF n \in N
                    THEN [s.sock[n] EXCEPT !.notes = Append(@, result)] ELSE s.sock[n]]
<1>1. t = [s EXCEPT !.sock = so]
  BY DEF Noted
<1>2. s.sock \in [Sockets -> Socket]
  BY DEF Tables
<1>3. ASSUME NEW n \in Sockets
      PROVE  /\ so[n] \in Socket
             /\ so[n].fd = s.sock[n].fd /\ so[n].token = s.sock[n].token
             /\ so[n].status = s.sock[n].status
             /\ n \in N => so[n].notes = Append(s.sock[n].notes, result)
             /\ n \notin N => so[n].notes = s.sock[n].notes
  <2>1. s.sock[n] \in Socket /\ s.sock[n].notes \in Seq(Results)
    BY <1>2 DEF Socket
  <2>2. Append(s.sock[n].notes, result) \in Seq(Results)
    BY <2>1
  <2>3. so[n] = IF n \in N THEN [s.sock[n] EXCEPT !.notes = Append(s.sock[n].notes, result)]
                ELSE s.sock[n]
    BY <1>2
  <2> HIDE DEF so
  <2> QED BY <2>1, <2>2, <2>3 DEF Socket
<1>4. so \in [Sockets -> Socket]
  BY <1>2, <1>3
<1> HIDE DEF so, t
<1>5. t \in Tables /\ t.sock = so
  BY <1>1, <1>4 DEF Tables
<1>6. /\ t.timers = s.timers /\ t.expired = s.expired
      /\ t.conns = s.conns /\ t.directory = s.directory /\ t.nextToken = s.nextToken
      /\ t.listening = s.listening /\ t.channels = s.channels /\ t.interest = s.interest
      /\ t.owner = s.owner /\ t.opened = s.opened /\ t.manager = s.manager
  BY <1>1 DEF Tables
<1>7. IsTold(s, t, N, result)
  BY <1>3, <1>5, <1>6 DEF IsTold
<1> QED BY <1>5, <1>7 DEF t

\* The tasks of the descriptors F end without an answer.
IsEnded(s, t, F) ==
  LET N == {s.conns[fd] : fd \in F}
  IN /\ t.timers = s.timers \ N /\ t.expired = s.expired \ N
     /\ t.conns = s.conns /\ t.directory = s.directory /\ t.nextToken = s.nextToken
     /\ t.listening = s.listening /\ t.opened = s.opened /\ t.manager = s.manager
     /\ \A fd \in Fds :
          /\ t.channels[fd] = IF fd \in F THEN NoChannel ELSE s.channels[fd]
          /\ t.interest[fd] = IF fd \in F THEN "none" ELSE s.interest[fd]
          /\ t.owner[fd] = IF fd \in F THEN 0 ELSE s.owner[fd]
     /\ \A n \in Sockets :
          /\ t.sock[n].fd = s.sock[n].fd /\ t.sock[n].token = s.sock[n].token
          /\ n \in N => t.sock[n].notes = Append(s.sock[n].notes, "cancel")
          /\ n \notin N => t.sock[n].notes = s.sock[n].notes
          /\ ~(\E fd \in F : s.owner[fd] = n) => t.sock[n].status = s.sock[n].status

\* What cancelActiveConnecttion and stopAll do to tasks
LEMMA EndShape ==
  ASSUME NEW s \in Tables, NEW F, F \subseteq Fds, Polled(s)
  PROVE  EndTasks(s, F) \in Tables /\ IsEnded(s, EndTasks(s, F), F)
<1> DEFINE N == {s.conns[fd] : fd \in F}
           a == ReleaseTimers(s, N)
           b == RemoveChannels(a, F)
           c == CloseFds(b, F)
           t == Noted(c, N, "cancel")
<1>1. t = EndTasks(s, F)
  BY DEF EndTasks
<1> HIDE DEF N
<1>2. a \in Tables /\ IsReleased(s, a, N)
  BY TimersShape, Zenon
<1> HIDE DEF a
<1>3. Polled(a)
  BY <1>2 DEF IsReleased, Polled
<1>4. b \in Tables /\ IsRemoved(a, b, F)
  BY <1>2, <1>3, RemoveShape, Zenon
<1> HIDE DEF b
<1>5. c \in Tables /\ IsClosed(b, c, F)
  BY <1>4, CloseShape, Zenon
<1> HIDE DEF c
<1>6. "cancel" \in Results
  BY DEF Results
<1>7. t \in Tables /\ IsTold(c, t, N, "cancel")
  BY <1>5, <1>6, NotedShape, Zenon
<1> HIDE DEF t
<1>8. /\ t.timers = s.timers \ N /\ t.expired = s.expired \ N
      /\ t.conns = s.conns /\ t.directory = s.directory /\ t.nextToken = s.nextToken
      /\ t.listening = s.listening /\ t.opened = s.opened /\ t.manager = s.manager
  BY <1>2, <1>4, <1>5, <1>7 DEF IsReleased, IsRemoved, IsClosed, IsTold
<1>9. ASSUME NEW fd \in Fds
      PROVE  /\ t.channels[fd] = IF fd \in F THEN NoChannel ELSE s.channels[fd]
             /\ t.interest[fd] = IF fd \in F THEN "none" ELSE s.interest[fd]
             /\ t.owner[fd] = IF fd \in F THEN 0 ELSE s.owner[fd]
  BY <1>2, <1>4, <1>5, <1>7 DEF IsReleased, IsRemoved, IsClosed, IsTold
<1>10. ASSUME NEW n \in Sockets
       PROVE  /\ t.sock[n].fd = s.sock[n].fd /\ t.sock[n].token = s.sock[n].token
              /\ n \in N => t.sock[n].notes = Append(s.sock[n].notes, "cancel")
              /\ n \notin N => t.sock[n].notes = s.sock[n].notes
              /\ ~(\E fd \in F : s.owner[fd] = n) => t.sock[n].status = s.sock[n].status
  BY <1>2, <1>4, <1>5, <1>7, SMTT(30) DEF IsReleased, IsRemoved, IsClosed, IsTold
<1>11. IsEnded(s, t, F)
  BY <1>8, <1>9, <1>10 DEF IsEnded, N
<1> QED BY <1>1, <1>7, <1>11

\* The task n, with descriptor fd and token k, is released.
IsFreed(s, t, n, f, k) ==
  /\ t.timers = s.timers \ {n} /\ t.expired = s.expired \ {n}
  /\ t.nextToken = s.nextToken /\ t.listening = s.listening
  /\ t.opened = s.opened /\ t.manager = s.manager /\ t.owner = s.owner /\ t.sock = s.sock
  /\ \A token \in Tokens : t.directory[token] = IF token = k THEN 0 ELSE s.directory[token]
  /\ \A fd \in Fds :
       /\ t.conns[fd] = IF fd = f THEN 0 ELSE s.conns[fd]
       /\ t.channels[fd] = IF fd = f THEN NoChannel ELSE s.channels[fd]
       /\ t.interest[fd] = IF fd = f THEN "none" ELSE s.interest[fd]

\* release_task
LEMMA ReleaseShape ==
  ASSUME NEW s \in Tables, NEW n \in Sockets, s.sock[n].fd \in Fds, Polled(s)
  PROVE  /\ ReleaseTask(s, n) \in Tables
         /\ IsFreed(s, ReleaseTask(s, n), n, s.sock[n].fd, s.sock[n].token)
<1> DEFINE f == s.sock[n].fd
           k == s.sock[n].token
           a == ReleaseTimers(s, {n})
           b == RemoveChannels(a, {f})
           co == Erase(b.conns, {f}, 0)
           di == Erase(b.directory, {k}, 0)
           t == ReleaseTask(s, n)
<1>1. t = [b EXCEPT !.conns = co, !.directory = di]
  BY DEF ReleaseTask
<1> HIDE DEF f, k, t
<1>2. a \in Tables /\ IsReleased(s, a, {n})
  BY TimersShape, Zenon
<1> HIDE DEF a
<1>3. Polled(a) /\ {f} \subseteq Fds
  BY <1>2 DEF IsReleased, Polled, f
<1>4. b \in Tables /\ IsRemoved(a, b, {f})
  BY <1>2, <1>3, RemoveShape, Zenon
<1> HIDE DEF b
<1>5. b.conns \in [Fds -> 0 .. MaxSocks] /\ b.directory \in [Tokens -> 0 .. MaxFd]
  BY <1>4 DEF Tables
<1>6. /\ co \in [Fds -> 0 .. MaxSocks]
      /\ \A fd \in Fds : co[fd] = IF fd = f THEN 0 ELSE b.conns[fd]
  <2>1. 0 \in 0 .. MaxSocks
    BY TcpAssumption
  <2> QED BY <1>5, <2>1 DEF Erase
<1>7. /\ di \in [Tokens -> 0 .. MaxFd]
      /\ \A token \in Tokens : di[token] = IF token = k THEN 0 ELSE b.directory[token]
  <2>1. 0 \in 0 .. MaxFd
    BY TcpAssumption
  <2> QED BY <1>5, <2>1 DEF Erase
<1> HIDE DEF co, di
<1>8. t \in Tables /\ t.conns = co /\ t.directory = di
  BY <1>1, <1>4, <1>6, <1>7 DEF Tables
<1>9. /\ t.nextToken = b.nextToken /\ t.listening = b.listening
      /\ t.timers = b.timers /\ t.expired = b.expired
      /\ t.channels = b.channels /\ t.interest = b.interest /\ t.owner = b.owner
      /\ t.opened = b.opened /\ t.sock = b.sock /\ t.manager = b.manager
  BY <1>1, <1>4 DEF Tables
<1>10. IsFreed(s, t, n, f, k)
  BY <1>2, <1>4, <1>6, <1>7, <1>8, <1>9 DEF IsReleased, IsRemoved, IsFreed
<1> QED BY <1>8, <1>10 DEF t, f, k

\* The socket n is opened with descriptor f.
IsOpened(s, t, f, n, status, k) ==
  /\ t.conns = s.conns /\ t.directory = s.directory /\ t.nextToken = s.nextToken
  /\ t.listening = s.listening /\ t.timers = s.timers /\ t.expired = s.expired
  /\ t.channels = s.channels /\ t.interest = s.interest /\ t.manager = s.manager
  /\ t.opened = n
  /\ \A fd \in Fds : t.owner[fd] = IF fd = f THEN n ELSE s.owner[fd]
  /\ \A m \in Sockets : m # n => t.sock[m] = s.sock[m]
  /\ t.sock[n].status = status /\ t.sock[n].fd = f /\ t.sock[n].token = k
  /\ t.sock[n].notes = <<>>

\* socket, accept
LEMMA OpenShape ==
  ASSUME NEW s \in Tables, NEW status \in Statuses, NEW k \in 0 .. TokenMax,
         NEW by \in {"visit", "io"}, FreeFds(s) # {}, s.opened < MaxSocks
  PROVE  /\ Opened(s, status, k, by) \in Tables
         /\ \E f \in Fds : /\ s.owner[f] = 0
                           /\ IsOpened(s, Opened(s, status, k, by), f, s.opened + 1, status, k)
<1> DEFINE f == Min(FreeFds(s))
           n == s.opened + 1
           r == [status |-> status, fd |-> f, token |-> k, by |-> by, notes |-> <<>>]
           t == Opened(s, status, k, by)
           ow == [s.owner EXCEPT ![f] = n]
           so == [s.sock EXCEPT ![n] = r]
<1>1. t = [s EXCEPT !.owner = ow, !.opened = n, !.sock = so]
  BY DEF Opened
<1>2. /\ s.owner \in [Fds -> 0 .. MaxSocks] /\ s.sock \in [Sockets -> Socket]
      /\ s.opened \in 0 .. MaxSocks
  BY DEF Tables
<1>3. f \in Fds /\ s.owner[f] = 0
  <2>1. FreeFds(s) \subseteq Nat
    BY DEF FreeFds, Fds
  <2>2. f \in FreeFds(s)
    BY <2>1, LeastInSet, Zenon
  <2> HIDE DEF f
  <2> QED BY <1>2, <2>2 DEF FreeFds, Keys
<1> HIDE DEF f, t
<1>4. n \in Sockets /\ n \in 0 .. MaxSocks
  BY <1>2, TcpAssumption DEF Sockets
<1>5. r \in Socket /\ r.fd = f /\ r.token = k /\ r.notes = <<>> /\ r.status = status
  <2>1. f \in 0 .. MaxFd
    BY <1>3, TcpAssumption DEF Fds
  <2>2. <<>> \in Seq(Results)
    OBVIOUS
  <2> QED BY <2>1, <2>2 DEF Socket
<1> HIDE DEF n, r
<1>6. /\ ow \in [Fds -> 0 .. MaxSocks]
      /\ \A fd \in Fds : ow[fd] = IF fd = f THEN n ELSE s.owner[fd]
  BY <1>2, <1>3, <1>4
<1>7. /\ so \in [Sockets -> Socket] /\ so[n] = r
      /\ \A m \in Sockets : m # n => so[m] = s.sock[m]
  BY <1>2, <1>4, <1>5
<1> HIDE DEF ow, so
<1>8. t \in Tables /\ t.owner = ow /\ t.opened = n /\ t.sock = so
  BY <1>1, <1>4, <1>6, <1>7 DEF Tables
<1>9. /\ t.conns = s.conns /\ t.directory = s.directory /\ t.nextToken = s.nextToken
      /\ t.listening = s.listening /\ t.timers = s.timers /\ t.expired = s.expired
      /\ t.channels = s.channels /\ t.interest = s.interest /\ t.manager = s.manager
  BY <1>1 DEF Tables
<1>10. IsOpened(s, t, f, n, status, k)
  BY <1>5, <1>6, <1>7, <1>8, <1>9 DEF IsOpened
<1> QED BY <1>3, <1>8, <1>10 DEF t, n

\* The socket n has got a channel of a kind.
IsRegistered(s, t, f, kind, n) ==
  /\ t.conns = s.conns /\ t.directory = s.directory /\ t.nextToken = s.nextToken
  /\ t.listening = s.listening /\ t.timers = s.timers /\ t.expired = s.expired
  /\ t.owner = s.owner /\ t.opened = s.opened /\ t.sock = s.sock /\ t.manager = s.manager
  /\ \A fd \in Fds :
       /\ t.channels[fd] = IF fd = f THEN [kind |-> kind, n |-> n] ELSE s.channels[fd]
       /\ t.interest[fd] = IF fd = f THEN kind ELSE s.interest[fd]

\* updateChannel for a descriptor that has no entry in channelsMap
LEMMA RegisterShape ==
  ASSUME NEW s \in Tables, NEW f \in Fds, NEW kind \in Kinds, NEW n \in Sockets,
         s.channels[f] = NoChannel, s.interest[f] = "none"
  PROVE  /\ UpdateChannel(s, f, kind, n) \in Tables
         /\ IsRegistered(s, UpdateChannel(s, f, kind, n), f, kind, n)
<1> DEFINE t == UpdateChannel(s, f, kind, n)
           ch == [s.channels EXCEPT ![f] = [kind |-> kind, n |-> n]]
           it == [s.interest EXCEPT ![f] = kind]
<1>1. t = [s EXCEPT !.channels = ch, !.interest = it]
  BY DEF UpdateChannel
<1> HIDE DEF t
<1>2. s.channels \in [Fds -> Channel] /\ s.interest \in [Fds -> Kinds]
  BY DEF Tables
<1>3. [kind |-> kind, n |-> n] \in Channel
  BY TcpAssumption DEF Channel, Sockets
<1>4. /\ ch \in [Fds -> Channel]
      /\ \A fd \in Fds : ch[fd] = IF fd = f THEN [kind |-> kind, n |-> n] ELSE s.channels[fd]
  BY <1>2, <1>3
<1>5. /\ it \in [Fds -> Kinds]
      /\ \A fd \in Fds : it[fd] = IF fd = f THEN kind ELSE s.interest[fd]
  BY <1>2
<1> HIDE DEF ch, it
<1>6. t \in Tables /\ t.channels = ch /\ t.interest = it
  BY <1>1, <1>4, <1>5 DEF Tables
<1>7. /\ t.conns = s.conns /\ t.directory = s.directory /\ t.nextToken = s.nextToken
      /\ t.listening = s.listening /\ t.timers = s.timers /\ t.expired = s.expired
      /\ t.owner = s.owner /\ t.opened = s.opened /\ t.sock = s.sock /\ t.manager = s.manager
  BY <1>1 DEF Tables
<1>8. IsRegistered(s, t, f, kind, n)
  BY <1>4, <1>5, <1>6, <1>7 DEF IsRegistered
<1> QED BY <1>6, <1>8 DEF t

-----------------------------------------------------------------------------
(* Tokens *)

\* As long as a descriptor is free, the token that activeConnect finds is free:
\* tokens in use lead to different tasks with different descriptors, and there
\* are more tries than those. So max_try_times never wraps.
LEMMA TokenIsFree ==
  ASSUME TokensSuffice, NEW s \in Tables, NEW D, NEW R, TasksKnown(s, D, R), TokensKnown(s),
         FreeFds(s) # {}, FindToken(s) # 0
  PROVE  FindToken(s) \in Tokens /\ s.directory[FindToken(s)] = 0
<1> DEFINE first == IF s.nextToken = 0 THEN 1 ELSE s.nextToken
           try == Tries[first]
           T == 1 .. MaxTries
           free == {i \in T : try[i] \notin Keys(s.directory)}
<1>1. /\ s.directory \in [Tokens -> 0 .. MaxFd] /\ s.nextToken \in 0 .. TokenMax
      /\ s.owner \in [Fds -> 0 .. MaxSocks]
  BY DEF Tables
<1>2. MaxTries \in Nat /\ TokenMax \in Nat /\ MaxFd \in Nat /\ TokenMax # 0
  BY TcpAssumption
<1>3. first \in Tokens
  BY <1>1, <1>2 DEF Tokens
<1> HIDE DEF first
<1>4. \A i \in T : try[i] \in Tokens
  <2> SUFFICES ASSUME NEW i \in T PROVE try[i] \in Tokens
    OBVIOUS
  <2>1. i \in 1 .. MaxTries + 1
    BY <1>2
  <2>2. try \in [1 .. MaxTries + 1 -> 0 .. TokenMax] /\ try[i] # 0
    <3>1. /\ Tries \in [Tokens -> [1 .. MaxTries + 1 -> 0 .. TokenMax]]
          /\ \A k \in Tokens, j \in 1 .. MaxTries : Tries[k][j] # 0
      BY TcpAssumption
    <3>2. Tries[first] \in [1 .. MaxTries + 1 -> 0 .. TokenMax]
      BY <1>3, <3>1
    <3>3. Tries[first][i] # 0
      BY <1>3, <3>1, Zenon
    <3> QED BY <3>2, <3>3
  <2>3. try[i] \in 0 .. TokenMax
    BY <2>1, <2>2
  <2> QED BY <1>2, <2>2, <2>3 DEF Tokens
<1>5. \A i, j \in T : try[i] = try[j] => i = j
  BY <1>3 DEF TokensSuffice
<1>6. FindToken(s) = IF free = {} THEN try[MaxTries + 1]
                     ELSE IF Min(free) = MaxTries THEN 0 ELSE try[Min(free)]
  BY DEF FindToken, first
<1> HIDE DEF try
<1>7. free # {}
  <2> SUFFICES ASSUME free = {} PROVE FALSE
    OBVIOUS
  <2>1. PICK f0 \in Fds : s.owner[f0] = 0
    BY <1>1 DEF FreeFds, Keys
  <2> DEFINE g == [i \in T |-> s.directory[try[i]]]
             U == Fds \ {f0}
  <2>2. ASSUME NEW i \in T
        PROVE  /\ s.directory[try[i]] \in Fds /\ s.conns[s.directory[try[i]]] # 0
               /\ s.sock[s.conns[s.directory[try[i]]]].token = try[i]
    <3>1. try[i] \in Tokens /\ try[i] \in Keys(s.directory)
      BY <1>4
    <3>2. s.directory[try[i]] # 0 /\ s.directory[try[i]] \in 0 .. MaxFd
      BY <1>1, <3>1 DEF Keys
    <3>3. s.directory[try[i]] \in Fds
      BY <1>2, <3>2 DEF Fds
    <3> QED BY <3>1, <3>2, <3>3 DEF TokensKnown
  <2>3. g \in [T -> U]
    <3> SUFFICES ASSUME NEW i \in T PROVE s.directory[try[i]] \in U
      OBVIOUS
    <3>1. s.owner[s.directory[try[i]]] # 0
      BY <2>2 DEF TasksKnown
    <3> QED BY <2>1, <2>2, <3>1
  <2>4. IsFiniteSet(T) /\ Cardinality(T) = MaxTries
    BY <1>2, FS_Interval
  <2>5. IsFiniteSet(Fds) /\ Cardinality(Fds) = MaxFd
    BY <1>2, FS_Interval DEF Fds
  <2>6. IsFiniteSet(U) /\ Cardinality(U) = MaxFd - 1
    BY <2>1, <2>5, FS_RemoveElement
  <2>7. Cardinality(U) < Cardinality(T)
    BY <1>2, <2>4, <2>6 DEF TokensSuffice
  <2> HIDE DEF g, T, U
  <2>8. PICK i, j \in T : i # j /\ g[i] = g[j]
    BY <2>3, <2>4, <2>6, <2>7, FS_PigeonHole
  <2>9. s.directory[try[i]] = s.directory[try[j]]
    BY <2>8 DEF g
  <2> QED BY <1>5, <2>2, <2>8, <2>9
<1>8. Min(free) \in free
  <2>1. free \subseteq Nat
    BY <1>2
  <2> QED BY <1>7, <2>1, LeastInSet, Zenon
<1>9. FindToken(s) = try[Min(free)]
  BY <1>6, <1>7
<1>10. try[Min(free)] \in Tokens /\ try[Min(free)] \notin Keys(s.directory)
  BY <1>4, <1>8
<1> QED BY <1>1, <1>9, <1>10 DEF Keys

-----------------------------------------------------------------------------
(* activeConnect *)

\* The task n is started with descriptor f and token k.
IsStarted(s, t, f, n, k) ==
  /\ t.listening = s.listening /\ t.expired = s.expired /\ t.manager = s.manager
  /\ t.timers = s.timers \cup {n} /\ t.opened = n
  /\ \A token \in Tokens : t.directory[token] = IF token = k THEN f ELSE s.directory[token]
  /\ \A fd \in Fds :
       /\ t.conns[fd] = IF fd = f THEN n ELSE s.conns[fd]
       /\ t.owner[fd] = IF fd = f THEN n ELSE s.owner[fd]
       /\ t.channels[fd] = IF fd = f THEN [kind |-> "task", n |-> n] ELSE s.channels[fd]
       /\ t.interest[fd] = IF fd = f THEN "task" ELSE s.interest[fd]
  /\ \A m \in Sockets : m # n => t.sock[m] = s.sock[m]
  /\ t.sock[n].status = "connecting" /\ t.sock[n].fd = f /\ t.sock[n].token = k
  /\ t.sock[n].notes = <<>>

\* Where the tables agree, a descriptor that is free is in none of them.
LEMMA FreeMeansUnused ==
  ASSUME NEW s, NEW D, NEW R, TablesAgree(s, D, R), NEW f \in Fds, s.owner[f] = 0
  PROVE  /\ s.conns[f] = 0 /\ s.manager[f] = 0 /\ f \notin s.listening
         /\ s.channels[f] = NoChannel /\ s.interest[f] = "none"
BY DEF TablesAgree, HeldOnce, ChannelsKnown

\* What activeConnect does
LEMMA StartShape ==
  ASSUME TokensSuffice, NEW s, NEW D, NEW R, TablesAgree(s, D, R),
         backlog \in Nat, NEW by \in {"visit", "io"}, ActiveConnect(s, by) # s
  PROVE  /\ MayOpen(s) /\ ActiveConnect(s, by) \in Tables
         /\ \E f \in Fds, k \in Tokens :
              /\ s.owner[f] = 0 /\ s.directory[k] = 0 /\ s.opened + 1 \in Sockets
              /\ IsStarted(s, ActiveConnect(s, by), f, s.opened + 1, k)
<1> DEFINE k == FindToken(s)
           n == s.opened + 1
           o == Opened(s, "connecting", k, by)
           u == UpdateChannel(o, o.sock[n].fd, "task", n)
           co == Emplace(u.conns, o.sock[n].fd, n)
           di == Emplace(u.directory, k, o.sock[n].fd)
           nt == (k + 1) % (TokenMax + 1)
           t == ActiveConnect(s, by)
<1>1. /\ k # 0 /\ FreeFds(s) # {} /\ MayOpen(s)
      /\ t = [u EXCEPT !.timers = @ \cup {n}, !.nextToken = nt, !.conns = co, !.directory = di]
  BY DEF ActiveConnect
<1> HIDE DEF k, t
<1>2. s \in Tables /\ TasksKnown(s, D, R) /\ TokensKnown(s)
  BY DEF TablesAgree
<1>3. k \in Tokens /\ s.directory[k] = 0
  BY <1>1, <1>2, TokenIsFree, Zenon DEF k
<1>4. s.opened \in Nat /\ s.opened < MaxSocks /\ n \in Sockets
  <2>1. s.opened \in 0 .. MaxSocks
    BY <1>2 DEF Tables
  <2> QED BY <1>1, <2>1, TcpAssumption DEF MayOpen, Sockets
<1>5. "connecting" \in Statuses /\ "task" \in Kinds /\ k \in 0 .. TokenMax
  BY <1>3, TcpAssumption DEF Statuses, Kinds, Tokens
<1>6. o \in Tables /\ \E f \in Fds : s.owner[f] = 0 /\ IsOpened(s, o, f, n, "connecting", k)
  BY <1>1, <1>2, <1>4, <1>5, OpenShape, Zenon
<1> HIDE DEF o
<1>7. PICK f \in Fds : s.owner[f] = 0 /\ IsOpened(s, o, f, n, "connecting", k)
  BY <1>6
<1>8. /\ o.sock[n].fd = f /\ o.conns = s.conns /\ o.directory = s.directory
      /\ o.channels[f] = NoChannel /\ o.interest[f] = "none" /\ s.conns[f] = 0
  BY <1>7, FreeMeansUnused DEF IsOpened
<1>9. u \in Tables /\ IsRegistered(o, u, f, "task", n)
  BY <1>4, <1>5, <1>6, <1>8, RegisterShape, Zenon
<1> HIDE DEF u
<1>10. /\ u.conns \in [Fds -> 0 .. MaxSocks] /\ u.directory \in [Tokens -> 0 .. MaxFd]
       /\ u.timers \in SUBSET Sockets
       /\ u.conns = s.conns /\ u.directory = s.directory
  BY <1>8, <1>9 DEF Tables, IsRegistered
<1>11. /\ co \in [Fds -> 0 .. MaxSocks]
       /\ \A fd \in Fds : co[fd] = IF fd = f THEN n ELSE s.conns[fd]
  <2>1. n \in 0 .. MaxSocks
    BY <1>4, TcpAssumption DEF Sockets
  <2> QED BY <1>8, <1>10, <2>1 DEF Emplace
<1>12. /\ di \in [Tokens -> 0 .. MaxFd]
       /\ \A token \in Tokens : di[token] = IF token = k THEN f ELSE s.directory[token]
  <2>1. f \in 0 .. MaxFd
    BY TcpAssumption DEF Fds
  <2> QED BY <1>3, <1>8, <1>10, <2>1 DEF Emplace
<1>13. nt \in 0 .. TokenMax
  <2>1. k \in Nat /\ TokenMax \in Nat
    BY <1>3, TcpAssumption DEF Tokens
  <2> DEFINE M == TokenMax + 1
  <2>2. M \in Nat /\ M > 0 /\ k + 1 \in Nat
    BY <2>1
  <2> HIDE DEF M
  <2>3. (k + 1) % M \in 0 .. M - 1
    BY <2>2
  <2> QED BY <2>1, <2>3 DEF M
<1> HIDE DEF nt, co, di
<1>14. /\ t \in Tables /\ t.conns = co /\ t.directory = di /\ t.timers = u.timers \cup {n}
  BY <1>1, <1>4, <1>9, <1>10, <1>11, <1>12, <1>13 DEF Tables
<1>15. /\ t.listening = u.listening /\ t.expired = u.expired
       /\ t.channels = u.channels /\ t.interest = u.interest /\ t.owner = u.owner
       /\ t.opened = u.opened /\ t.sock = u.sock /\ t.manager = u.manager
  BY <1>1, <1>9 DEF Tables
<1> HIDE DEF n
<1>16. IsStarted(s, t, f, n, k)
  BY <1>7, <1>9, <1>11, <1>12, <1>14, <1>15 DEF IsStarted, IsOpened, IsRegistered
<1> QED BY <1>1, <1>3, <1>4, <1>7, <1>14, <1>16 DEF t, n

\* The tables agree after activeConnect.
LEMMA StartKeeps ==
  ASSUME TokensSuffice, NEW s, NEW D, NEW R, TablesAgree(s, D, R), D \subseteq Sockets,
         backlog \in Nat, NEW by \in {"visit", "io"}
  PROVE  TablesAgree(ActiveConnect(s, by), D, R)
<1> DEFINE t == ActiveConnect(s, by)
           n == s.opened + 1
<1> SUFFICES ASSUME t # s PROVE TablesAgree(t, D, R)
  BY Zenon
<1> HIDE DEF t
<1>1. /\ t \in Tables
      /\ \E f \in Fds, k \in Tokens : /\ s.owner[f] = 0 /\ s.directory[k] = 0 /\ n \in Sockets
                                      /\ IsStarted(s, t, f, n, k)
  BY StartShape, Zenon DEF t
<1>2. PICK f \in Fds, k \in Tokens : /\ s.owner[f] = 0 /\ s.directory[k] = 0 /\ n \in Sockets
                                     /\ IsStarted(s, t, f, n, k)
  BY <1>1
<1>3. /\ s.conns[f] = 0 /\ s.manager[f] = 0 /\ f \notin s.listening
      /\ s.channels[f] = NoChannel /\ s.interest[f] = "none"
  BY <1>2, FreeMeansUnused
<1>4. /\ OwnersKnown(s) /\ TasksKnown(s, D, R) /\ TokensKnown(s) /\ TimersKnown(s, D)
      /\ ChannelsKnown(s) /\ HeldOnce(s) /\ ToldOnce(s)
  BY DEF TablesAgree
<1>5. /\ s.owner \in [Fds -> 0 .. MaxSocks] /\ s.conns \in [Fds -> 0 .. MaxSocks]
      /\ s.directory \in [Tokens -> 0 .. MaxFd] /\ s.opened \in Nat
      /\ s.timers \subseteq Sockets /\ s.expired \subseteq Sockets
      /\ MaxFd \in Nat /\ MaxSocks \in Nat
  BY TcpAssumption DEF TablesAgree, Tables
<1>6. \A m \in Sockets : m \in Nat /\ m # 0 /\ m \in 0 .. MaxSocks
  BY <1>5 DEF Sockets
<1>7. \A m \in 0 .. MaxSocks : m # 0 => m \in Sockets
  BY <1>5 DEF Sockets
<1>8. \A fd \in Fds : s.owner[fd] # 0 => s.owner[fd] \in Sockets /\ s.owner[fd] # n
  <2>1. \A fd \in Fds : s.owner[fd] # 0 => s.owner[fd] \in Sockets
    BY <1>5, <1>7
  <2>2. \A fd \in Fds : s.owner[fd] # 0 => s.owner[fd] <= s.opened
    BY <1>4 DEF OwnersKnown
  <2>3. \A m \in Sockets : m <= s.opened => m # n
    BY <1>5, <1>6
  <2> QED BY <2>1, <2>2, <2>3
<1>9. \A fd \in Fds : s.conns[fd] # 0 => s.conns[fd] = s.owner[fd]
  BY <1>4 DEF TasksKnown
<1>10. OwnersKnown(t)
  <2> SUFFICES ASSUME NEW fd \in Fds, t.owner[fd] # 0
               PROVE  t.owner[fd] <= t.opened /\ t.sock[t.owner[fd]].fd = fd
    BY DEF OwnersKnown
  <2>1. CASE fd = f
    BY <1>2, <1>5, <2>1 DEF IsStarted
  <2>2. CASE fd # f
    <3>1. /\ t.owner[fd] = s.owner[fd] /\ t.opened = n
          /\ t.sock[s.owner[fd]] = s.sock[s.owner[fd]]
      BY <1>2, <1>8, <2>2 DEF IsStarted
    <3>2. s.owner[fd] <= s.opened /\ s.sock[s.owner[fd]].fd = fd /\ s.owner[fd] \in Sockets
      BY <1>4, <1>8, <3>1 DEF OwnersKnown
    <3> QED BY <1>5, <1>6, <3>1, <3>2
  <2> QED BY <2>1, <2>2
<1>11. TasksKnown(t, D, R)
  <2> SUFFICES ASSUME NEW fd \in Fds, t.conns[fd] # 0
               PROVE  /\ t.owner[fd] = t.conns[fd]
                      /\ t.sock[t.conns[fd]].token \in Tokens
                      /\ t.directory[t.sock[t.conns[fd]].token] = fd
                      /\ t.conns[fd] \in t.timers \cup D
                      /\ t.conns[fd] \notin R => t.sock[t.conns[fd]].notes = <<>>
    BY DEF TasksKnown
  <2>1. CASE fd = f
    BY <1>2, <2>1 DEF IsStarted
  <2>2. CASE fd # f
    <3>1. /\ t.owner[fd] = s.owner[fd] /\ t.conns[fd] = s.conns[fd] /\ s.conns[fd] # 0
          /\ t.timers = s.timers \cup {n}
      BY <1>2, <2>2 DEF IsStarted
    <3>2. s.conns[fd] \in Sockets /\ s.conns[fd] # n
      BY <1>8, <1>9, <3>1
    <3>3. t.sock[s.conns[fd]] = s.sock[s.conns[fd]]
      BY <1>2, <3>2 DEF IsStarted
    <3>4. /\ s.owner[fd] = s.conns[fd]
          /\ s.sock[s.conns[fd]].token \in Tokens
          /\ s.directory[s.sock[s.conns[fd]].token] = fd
          /\ s.conns[fd] \in s.timers \cup D
          /\ s.conns[fd] \notin R => s.sock[s.conns[fd]].notes = <<>>
      BY <1>4, <3>1 DEF TasksKnown
    <3>5. s.sock[s.conns[fd]].token # k
      BY <1>2, <1>5, <3>4 DEF Fds
    <3>6. t.directory[s.sock[s.conns[fd]].token] = fd
      BY <1>2, <3>4, <3>5 DEF IsStarted
    <3> QED BY <3>1, <3>3, <3>4, <3>6
  <2> QED BY <2>1, <2>2
<1>12. TokensKnown(t)
  <2> SUFFICES ASSUME NEW x \in Tokens, t.directory[x] # 0
               PROVE  t.conns[t.directory[x]] # 0 /\ t.sock[t.conns[t.directory[x]]].token = x
    BY DEF TokensKnown
  <2>1. CASE x = k
    BY <1>2, <1>6, <2>1 DEF IsStarted
  <2>2. CASE x # k
    <3>1. t.directory[x] = s.directory[x] /\ s.directory[x] # 0
      BY <1>2, <2>2 DEF IsStarted
    <3>2. s.directory[x] \in Fds
      BY <1>5, <3>1 DEF Fds
    <3>3. s.conns[s.directory[x]] # 0 /\ s.sock[s.conns[s.directory[x]]].token = x
      BY <1>4, <3>1 DEF TokensKnown
    <3>4. s.directory[x] # f
      BY <1>3, <3>3
    <3>5. t.conns[s.directory[x]] = s.conns[s.directory[x]]
      BY <1>2, <3>2, <3>4 DEF IsStarted
    <3>6. s.conns[s.directory[x]] \in Sockets /\ s.conns[s.directory[x]] # n
      BY <1>8, <1>9, <3>2, <3>3
    <3> QED BY <1>2, <3>1, <3>3, <3>5, <3>6 DEF IsStarted
  <2> QED BY <2>1, <2>2
<1>13. TimersKnown(t, D)
  <2>1. t.expired \subseteq t.timers
    BY <1>2, <1>4 DEF TimersKnown, IsStarted
  <2> SUFFICES ASSUME NEW m \in t.timers \cup D
               PROVE  t.sock[m].fd \in Fds /\ t.conns[t.sock[m].fd] = m
    BY <2>1 DEF TimersKnown
  <2>2. CASE m = n
    BY <1>2, <2>2 DEF IsStarted
  <2>3. CASE m # n
    <3>1. m \in s.timers \cup D /\ m \in Sockets
      BY <1>2, <1>5, <2>3 DEF IsStarted
    <3>2. t.sock[m] = s.sock[m]
      BY <1>2, <2>3, <3>1 DEF IsStarted
    <3>3. s.sock[m].fd \in Fds /\ s.conns[s.sock[m].fd] = m
      BY <1>4, <3>1 DEF TimersKnown
    <3>4. s.sock[m].fd # f
      BY <1>3, <1>6, <3>1, <3>3
    <3> QED BY <1>2, <3>2, <3>3, <3>4 DEF IsStarted
  <2> QED BY <2>2, <2>3
<1>14. ChannelsKnown(t)
  <2>1. [kind |-> "task", n |-> n] # NoChannel
    BY DEF NoChannel
  <2> SUFFICES ASSUME NEW fd \in Fds
               PROVE  /\ t.channels[fd] = NoChannel => t.interest[fd] = "none"
                      /\ t.channels[fd] # NoChannel =>
                           /\ t.interest[fd] = t.channels[fd].kind /\ t.interest[fd] # "none"
                           /\ t.owner[fd] # 0 /\ t.channels[fd].n = t.owner[fd]
                           /\ t.channels[fd].kind = "task" => t.conns[fd] = t.owner[fd]
                           /\ t.channels[fd].kind = "conn" => t.manager[fd] = t.owner[fd]
    BY DEF ChannelsKnown
  <2>2. CASE fd = f
    BY <1>2, <1>6, <2>1, <2>2 DEF IsStarted
  <2>3. CASE fd # f
    BY <1>2, <1>4, <2>3 DEF IsStarted, ChannelsKnown
  <2> QED BY <2>2, <2>3
<1>15. HeldOnce(t)
  <2> SUFFICES ASSUME NEW fd \in Fds
               PROVE  /\ t.owner[fd] # 0 <=> (fd \in t.listening \/ t.conns[fd] # 0 \/ t.manager[fd] # 0)
                      /\ ~(t.conns[fd] # 0 /\ t.manager[fd] # 0)
                      /\ fd \in t.listening => t.conns[fd] = 0 /\ t.manager[fd] = 0
                      /\ t.manager[fd] # 0 => t.manager[fd] = t.owner[fd]
    BY DEF HeldOnce
  <2>1. CASE fd = f
    BY <1>2, <1>3, <1>6, <2>1 DEF IsStarted
  <2>2. CASE fd # f
    BY <1>2, <1>4, <2>2 DEF IsStarted, HeldOnce
  <2> QED BY <2>1, <2>2
<1>16. ToldOnce(t)
  <2> SUFFICES ASSUME NEW m \in Sockets PROVE Len(t.sock[m].notes) <= 1
    BY DEF ToldOnce
  <2>1. CASE m = n
    BY <1>2, <2>1 DEF IsStarted
  <2>2. CASE m # n
    BY <1>2, <1>4, <2>2 DEF IsStarted, ToldOnce
  <2> QED BY <2>1, <2>2
<1> QED BY <1>1, <1>10, <1>11, <1>12, <1>13, <1>14, <1>15, <1>16 DEF TablesAgree

-----------------------------------------------------------------------------
(* cancelActiveConnecttion and stopAll *)

\* The tasks of the descriptors F and the listening sockets L end. Of the tasks
\* in R the handler had been told before.
IsDropped(s, t, F, L, R) ==
  LET N == {s.conns[fd] : fd \in F}
  IN /\ t.timers = s.timers \ N /\ t.expired = s.expired \ N /\ t.listening = s.listening \ L
     /\ t.nextToken = s.nextToken /\ t.opened = s.opened /\ t.manager = s.manager
     /\ \A x \in Tokens : t.directory[x] = IF s.directory[x] \in F THEN 0 ELSE s.directory[x]
     /\ \A fd \in Fds :
          /\ t.conns[fd] = IF fd \in F THEN 0 ELSE s.conns[fd]
          /\ t.channels[fd] = IF fd \in F \cup L THEN NoChannel ELSE s.channels[fd]
          /\ t.interest[fd] = IF fd \in F \cup L THEN "none" ELSE s.interest[fd]
          /\ t.owner[fd] = IF fd \in F \cup L THEN 0 ELSE s.owner[fd]
     /\ \A n \in Sockets :
          /\ t.sock[n].fd = s.sock[n].fd /\ t.sock[n].token = s.sock[n].token
          /\ n \in N \ R => \E r \in Results : t.sock[n].notes = Append(s.sock[n].notes, r)
          /\ n \notin N \ R => t.sock[n].notes = s.sock[n].notes
          /\ ~(\E fd \in F \cup L : s.owner[fd] = n) => t.sock[n].status = s.sock[n].status

\* Tables that agree
LEMMA AgreeTypes ==
  ASSUME NEW s, NEW D, NEW R, TablesAgree(s, D, R)
  PROVE  /\ s \in Tables /\ Polled(s)
         /\ s.owner \in [Fds -> 0 .. MaxSocks] /\ s.conns \in [Fds -> 0 .. MaxSocks]
         /\ s.manager \in [Fds -> 0 .. MaxSocks] /\ s.directory \in [Tokens -> 0 .. MaxFd]
         /\ s.channels \in [Fds -> Channel] /\ s.interest \in [Fds -> Kinds]
         /\ s.sock \in [Sockets -> Socket] /\ s.opened \in 0 .. MaxSocks /\ s.opened \in Nat
         /\ s.timers \subseteq Sockets /\ s.expired \subseteq Sockets /\ s.listening \subseteq Fds
         /\ \A fd \in Fds : /\ s.owner[fd] # 0 => s.owner[fd] \in Sockets
                            /\ s.conns[fd] # 0 => s.conns[fd] \in Sockets
         /\ \A x \in Tokens : s.directory[x] # 0 => s.directory[x] \in Fds
<1>1. s \in Tables /\ Polled(s)
  BY DEF TablesAgree, Polled, ChannelsKnown
<1>2. /\ s.owner \in [Fds -> 0 .. MaxSocks] /\ s.conns \in [Fds -> 0 .. MaxSocks]
      /\ s.manager \in [Fds -> 0 .. MaxSocks] /\ s.directory \in [Tokens -> 0 .. MaxFd]
      /\ s.channels \in [Fds -> Channel] /\ s.interest \in [Fds -> Kinds]
      /\ s.sock \in [Sockets -> Socket] /\ s.opened \in 0 .. MaxSocks
      /\ s.timers \subseteq Sockets /\ s.expired \subseteq Sockets /\ s.listening \subseteq Fds
  BY <1>1 DEF Tables
<1>3. \A m \in 0 .. MaxSocks : m # 0 => m \in Sockets
  BY TcpAssumption DEF Sockets
<1>4. \A m \in 0 .. MaxFd : m # 0 => m \in Fds
  BY TcpAssumption DEF Fds
<1>5. s.opened \in Nat
  BY <1>2
<1>6. \A fd \in Fds : /\ s.owner[fd] # 0 => s.owner[fd] \in Sockets
                      /\ s.conns[fd] # 0 => s.conns[fd] \in Sockets
  BY <1>2, <1>3
<1>7. \A x \in Tokens : s.directory[x] # 0 => s.directory[x] \in Fds
  BY <1>2, <1>4
<1> QED BY <1>1, <1>2, <1>5, <1>6, <1>7

\* 0 is neither a socket nor a descriptor.
LEMMA ZeroIsNone == 0 \notin Sockets /\ 0 \notin Fds /\ 0 \notin Tokens
BY TcpAssumption DEF Sockets, Fds, Tokens

\* What cancelActiveConnecttion does
LEMMA CancelShape ==
  ASSUME NEW s, NEW D, NEW R, TablesAgree(s, D, R), NEW T, T \subseteq Tokens
  PROVE  /\ Cancel(s, T) \in Tables
         /\ \E F \in SUBSET Fds : /\ \A fd \in F : s.conns[fd] # 0
                                  /\ IsDropped(s, Cancel(s, T), F, {}, {})
<1> DEFINE F == {s.directory[x] : x \in T} \cap Keys(s.conns)
           c == EndTasks(s, F)
           co == Erase(c.conns, F, 0)
           di == Erase(c.directory, T, 0)
           t == Cancel(s, T)
<1>1. t = [c EXCEPT !.conns = co, !.directory = di]
  BY DEF Cancel
<1> HIDE DEF t
<1>2. /\ s \in Tables /\ Polled(s) /\ s.conns \in [Fds -> 0 .. MaxSocks]
      /\ s.directory \in [Tokens -> 0 .. MaxFd]
      /\ \A x \in Tokens : s.directory[x] # 0 => s.directory[x] \in Fds
  BY AgreeTypes
<1>3. F \subseteq Fds /\ \A fd \in F : s.conns[fd] # 0
  BY <1>2 DEF Keys
<1>4. \A x \in Tokens : IF x \in T THEN s.directory[x] # 0 => s.directory[x] \in F
                        ELSE s.directory[x] \notin F
  <2> SUFFICES ASSUME NEW x \in Tokens
               PROVE  IF x \in T THEN s.directory[x] # 0 => s.directory[x] \in F
                      ELSE s.directory[x] \notin F
    OBVIOUS
  <2>1. ASSUME s.directory[x] # 0
        PROVE  /\ s.conns[s.directory[x]] # 0 /\ s.directory[x] \in Fds
               /\ s.sock[s.conns[s.directory[x]]].token = x
    BY <1>2, <2>1 DEF TablesAgree, TokensKnown
  <2>2. CASE x \in T
    BY <1>2, <2>1, <2>2 DEF Keys
  <2>3. CASE x \notin T
    <3> SUFFICES ASSUME s.directory[x] \in F PROVE FALSE
      BY <2>3
    <3>1. PICK y \in T : s.directory[x] = s.directory[y]
      OBVIOUS
    <3>2. s.directory[x] # 0
      BY <1>3, ZeroIsNone
    <3>3. y \in Tokens /\ s.directory[y] # 0 /\ x # y
      BY <2>3, <3>1, <3>2
    <3>4. s.sock[s.conns[s.directory[y]]].token = y
      BY <3>3 DEF TablesAgree, TokensKnown
    <3> QED BY <2>1, <3>1, <3>2, <3>3, <3>4
  <2> QED BY <2>2, <2>3
<1> HIDE DEF F
<1>5. c \in Tables /\ IsEnded(s, c, F)
  BY <1>2, <1>3, EndShape, Zenon
<1> HIDE DEF c
<1>6. c.conns = s.conns /\ c.directory = s.directory
  BY <1>5 DEF IsEnded
<1>7. /\ co \in [Fds -> 0 .. MaxSocks]
      /\ \A fd \in Fds : co[fd] = IF fd \in F THEN 0 ELSE s.conns[fd]
  <2>1. 0 \in 0 .. MaxSocks
    BY TcpAssumption
  <2> QED BY <1>2, <1>6, <2>1 DEF Erase
<1>8. /\ di \in [Tokens -> 0 .. MaxFd]
      /\ \A x \in Tokens : di[x] = IF s.directory[x] \in F THEN 0 ELSE s.directory[x]
  <2>1. 0 \in 0 .. MaxFd
    BY TcpAssumption
  <2>2. /\ di \in [Tokens -> 0 .. MaxFd]
        /\ \A x \in Tokens : di[x] = IF x \in T THEN 0 ELSE s.directory[x]
    BY <1>2, <1>6, <2>1 DEF Erase
  <2> HIDE DEF di
  <2> QED BY <1>4, <2>2
<1> HIDE DEF co, di
<1>9. t \in Tables /\ t.conns = co /\ t.directory = di
  BY <1>1, <1>5, <1>7, <1>8 DEF Tables
<1>10. /\ t.listening = c.listening /\ t.timers = c.timers /\ t.expired = c.expired
       /\ t.nextToken = c.nextToken
       /\ t.channels = c.channels /\ t.interest = c.interest /\ t.owner = c.owner
       /\ t.opened = c.opened /\ t.sock = c.sock /\ t.manager = c.manager
  BY <1>1, <1>5 DEF Tables
<1>11. IsDropped(s, t, F, {}, {})
  BY <1>5, <1>7, <1>8, <1>9, <1>10 DEF IsEnded, IsDropped, Results
<1> QED BY <1>3, <1>9, <1>11 DEF t

\* Tables with the same entries
IsSame(s, t) ==
  /\ t.timers = s.timers /\ t.expired = s.expired /\ t.listening = s.listening
  /\ t.nextToken = s.nextToken /\ t.opened = s.opened /\ t.manager = s.manager
  /\ \A x \in Tokens : t.directory[x] = s.directory[x]
  /\ \A fd \in Fds : /\ t.conns[fd] = s.conns[fd] /\ t.owner[fd] = s.owner[fd]
                     /\ t.channels[fd] = s.channels[fd] /\ t.interest[fd] = s.interest[fd]
  /\ \A n \in Sockets : /\ t.sock[n].fd = s.sock[n].fd /\ t.sock[n].token = s.sock[n].token
                        /\ t.sock[n].notes = s.sock[n].notes
                        /\ t.sock[n].status = s.sock[n].status

\* A cancel of tokens that are not in use
LEMMA IdleCancel ==
  ASSUME NEW s \in Tables, Polled(s), \A x \in Tokens : s.directory[x] = 0
  PROVE  Cancel(s, Tokens) \in Tables /\ IsSame(s, Cancel(s, Tokens))
<1> DEFINE F == {s.directory[x] : x \in Tokens} \cap Keys(s.conns)
           c == EndTasks(s, F)
           co == Erase(c.conns, F, 0)
           di == Erase(c.directory, Tokens, 0)
           t == Cancel(s, Tokens)
<1>1. t = [c EXCEPT !.conns = co, !.directory = di]
  BY DEF Cancel
<1>2. s.conns \in [Fds -> 0 .. MaxSocks] /\ s.directory \in [Tokens -> 0 .. MaxFd]
  BY DEF Tables
<1>3. F = {}
  BY <1>2, ZeroIsNone DEF Keys
<1> HIDE DEF F, t
<1>4. c \in Tables /\ IsEnded(s, c, F)
  <2>1. F \subseteq Fds
    BY <1>3
  <2> QED BY <2>1, EndShape, Zenon
<1> HIDE DEF c
<1>5. c.conns = s.conns /\ c.directory = s.directory
  BY <1>4 DEF IsEnded
<1>6. co \in [Fds -> 0 .. MaxSocks] /\ \A fd \in Fds : co[fd] = s.conns[fd]
  BY <1>2, <1>3, <1>5 DEF Erase
<1>7. di \in [Tokens -> 0 .. MaxFd] /\ \A x \in Tokens : di[x] = s.directory[x]
  <2>1. 0 \in 0 .. MaxFd
    BY TcpAssumption
  <2> QED BY <1>2, <1>5, <2>1 DEF Erase
<1> HIDE DEF co, di
<1>8. t \in Tables /\ t.conns = co /\ t.directory = di
  BY <1>1, <1>4, <1>6, <1>7 DEF Tables
<1>9. /\ t.listening = c.listening /\ t.timers = c.timers /\ t.expired = c.expired
      /\ t.nextToken = c.nextToken
      /\ t.channels = c.channels /\ t.interest = c.interest /\ t.owner = c.owner
      /\ t.opened = c.opened /\ t.sock = c.sock /\ t.manager = c.manager
  BY <1>1, <1>4 DEF Tables
<1>10. IsSame(s, t)
  BY <1>3, <1>4, <1>6, <1>7, <1>8, <1>9 DEF IsEnded, IsSame
<1> QED BY <1>8, <1>10 DEF t

\* What stopAll does when its handler does not connect
LEMMA StopShape ==
  ASSUME NEW s, NEW D, NEW R, TablesAgree(s, D, R), NEW op \in {"none", "cancelAll"}
  PROVE  /\ StopAll(s, op) \in Tables
         /\ IsDropped(s, StopAll(s, op), Keys(s.conns), s.listening, {})
<1> DEFINE L == s.listening
           F == Keys(s.conns)
           a == RemoveChannels(s, L)
           b == CloseFds(a, L)
           u == [b EXCEPT !.listening = {}]
           e == EndTasks(u, F)
           K == {s.sock[s.conns[fd]].token : fd \in F}
           di == Erase(e.directory, K, 0)
           st == [e EXCEPT !.directory = di]
           told == IF F = {} THEN st ELSE Handler(st, op, "visit")
           co == Erase(told.conns, Fds, 0)
           t == StopAll(s, op)
<1>1. t = [told EXCEPT !.conns = co]
  BY DEF StopAll
<1> HIDE DEF t
<1>2. /\ s \in Tables /\ Polled(s) /\ L \subseteq Fds /\ s.conns \in [Fds -> 0 .. MaxSocks]
      /\ s.directory \in [Tokens -> 0 .. MaxFd]
      /\ \A x \in Tokens : s.directory[x] # 0 => s.directory[x] \in Fds
  BY AgreeTypes
<1>3. F \subseteq Fds /\ \A fd \in Fds : fd \in F <=> s.conns[fd] # 0
  BY <1>2 DEF Keys
<1>4. \A x \in Tokens : s.directory[x] # 0 => x \in K /\ s.directory[x] \in F
  <2> SUFFICES ASSUME NEW x \in Tokens, s.directory[x] # 0 PROVE x \in K /\ s.directory[x] \in F
    OBVIOUS
  <2>1. /\ s.conns[s.directory[x]] # 0 /\ s.directory[x] \in Fds
        /\ s.sock[s.conns[s.directory[x]]].token = x
    BY <1>2 DEF TablesAgree, TokensKnown
  <2>2. s.directory[x] \in F
    BY <1>3, <2>1
  <2> QED BY <2>1, <2>2
<1> HIDE DEF L, F, K
<1>5. a \in Tables /\ IsRemoved(s, a, L)
  BY <1>2, RemoveShape, Zenon
<1> HIDE DEF a
<1>6. b \in Tables /\ IsClosed(a, b, L)
  BY <1>5, CloseShape, Zenon
<1> HIDE DEF b
<1>7. /\ u \in Tables /\ u.listening = {} /\ u.timers = b.timers /\ u.expired = b.expired
      /\ u.conns = b.conns /\ u.directory = b.directory /\ u.nextToken = b.nextToken
      /\ u.channels = b.channels /\ u.interest = b.interest /\ u.owner = b.owner
      /\ u.opened = b.opened /\ u.sock = b.sock /\ u.manager = b.manager
  BY <1>6 DEF Tables
<1> HIDE DEF u
<1>8. Polled(u)
  BY <1>2, <1>5, <1>6, <1>7 DEF Polled, IsRemoved, IsClosed
<1>9. e \in Tables /\ IsEnded(u, e, F)
  BY <1>3, <1>7, <1>8, EndShape, Zenon
<1> HIDE DEF e
<1>10. u.conns = s.conns /\ e.conns = s.conns /\ e.directory = s.directory
  BY <1>5, <1>6, <1>7, <1>9 DEF IsRemoved, IsClosed, IsEnded
<1>11. di \in [Tokens -> 0 .. MaxFd] /\ \A x \in Tokens : di[x] = 0
  <2>1. 0 \in 0 .. MaxFd
    BY TcpAssumption
  <2> QED BY <1>2, <1>4, <1>10, <2>1 DEF Erase
<1> HIDE DEF di
<1>12. /\ st \in Tables /\ st.directory = di
       /\ st.listening = e.listening /\ st.timers = e.timers /\ st.expired = e.expired
       /\ st.nextToken = e.nextToken /\ st.conns = e.conns
       /\ st.channels = e.channels /\ st.interest = e.interest /\ st.owner = e.owner
       /\ st.opened = e.opened /\ st.sock = e.sock /\ st.manager = e.manager
  BY <1>9, <1>11 DEF Tables
<1> HIDE DEF st
<1>13. Polled(st)
  BY <1>8, <1>9, <1>12 DEF Polled, IsEnded
<1>14. told \in Tables /\ IsSame(st, told)
  <2>1. IsSame(st, st)
    BY DEF IsSame
  <2>2. told = st \/ told = Cancel(st, Tokens)
    BY DEF Handler
  <2>3. Cancel(st, Tokens) \in Tables /\ IsSame(st, Cancel(st, Tokens))
    <3>1. \A x \in Tokens : st.directory[x] = 0
      BY <1>11, <1>12
    <3> QED BY <1>12, <1>13, <3>1, IdleCancel, Zenon
  <2> HIDE DEF told
  <2> QED BY <1>12, <2>1, <2>2, <2>3
<1> HIDE DEF told
<1>15. co \in [Fds -> 0 .. MaxSocks] /\ \A fd \in Fds : co[fd] = 0
  <2>1. told.conns \in [Fds -> 0 .. MaxSocks]
    BY <1>14 DEF Tables
  <2>2. 0 \in 0 .. MaxSocks
    BY TcpAssumption
  <2> QED BY <2>1, <2>2 DEF Erase
<1> HIDE DEF co
<1>16. /\ t \in Tables /\ t.conns = co
       /\ t.listening = told.listening /\ t.timers = told.timers /\ t.expired = told.expired
       /\ t.nextToken = told.nextToken /\ t.directory = told.directory
       /\ t.channels = told.channels /\ t.interest = told.interest /\ t.owner = told.owner
       /\ t.opened = told.opened /\ t.sock = told.sock /\ t.manager = told.manager
  BY <1>1, <1>14, <1>15 DEF Tables
<1> DEFINE N == {s.conns[fd] : fd \in F}
<1>17. /\ t.timers = s.timers \ N /\ t.expired = s.expired \ N /\ t.listening = s.listening \ L
       /\ t.nextToken = s.nextToken /\ t.opened = s.opened /\ t.manager = s.manager
  BY <1>5, <1>6, <1>7, <1>9, <1>10, <1>12, <1>14, <1>16
  DEF IsRemoved, IsClosed, IsEnded, IsSame, L
<1>18. \A x \in Tokens : t.directory[x] = IF s.directory[x] \in F THEN 0 ELSE s.directory[x]
  BY <1>4, <1>11, <1>12, <1>14, <1>16 DEF IsSame
<1>19. ASSUME NEW fd \in Fds
       PROVE  /\ t.conns[fd] = IF fd \in F THEN 0 ELSE s.conns[fd]
              /\ t.channels[fd] = IF fd \in F \cup L THEN NoChannel ELSE s.channels[fd]
              /\ t.interest[fd] = IF fd \in F \cup L THEN "none" ELSE s.interest[fd]
              /\ t.owner[fd] = IF fd \in F \cup L THEN 0 ELSE s.owner[fd]
  BY <1>3, <1>5, <1>6, <1>7, <1>9, <1>12, <1>14, <1>15, <1>16
  DEF IsRemoved, IsClosed, IsEnded, IsSame
<1>20. ASSUME NEW n \in Sockets
       PROVE  /\ t.sock[n].fd = s.sock[n].fd /\ t.sock[n].token = s.sock[n].token
              /\ n \in N => t.sock[n].notes = Append(s.sock[n].notes, "cancel")
              /\ n \notin N => t.sock[n].notes = s.sock[n].notes
              /\ ~(\E fd \in F \cup L : s.owner[fd] = n) => t.sock[n].status = s.sock[n].status
  <2>1. /\ t.sock[n].fd = e.sock[n].fd /\ t.sock[n].token = e.sock[n].token
        /\ t.sock[n].notes = e.sock[n].notes /\ t.sock[n].status = e.sock[n].status
    BY <1>12, <1>14, <1>16 DEF IsSame
  <2>2. /\ e.sock[n].fd = u.sock[n].fd /\ e.sock[n].token = u.sock[n].token
        /\ n \in N => e.sock[n].notes = Append(u.sock[n].notes, "cancel")
        /\ n \notin N => e.sock[n].notes = u.sock[n].notes
        /\ ~(\E fd \in F : u.owner[fd] = n) => e.sock[n].status = u.sock[n].status
    BY <1>9, <1>10 DEF IsEnded
  <2>3. /\ u.sock[n].fd = s.sock[n].fd /\ u.sock[n].token = s.sock[n].token
        /\ u.sock[n].notes = s.sock[n].notes
        /\ ~(\E fd \in L : s.owner[fd] = n) => u.sock[n].status = s.sock[n].status
    BY <1>5, <1>6, <1>7 DEF IsRemoved, IsClosed
  <2>4. \A fd \in F : u.owner[fd] = n => s.owner[fd] = n
    <3>1. n # 0
      BY ZeroIsNone
    <3> QED BY <1>3, <1>5, <1>6, <1>7, <3>1 DEF IsRemoved, IsClosed
  <2> QED BY <2>1, <2>2, <2>3, <2>4
<1>21. IsDropped(s, t, F, L, {})
  BY <1>17, <1>18, <1>19, <1>20 DEF IsDropped, Results
<1> QED BY <1>16, <1>21 DEF t, F, L

\* A task has one descriptor.
LEMMA OneDescriptor ==
  ASSUME NEW s, NEW D, NEW R, TablesAgree(s, D, R), NEW f \in Fds, NEW g \in Fds,
         s.conns[f] # 0, s.conns[f] = s.conns[g]
  PROVE  f = g
<1>1. s.owner[f] = s.conns[f] /\ s.owner[g] = s.conns[g]
  BY DEF TablesAgree, TasksKnown
<1>2. s.sock[s.owner[f]].fd = f /\ s.sock[s.owner[g]].fd = g
  BY <1>1 DEF TablesAgree, OwnersKnown
<1> QED BY <1>1, <1>2

\* The tables agree after tasks and listening sockets ended.
LEMMA DropKeeps ==
  ASSUME NEW s, NEW D, NEW R, TablesAgree(s, D, R), D \subseteq Sockets, NEW F \in SUBSET Fds, NEW L, L \subseteq s.listening,
         \A fd \in F : s.conns[fd] # 0,
         NEW t \in Tables, IsDropped(s, t, F, L, R),
         NEW N, N = {s.conns[fd] : fd \in F}
  PROVE  TablesAgree(t, D \ N, R \ N)
<1>1. /\ t.timers = s.timers \ N /\ t.expired = s.expired \ N /\ t.listening = s.listening \ L
      /\ t.opened = s.opened /\ t.manager = s.manager
  BY DEF IsDropped
<1>2. \A x \in Tokens : t.directory[x] = IF s.directory[x] \in F THEN 0 ELSE s.directory[x]
  BY DEF IsDropped
<1>3. \A fd \in Fds :
        /\ t.conns[fd] = IF fd \in F THEN 0 ELSE s.conns[fd]
        /\ t.channels[fd] = IF fd \in F \cup L THEN NoChannel ELSE s.channels[fd]
        /\ t.interest[fd] = IF fd \in F \cup L THEN "none" ELSE s.interest[fd]
        /\ t.owner[fd] = IF fd \in F \cup L THEN 0 ELSE s.owner[fd]
  BY DEF IsDropped
<1>4. \A n \in Sockets :
        /\ t.sock[n].fd = s.sock[n].fd /\ t.sock[n].token = s.sock[n].token
        /\ n \in N \ R => \E r \in Results : t.sock[n].notes = Append(s.sock[n].notes, r)
        /\ n \notin N \ R => t.sock[n].notes = s.sock[n].notes
  BY DEF IsDropped
<1>5. /\ OwnersKnown(s) /\ TasksKnown(s, D, R) /\ TokensKnown(s) /\ TimersKnown(s, D)
      /\ ChannelsKnown(s) /\ HeldOnce(s) /\ ToldOnce(s)
  BY DEF TablesAgree
<1>6. /\ \A fd \in Fds : /\ s.owner[fd] # 0 => s.owner[fd] \in Sockets
                         /\ s.conns[fd] # 0 => s.conns[fd] \in Sockets
      /\ \A x \in Tokens : s.directory[x] # 0 => s.directory[x] \in Fds
      /\ s.timers \subseteq Sockets /\ s.listening \subseteq Fds
  BY AgreeTypes
<1>7. \A fd \in Fds : s.conns[fd] # 0 => (s.conns[fd] \in N <=> fd \in F)
  <2> SUFFICES ASSUME NEW fd \in Fds, s.conns[fd] # 0, s.conns[fd] \in N PROVE fd \in F
    OBVIOUS
  <2>1. PICK g \in F : s.conns[fd] = s.conns[g]
    OBVIOUS
  <2>2. fd = g
    BY <2>1, OneDescriptor
  <2> QED BY <2>2
<1>8. \A fd \in Fds : fd \in L => s.conns[fd] = 0 /\ s.manager[fd] = 0
  BY <1>5 DEF HeldOnce
<1>9. \A fd \in Fds : fd \in F => s.manager[fd] = 0 /\ fd \notin s.listening
  BY <1>5 DEF HeldOnce
<1>10. OwnersKnown(t)
  <2> SUFFICES ASSUME NEW fd \in Fds, t.owner[fd] # 0
               PROVE  t.owner[fd] <= t.opened /\ t.sock[t.owner[fd]].fd = fd
    BY DEF OwnersKnown
  <2>1. t.owner[fd] = s.owner[fd] /\ s.owner[fd] \in Sockets
    BY <1>3, <1>6
  <2> QED BY <1>1, <1>4, <1>5, <2>1 DEF OwnersKnown
<1>11. TasksKnown(t, D \ N, R \ N)
  <2> SUFFICES ASSUME NEW fd \in Fds, t.conns[fd] # 0
               PROVE  /\ t.owner[fd] = t.conns[fd]
                      /\ t.sock[t.conns[fd]].token \in Tokens
                      /\ t.directory[t.sock[t.conns[fd]].token] = fd
                      /\ t.conns[fd] \in t.timers \cup (D \ N)
                      /\ t.conns[fd] \notin R \ N => t.sock[t.conns[fd]].notes = <<>>
    BY DEF TasksKnown
  <2>1. fd \notin F /\ t.conns[fd] = s.conns[fd] /\ s.conns[fd] # 0 /\ s.conns[fd] \in Sockets
    BY <1>3, <1>6
  <2>2. fd \notin L /\ t.owner[fd] = s.owner[fd] /\ s.conns[fd] \notin N
    BY <1>3, <1>7, <1>8, <2>1
  <2>3. /\ s.owner[fd] = s.conns[fd]
        /\ s.sock[s.conns[fd]].token \in Tokens
        /\ s.directory[s.sock[s.conns[fd]].token] = fd
        /\ s.conns[fd] \in s.timers \cup D
        /\ s.conns[fd] \notin R => s.sock[s.conns[fd]].notes = <<>>
    BY <1>5, <2>1 DEF TasksKnown
  <2> QED BY <1>1, <1>2, <1>4, <2>1, <2>2, <2>3
<1>12. TokensKnown(t)
  <2> SUFFICES ASSUME NEW x \in Tokens, t.directory[x] # 0
               PROVE  t.conns[t.directory[x]] # 0 /\ t.sock[t.conns[t.directory[x]]].token = x
    BY DEF TokensKnown
  <2>1. t.directory[x] = s.directory[x] /\ s.directory[x] \in Fds /\ s.directory[x] \notin F
    BY <1>2, <1>6
  <2>2. s.conns[s.directory[x]] # 0 /\ s.sock[s.conns[s.directory[x]]].token = x
    BY <1>5, <2>1 DEF TokensKnown
  <2> QED BY <1>3, <1>4, <1>6, <2>1, <2>2
<1>13. TimersKnown(t, D \ N)
  <2>1. t.expired \subseteq t.timers
    BY <1>1, <1>5 DEF TimersKnown
  <2> SUFFICES ASSUME NEW m \in t.timers \cup (D \ N)
               PROVE  t.sock[m].fd \in Fds /\ t.conns[t.sock[m].fd] = m
    BY <2>1 DEF TimersKnown
  <2>2. m \in s.timers \cup D /\ m \notin N /\ m \in Sockets /\ m # 0
    BY <1>1, <1>6, ZeroIsNone
  <2>3. s.sock[m].fd \in Fds /\ s.conns[s.sock[m].fd] = m
    BY <1>5, <2>2 DEF TimersKnown
  <2>4. s.sock[m].fd \notin F
    BY <1>7, <2>2, <2>3
  <2> QED BY <1>3, <1>4, <2>2, <2>3, <2>4
<1>14. ChannelsKnown(t)
  <2> SUFFICES ASSUME NEW fd \in Fds
               PROVE  /\ t.channels[fd] = NoChannel => t.interest[fd] = "none"
                      /\ t.channels[fd] # NoChannel =>
                           /\ t.interest[fd] = t.channels[fd].kind /\ t.interest[fd] # "none"
                           /\ t.owner[fd] # 0 /\ t.channels[fd].n = t.owner[fd]
                           /\ t.channels[fd].kind = "task" => t.conns[fd] = t.owner[fd]
                           /\ t.channels[fd].kind = "conn" => t.manager[fd] = t.owner[fd]
    BY DEF ChannelsKnown
  <2>1. CASE fd \in F \cup L
    BY <1>3, <2>1
  <2>2. CASE fd \notin F \cup L
    BY <1>1, <1>3, <1>5, <2>2 DEF ChannelsKnown
  <2> QED BY <2>1, <2>2
<1>15. HeldOnce(t)
  <2> SUFFICES ASSUME NEW fd \in Fds
               PROVE  /\ t.owner[fd] # 0 <=> (fd \in t.listening \/ t.conns[fd] # 0 \/ t.manager[fd] # 0)
                      /\ ~(t.conns[fd] # 0 /\ t.manager[fd] # 0)
                      /\ fd \in t.listening => t.conns[fd] = 0 /\ t.manager[fd] = 0
                      /\ t.manager[fd] # 0 => t.manager[fd] = t.owner[fd]
    BY DEF HeldOnce
  <2>1. CASE fd \in F \cup L
    BY <1>1, <1>3, <1>8, <1>9, <2>1
  <2>2. CASE fd \notin F \cup L
    BY <1>1, <1>3, <1>5, <2>2 DEF HeldOnce
  <2> QED BY <2>1, <2>2
<1>16. ToldOnce(t)
  <2> SUFFICES ASSUME NEW m \in Sockets PROVE Len(t.sock[m].notes) <= 1
    BY DEF ToldOnce
  <2>1. CASE m \in N \ R
    <3>1. PICK fd \in F : m = s.conns[fd]
      BY <2>1
    <3>2. s.sock[m].notes = <<>>
      BY <1>5, <2>1, <3>1 DEF TasksKnown
    <3>3. PICK r \in Results : t.sock[m].notes = Append(<<>>, r)
      BY <1>4, <2>1, <3>2
    <3> QED BY <3>3
  <2>2. CASE m \notin N \ R
    BY <1>4, <1>5, <2>2 DEF ToldOnce
  <2> QED BY <2>1, <2>2
<1> QED BY <1>10, <1>11, <1>12, <1>13, <1>14, <1>15, <1>16 DEF TablesAgree

\* The tables agree after the calls of a handler.
LEMMA HandlerKeeps ==
  ASSUME TokensSuffice, NEW s, TablesAgree(s, {}, {}), backlog \in Nat,
         NEW op, NEW by \in {"visit", "io"}
  PROVE  TablesAgree(Handler(s, op, by), {}, {})
<1>1. TablesAgree(ActiveConnect(s, by), {}, {})
  BY StartKeeps
<1>2. TablesAgree(Cancel(s, Tokens), {}, {})
  <2>1. /\ Cancel(s, Tokens) \in Tables
        /\ \E F \in SUBSET Fds : /\ \A fd \in F : s.conns[fd] # 0
                                 /\ IsDropped(s, Cancel(s, Tokens), F, {}, {})
    BY CancelShape
  <2>2. PICK F \in SUBSET Fds : /\ \A fd \in F : s.conns[fd] # 0
                                /\ IsDropped(s, Cancel(s, Tokens), F, {}, {})
    BY <2>1
  <2> DEFINE N == {s.conns[fd] : fd \in F}
  <2>3. {} \subseteq s.listening /\ {} \subseteq Sockets /\ {} \ N = {}
    OBVIOUS
  <2> DEFINE t == Cancel(s, Tokens)
  <2> HIDE DEF N, t
  <2>4. TablesAgree(t, {} \ N, {} \ N)
    BY <2>1, <2>2, <2>3, DropKeeps, Zenon DEF N, t
  <2> QED BY <2>3, <2>4 DEF t
<1> QED BY <1>1, <1>2 DEF Handler

\* They stay within the bound on sockets.
LEMMA HandlerBound ==
  ASSUME TokensSuffice, NEW s, NEW D, NEW R, TablesAgree(s, D, R), backlog \in Nat,
         s.opened + backlog <= MaxSocks, NEW op, NEW by \in {"visit", "io"}
  PROVE  Handler(s, op, by).opened + backlog <= MaxSocks
<1>1. s.opened \in Nat
  BY AgreeTypes
<1>2. ActiveConnect(s, by).opened + backlog <= MaxSocks
  <2> DEFINE t == ActiveConnect(s, by)
  <2>1. CASE t = s
    BY <2>1
  <2>2. CASE t # s
    <3>1. /\ MayOpen(s)
          /\ \E f \in Fds, k \in Tokens :
               /\ s.owner[f] = 0 /\ s.directory[k] = 0 /\ s.opened + 1 \in Sockets
               /\ IsStarted(s, t, f, s.opened + 1, k)
      BY <2>2, StartShape, Zenon
    <3> HIDE DEF t
    <3>2. t.opened = s.opened + 1
      BY <3>1 DEF IsStarted
    <3>3. s.opened + backlog < MaxSocks
      BY <3>1 DEF MayOpen
    <3>4. MaxSocks \in Nat
      BY TcpAssumption
    <3>5. (s.opened + 1) + backlog <= MaxSocks
      BY <1>1, <3>3, <3>4
    <3> QED BY <3>2, <3>5 DEF t
  <2> QED BY <2>1, <2>2
<1>3. Cancel(s, Tokens).opened = s.opened
  <2> DEFINE t == Cancel(s, Tokens)
  <2>1. \E F \in SUBSET Fds : IsDropped(s, t, F, {}, {})
    BY CancelShape
  <2> HIDE DEF t
  <2> QED BY <2>1 DEF IsDropped, t
<1> QED BY <1>2, <1>3 DEF Handler

-----------------------------------------------------------------------------
(* The callbacks of a task *)

\* release_task and close_socket
LEMMA FreeShape ==
  ASSUME NEW s, NEW D, NEW R, TablesAgree(s, D, R), NEW n \in Sockets, NEW f \in Fds,
         s.conns[f] = n, s.sock[n].fd = f
  PROVE  /\ CloseFds(ReleaseTask(s, n), {f}) \in Tables
         /\ IsDropped(s, CloseFds(ReleaseTask(s, n), {f}), {f}, {}, {n})
<1> DEFINE a == ReleaseTask(s, n)
           t == CloseFds(a, {f})
           k == s.sock[n].token
<1>1. s \in Tables /\ Polled(s) /\ n # 0 /\ f # 0
  BY AgreeTypes, ZeroIsNone
<1>2. a \in Tables /\ IsFreed(s, a, n, f, k)
  BY <1>1, ReleaseShape
<1> HIDE DEF a
<1>3. t \in Tables /\ IsClosed(a, t, {f})
  BY <1>2, CloseShape, Zenon
<1> HIDE DEF t
<1>4. \A x \in Tokens : x = k <=> s.directory[x] = f
  <2>1. k \in Tokens /\ s.directory[k] = f
    BY <1>1 DEF TablesAgree, TasksKnown
  <2>2. \A x \in Tokens : s.directory[x] = f => k = x
    BY <1>1 DEF TablesAgree, TokensKnown
  <2> QED BY <2>1, <2>2
<1> HIDE DEF k
<1>5. /\ t.timers = s.timers \ {n} /\ t.expired = s.expired \ {n} /\ t.listening = s.listening
      /\ t.nextToken = s.nextToken /\ t.opened = s.opened /\ t.manager = s.manager
  BY <1>2, <1>3 DEF IsFreed, IsClosed
<1>6. \A x \in Tokens : t.directory[x] = IF s.directory[x] \in {f} THEN 0 ELSE s.directory[x]
  BY <1>2, <1>3, <1>4 DEF IsFreed, IsClosed
<1>7. ASSUME NEW fd \in Fds
      PROVE  /\ t.conns[fd] = IF fd \in {f} THEN 0 ELSE s.conns[fd]
             /\ t.channels[fd] = IF fd \in {f} THEN NoChannel ELSE s.channels[fd]
             /\ t.interest[fd] = IF fd \in {f} THEN "none" ELSE s.interest[fd]
             /\ t.owner[fd] = IF fd \in {f} THEN 0 ELSE s.owner[fd]
  BY <1>2, <1>3 DEF IsFreed, IsClosed
<1>8. ASSUME NEW m \in Sockets
      PROVE  /\ t.sock[m].fd = s.sock[m].fd /\ t.sock[m].token = s.sock[m].token
             /\ t.sock[m].notes = s.sock[m].notes
             /\ ~(\E fd \in {f} : s.owner[fd] = m) => t.sock[m].status = s.sock[m].status
  BY <1>2, <1>3 DEF IsFreed, IsClosed
<1>9. {s.conns[fd] : fd \in {f}} = {n}
  OBVIOUS
<1>10. IsDropped(s, t, {f}, {}, {n})
  BY <1>5, <1>6, <1>7, <1>8, <1>9 DEF IsDropped
<1> QED BY <1>3, <1>10 DEF t, a

\* The tables agree, but for the task that is told, after notifyActiveConnection.
LEMMA ToldKeeps ==
  ASSUME NEW s, NEW D, TablesAgree(s, D, {}), D \subseteq Sockets,
         NEW n \in Sockets, NEW f \in Fds, s.conns[f] = n, NEW r \in Results
  PROVE  TablesAgree(Noted(s, {n}, r), D, {n})
<1> DEFINE t == Noted(s, {n}, r)
<1>1. s \in Tables
  BY DEF TablesAgree
<1>2. t \in Tables /\ IsTold(s, t, {n}, r)
  BY <1>1, NotedShape, Zenon
<1> HIDE DEF t
<1>3. /\ OwnersKnown(s) /\ TasksKnown(s, D, {}) /\ TokensKnown(s) /\ TimersKnown(s, D)
      /\ ChannelsKnown(s) /\ HeldOnce(s) /\ ToldOnce(s)
  BY DEF TablesAgree
<1>4. /\ \A fd \in Fds : /\ s.owner[fd] # 0 => s.owner[fd] \in Sockets
                         /\ s.conns[fd] # 0 => s.conns[fd] \in Sockets
      /\ \A x \in Tokens : s.directory[x] # 0 => s.directory[x] \in Fds
      /\ s.timers \subseteq Sockets
  BY AgreeTypes
<1>5. OwnersKnown(t)
  BY <1>2, <1>3, <1>4 DEF OwnersKnown, IsTold
<1>6. TasksKnown(t, D, {n})
  BY <1>2, <1>3, <1>4 DEF TasksKnown, IsTold
<1>7. TokensKnown(t)
  BY <1>2, <1>3, <1>4 DEF TokensKnown, IsTold
<1>8. TimersKnown(t, D)
  BY <1>2, <1>3, <1>4 DEF TimersKnown, IsTold
<1>9. ChannelsKnown(t) /\ HeldOnce(t)
  BY <1>2, <1>3 DEF ChannelsKnown, HeldOnce, IsTold
<1>10. ToldOnce(t)
  <2> SUFFICES ASSUME NEW m \in Sockets PROVE Len(t.sock[m].notes) <= 1
    BY DEF ToldOnce
  <2>1. CASE m = n
    <3>1. s.sock[m].notes = <<>>
      BY <1>3, <2>1, ZeroIsNone DEF TasksKnown
    <3>2. t.sock[m].notes = Append(<<>>, r)
      BY <1>2, <2>1, <3>1 DEF IsTold
    <3> QED BY <3>2
  <2>2. CASE m # n
    BY <1>2, <1>3, <2>2 DEF ToldOnce, IsTold
  <2> QED BY <2>1, <2>2
<1> QED BY <1>2, <1>5, <1>6, <1>7, <1>8, <1>9, <1>10 DEF TablesAgree, t

\* The handler is told of the task n in the tables a, calls what leads to h, and
\* then the task with descriptor f is released.
TimesOut(s, t, D, n, f, a, h, op) ==
  /\ s.conns[f] = n /\ IsTold(s, a, {n}, "fail") /\ TablesAgree(a, D, {n})
  /\ h = Handler(a, op, "visit") /\ TablesAgree(h, D, {n}) /\ h.conns[f] = n
  /\ IsDropped(h, t, {f}, {}, {n})

\* The callback of a timer
LEMMA TimedOutKeeps ==
  ASSUME TokensSuffice, NEW s, NEW D, TablesAgree(s, D, {}), D \subseteq Sockets,
         NEW n \in D, NEW op \in {"none", "connect"}, backlog \in Nat,
         s.opened + backlog <= MaxSocks
  PROVE  /\ TablesAgree(TimedOut(s, n, op), D \ {n}, {})
         /\ TimedOut(s, n, op).opened + backlog <= MaxSocks
         /\ \E f \in Fds : \E a, h : TimesOut(s, TimedOut(s, n, op), D, n, f, a, h, op)
<1> DEFINE f == s.sock[n].fd
           a == Noted(s, {n}, "fail")
           h == Handler(a, op, "visit")
           t == CloseFds(ReleaseTask(h, n), {f})
<1>1. t = TimedOut(s, n, op)
  BY DEF TimedOut
<1>2. n \in Sockets /\ f \in Fds /\ s.conns[f] = n /\ s \in Tables /\ n # 0
  BY ZeroIsNone DEF TablesAgree, TimersKnown
<1>3. "fail" \in Results
  BY DEF Results
<1> HIDE DEF f
<1>4. TablesAgree(a, D, {n})
  BY <1>2, <1>3, ToldKeeps, Zenon
<1>5. IsTold(s, a, {n}, "fail") /\ h = Handler(a, op, "visit")
  BY <1>2, <1>3, NotedShape, Zenon
<1>6. h.opened + backlog <= MaxSocks
  <2> HIDE DEF a
  <2>1. a.opened = s.opened
    BY <1>5 DEF IsTold
  <2>2. a.opened + backlog <= MaxSocks
    BY <2>1
  <2> QED BY <1>4, <2>2, HandlerBound, Zenon
<1> HIDE DEF a
<1>7. TablesAgree(h, D, {n})
  <2>1. h = a \/ h = ActiveConnect(a, "visit")
    BY DEF Handler
  <2>2. TablesAgree(ActiveConnect(a, "visit"), D, {n})
    BY <1>4, StartKeeps, Zenon
  <2> HIDE DEF h
  <2> QED BY <1>4, <2>1, <2>2
<1>8. h.sock[n].fd = f /\ h.conns[f] = n
  <2>1. a.sock[n].fd = f /\ a.conns[f] = n
    <3>1. IsTold(s, Noted(s, {n}, "fail"), {n}, "fail")
      BY <1>2, <1>3, NotedShape
    <3> QED BY <1>2, <3>1 DEF IsTold, a, f
  <2>2. CASE h = a
    BY <2>1, <2>2
  <2>3. CASE h # a
    <3>1. h = ActiveConnect(a, "visit")
      BY <2>3 DEF Handler
    <3>2. ActiveConnect(a, "visit") # a
      BY <2>3, <3>1
    <3>3. \E g \in Fds, k \in Tokens :
            /\ a.owner[g] = 0 /\ a.directory[k] = 0 /\ a.opened + 1 \in Sockets
            /\ IsStarted(a, ActiveConnect(a, "visit"), g, a.opened + 1, k)
      BY <1>4, <3>2, StartShape, Zenon
    <3> HIDE DEF h
    <3>4. PICK g \in Fds, k \in Tokens :
            a.owner[g] = 0 /\ IsStarted(a, h, g, a.opened + 1, k)
      BY <3>1, <3>3
    <3>5. a.owner[f] = n /\ n <= a.opened /\ a.opened \in Nat /\ n \in Nat
      <4>1. a.owner[f] = n /\ a.owner[f] # 0
        BY <1>2, <1>4, <2>1 DEF TablesAgree, TasksKnown
      <4>2. a.owner[f] <= a.opened
        BY <1>2, <1>4, <4>1 DEF TablesAgree, OwnersKnown
      <4>3. a.opened \in Nat /\ n \in Nat
        BY <1>2, <1>4, AgreeTypes DEF Sockets
      <4> QED BY <4>1, <4>2, <4>3
    <3>6. f # g
      BY <1>2, <3>4, <3>5
    <3>7. n # a.opened + 1
      BY <3>5
    <3> QED BY <1>2, <2>1, <3>4, <3>6, <3>7 DEF IsStarted
  <2> QED BY <2>2, <2>3
<1> HIDE DEF h
<1>9. t \in Tables /\ IsDropped(h, t, {f}, {}, {n})
  BY <1>2, <1>7, <1>8, FreeShape, Zenon
<1> HIDE DEF t
<1>10. /\ {h.conns[fd] : fd \in {f}} = {n} /\ {f} \in SUBSET Fds /\ {} \subseteq h.listening
      /\ \A fd \in {f} : h.conns[fd] # 0
  BY <1>2, <1>8
<1>11. TablesAgree(t, D \ {n}, {n} \ {n})
  BY <1>7, <1>9, <1>10, DropKeeps, ZenonT(60)
<1>12. {n} \ {n} = {}
  OBVIOUS
<1>13. t.opened = h.opened
  BY <1>9 DEF IsDropped
<1>14. TimesOut(s, t, D, n, f, a, h, op)
  BY <1>2, <1>4, <1>7, <1>8, <1>9, <1>5 DEF TimesOut
<1>15. \E g \in Fds : \E x, y : TimesOut(s, t, D, n, g, x, y, op)
  BY <1>2, <1>14, Zenon
<1> QED BY <1>1, <1>6, <1>11, <1>12, <1>13, <1>15

\* The callbacks of errorEvent and closeEvent, before the handler calls
LEMMA FailedDrops ==
  ASSUME NEW s, TablesAgree(s, {}, {}), NEW n \in Sockets, NEW f \in Fds,
         s.conns[f] = n, s.sock[n].fd = f, NEW t, t = Noted(CloseFds(ReleaseTask(s, n), {f}), {n}, "fail")
  PROVE  t \in Tables /\ IsDropped(s, t, {f}, {}, {}) /\ TablesAgree(t, {}, {})
<1> DEFINE c == CloseFds(ReleaseTask(s, n), {f})
<1>1. c \in Tables /\ IsDropped(s, c, {f}, {}, {n})
  BY FreeShape, Zenon
<1>2. "fail" \in Results /\ n # 0
  BY ZeroIsNone DEF Results
<1> HIDE DEF c
<1>3. t \in Tables /\ IsTold(c, t, {n}, "fail")
  <2>1. t = Noted(c, {n}, "fail")
    BY DEF c
  <2> QED BY <1>1, <1>2, <2>1, NotedShape
<1> DEFINE N == {s.conns[fd] : fd \in {f}}
<1>4. N = {n} /\ {n} \ {n} = {} /\ {n} \ {} = {n} /\ {f} \cup {} = {f}
  OBVIOUS
<1>5. /\ c.timers = s.timers \ N /\ c.expired = s.expired \ N /\ c.listening = s.listening \ {}
      /\ c.nextToken = s.nextToken /\ c.opened = s.opened /\ c.manager = s.manager
      /\ \A x \in Tokens : c.directory[x] = IF s.directory[x] \in {f} THEN 0 ELSE s.directory[x]
      /\ \A fd \in Fds :
           /\ c.conns[fd] = IF fd \in {f} THEN 0 ELSE s.conns[fd]
           /\ c.channels[fd] = IF fd \in {f} \cup {} THEN NoChannel ELSE s.channels[fd]
           /\ c.interest[fd] = IF fd \in {f} \cup {} THEN "none" ELSE s.interest[fd]
           /\ c.owner[fd] = IF fd \in {f} \cup {} THEN 0 ELSE s.owner[fd]
  BY <1>1, Zenon DEF IsDropped
<1>6. \A m \in Sockets :
        /\ c.sock[m].fd = s.sock[m].fd /\ c.sock[m].token = s.sock[m].token
        /\ m \notin N \ {n} => c.sock[m].notes = s.sock[m].notes
        /\ ~(\E fd \in {f} \cup {} : s.owner[fd] = m) => c.sock[m].status = s.sock[m].status
  BY <1>1, Zenon DEF IsDropped
<1> HIDE DEF N
<1>7. /\ t.timers = s.timers \ N /\ t.expired = s.expired \ N /\ t.listening = s.listening \ {}
      /\ t.nextToken = s.nextToken /\ t.opened = s.opened /\ t.manager = s.manager
      /\ \A x \in Tokens : t.directory[x] = IF s.directory[x] \in {f} THEN 0 ELSE s.directory[x]
  <2>1. /\ t.timers = c.timers /\ t.expired = c.expired /\ t.directory = c.directory
        /\ t.listening = c.listening /\ t.nextToken = c.nextToken
        /\ t.opened = c.opened /\ t.manager = c.manager
    BY <1>3 DEF IsTold
  <2> QED BY <1>5, <2>1, ZenonT(60)
<1>8. ASSUME NEW fd \in Fds
      PROVE  /\ t.conns[fd] = IF fd \in {f} THEN 0 ELSE s.conns[fd]
             /\ t.channels[fd] = IF fd \in {f} \cup {} THEN NoChannel ELSE s.channels[fd]
             /\ t.interest[fd] = IF fd \in {f} \cup {} THEN "none" ELSE s.interest[fd]
             /\ t.owner[fd] = IF fd \in {f} \cup {} THEN 0 ELSE s.owner[fd]
  <2>1. /\ t.conns = c.conns /\ t.channels = c.channels /\ t.interest = c.interest
        /\ t.owner = c.owner
    BY <1>3 DEF IsTold
  <2> QED BY <1>5, <2>1, ZenonT(60)
<1>9. ASSUME NEW m \in Sockets
      PROVE  /\ t.sock[m].fd = s.sock[m].fd /\ t.sock[m].token = s.sock[m].token
             /\ m \in N \ {} => \E r \in Results : t.sock[m].notes = Append(s.sock[m].notes, r)
             /\ m \notin N \ {} => t.sock[m].notes = s.sock[m].notes
             /\ ~(\E fd \in {f} \cup {} : s.owner[fd] = m) => t.sock[m].status = s.sock[m].status
  <2>1. /\ t.sock[m].fd = c.sock[m].fd /\ t.sock[m].token = c.sock[m].token
        /\ t.sock[m].status = c.sock[m].status
        /\ m \in {n} => t.sock[m].notes = Append(c.sock[m].notes, "fail")
        /\ m \notin {n} => t.sock[m].notes = c.sock[m].notes
    BY <1>3, Zenon DEF IsTold
  <2>2. /\ c.sock[m].fd = s.sock[m].fd /\ c.sock[m].token = s.sock[m].token
        /\ c.sock[m].notes = s.sock[m].notes
        /\ ~(\E fd \in {f} \cup {} : s.owner[fd] = m) => c.sock[m].status = s.sock[m].status
    <3>1. m \notin N \ {n}
      BY <1>4
    <3> QED BY <1>6, <3>1, Zenon
  <2> QED BY <1>2, <1>4, <2>1, <2>2
<1>10. IsDropped(s, t, {f}, {}, {})
  BY <1>7, <1>8, <1>9 DEF IsDropped, N
<1>11. /\ {f} \in SUBSET Fds /\ {} \subseteq s.listening /\ {} \subseteq Sockets
       /\ \A fd \in {f} : s.conns[fd] # 0
  BY <1>2
<1>12. TablesAgree(t, {} \ N, {} \ N)
  BY <1>3, <1>10, <1>11, DropKeeps, Zenon DEF N
<1>13. {} \ N = {}
  OBVIOUS
<1> QED BY <1>3, <1>10, <1>12, <1>13

\* The manager takes the descriptor f of the task n over.
IsAdopted(s, t, f, n) ==
  /\ t.timers = s.timers \ {n} /\ t.expired = s.expired \ {n} /\ t.listening = s.listening
  /\ t.opened = s.opened /\ t.owner = s.owner
  /\ \A x \in Tokens : t.directory[x] = IF s.directory[x] = f THEN 0 ELSE s.directory[x]
  /\ \A fd \in Fds :
       /\ t.conns[fd] = IF fd = f THEN 0 ELSE s.conns[fd]
       /\ t.manager[fd] = IF fd = f THEN n ELSE s.manager[fd]
       /\ t.channels[fd] = IF fd = f THEN [kind |-> "conn", n |-> n] ELSE s.channels[fd]
       /\ t.interest[fd] = IF fd = f THEN "conn" ELSE s.interest[fd]
  /\ \A m \in Sockets :
       /\ t.sock[m].fd = s.sock[m].fd /\ t.sock[m].token = s.sock[m].token
       /\ t.sock[m].status = s.sock[m].status
       /\ m = n => t.sock[m].notes = Append(s.sock[m].notes, "ok")
       /\ m # n => t.sock[m].notes = s.sock[m].notes

\* addConnection of a descriptor that the manager does not hold
LEMMA AdoptShape ==
  ASSUME NEW s \in Tables, NEW f \in Fds, NEW n \in Sockets, s.manager[f] = 0,
         s.channels[f] = NoChannel, s.interest[f] = "none"
  PROVE  \E u : /\ IsRegistered(s, u, f, "conn", n) /\ Adopt(s, f, n) \in Tables
                /\ LET t == Adopt(s, f, n)
                   IN /\ t.conns = u.conns /\ t.directory = u.directory
                      /\ t.listening = u.listening /\ t.timers = u.timers
                      /\ t.expired = u.expired /\ t.channels = u.channels
                      /\ t.interest = u.interest /\ t.owner = u.owner
                      /\ t.opened = u.opened /\ t.sock = u.sock
                      /\ \A fd \in Fds : t.manager[fd] = IF fd = f THEN n ELSE s.manager[fd]
<1> DEFINE u == UpdateChannel(s, f, "conn", n)
           ma == [u.manager EXCEPT ![f] = n]
           t == Adopt(s, f, n)
<1>1. t = [u EXCEPT !.manager = ma]
  BY DEF Adopt
<1> HIDE DEF t
<1>2. u \in Tables /\ IsRegistered(s, u, f, "conn", n)
  <2>1. "conn" \in Kinds
    BY DEF Kinds
  <2> QED BY <2>1, RegisterShape, Zenon
<1> HIDE DEF u
<1>3. u.manager \in [Fds -> 0 .. MaxSocks] /\ u.manager = s.manager /\ n \in 0 .. MaxSocks
  BY <1>2, TcpAssumption DEF Tables, IsRegistered, Sockets
<1>4. /\ ma \in [Fds -> 0 .. MaxSocks]
      /\ \A fd \in Fds : ma[fd] = IF fd = f THEN n ELSE s.manager[fd]
  BY <1>3
<1> HIDE DEF ma
<1>5. /\ t \in Tables /\ t.manager = ma
      /\ t.conns = u.conns /\ t.directory = u.directory
      /\ t.listening = u.listening /\ t.timers = u.timers /\ t.expired = u.expired
      /\ t.channels = u.channels /\ t.interest = u.interest /\ t.owner = u.owner
      /\ t.opened = u.opened /\ t.sock = u.sock
  BY <1>1, <1>2, <1>4, ZenonT(60) DEF Tables
<1> QED BY <1>2, <1>4, <1>5 DEF t

\* The callback of writeReady, before the handler calls anything else
LEMMA ConnectedShape ==
  ASSUME NEW s, TablesAgree(s, {}, {}), NEW n \in Sockets, NEW f \in Fds,
         s.conns[f] = n, s.sock[n].fd = f
  PROVE  /\ Adopt(Noted(ReleaseTask(s, n), {n}, "ok"), f, n) \in Tables
         /\ IsAdopted(s, Adopt(Noted(ReleaseTask(s, n), {n}, "ok"), f, n), f, n)
<1> DEFINE a == ReleaseTask(s, n)
           b == Noted(a, {n}, "ok")
           t == Adopt(b, f, n)
           k == s.sock[n].token
<1>1. s \in Tables /\ Polled(s) /\ n # 0 /\ f # 0 /\ "ok" \in Results
  BY AgreeTypes, ZeroIsNone DEF Results
<1>2. a \in Tables /\ IsFreed(s, a, n, f, k)
  BY <1>1, ReleaseShape
<1> HIDE DEF a
<1>3. b \in Tables /\ IsTold(a, b, {n}, "ok")
  BY <1>1, <1>2, NotedShape, Zenon
<1> HIDE DEF b
<1>4. b.manager[f] = 0 /\ b.channels[f] = NoChannel /\ b.interest[f] = "none"
  <2>1. s.manager[f] = 0
    BY <1>1 DEF TablesAgree, HeldOnce
  <2>2. a.manager[f] = 0 /\ a.channels[f] = NoChannel /\ a.interest[f] = "none"
    BY <1>2, <2>1 DEF IsFreed
  <2> QED BY <1>3, <2>2 DEF IsTold
<1>5. \E u : /\ IsRegistered(b, u, f, "conn", n) /\ t \in Tables
             /\ t.conns = u.conns /\ t.directory = u.directory
             /\ t.listening = u.listening /\ t.timers = u.timers
             /\ t.expired = u.expired /\ t.channels = u.channels
             /\ t.interest = u.interest /\ t.owner = u.owner
             /\ t.opened = u.opened /\ t.sock = u.sock
             /\ \A fd \in Fds : t.manager[fd] = IF fd = f THEN n ELSE b.manager[fd]
  BY <1>3, <1>4, AdoptShape
<1> HIDE DEF t
<1>6. PICK u : /\ IsRegistered(b, u, f, "conn", n) /\ t \in Tables
               /\ t.conns = u.conns /\ t.directory = u.directory
               /\ t.listening = u.listening /\ t.timers = u.timers
               /\ t.expired = u.expired /\ t.channels = u.channels
               /\ t.interest = u.interest /\ t.owner = u.owner
               /\ t.opened = u.opened /\ t.sock = u.sock
               /\ \A fd \in Fds : t.manager[fd] = IF fd = f THEN n ELSE b.manager[fd]
  BY <1>5
<1>7. \A x \in Tokens : x = k <=> s.directory[x] = f
  <2>1. k \in Tokens /\ s.directory[k] = f
    BY <1>1 DEF TablesAgree, TasksKnown
  <2>2. \A x \in Tokens : s.directory[x] = f => k = x
    BY <1>1 DEF TablesAgree, TokensKnown
  <2> QED BY <2>1, <2>2
<1> HIDE DEF k
<1>8. /\ t.timers = s.timers \ {n} /\ t.expired = s.expired \ {n} /\ t.listening = s.listening
      /\ t.opened = s.opened /\ t.owner = s.owner
      /\ t.conns = a.conns /\ t.directory = a.directory /\ b.manager = s.manager
      /\ b.channels = a.channels /\ b.interest = a.interest /\ t.sock = b.sock /\ a.sock = s.sock
  BY <1>2, <1>3, <1>6 DEF IsFreed, IsTold, IsRegistered
<1>9. \A x \in Tokens : t.directory[x] = IF s.directory[x] = f THEN 0 ELSE s.directory[x]
  BY <1>2, <1>7, <1>8 DEF IsFreed
<1>10. ASSUME NEW fd \in Fds
       PROVE  /\ t.conns[fd] = IF fd = f THEN 0 ELSE s.conns[fd]
              /\ t.manager[fd] = IF fd = f THEN n ELSE s.manager[fd]
              /\ t.channels[fd] = IF fd = f THEN [kind |-> "conn", n |-> n] ELSE s.channels[fd]
              /\ t.interest[fd] = IF fd = f THEN "conn" ELSE s.interest[fd]
  <2>1. /\ a.conns[fd] = IF fd = f THEN 0 ELSE s.conns[fd]
        /\ a.channels[fd] = IF fd = f THEN NoChannel ELSE s.channels[fd]
        /\ a.interest[fd] = IF fd = f THEN "none" ELSE s.interest[fd]
    BY <1>2 DEF IsFreed
  <2>2. /\ u.channels[fd] = IF fd = f THEN [kind |-> "conn", n |-> n] ELSE b.channels[fd]
        /\ u.interest[fd] = IF fd = f THEN "conn" ELSE b.interest[fd]
    BY <1>6 DEF IsRegistered
  <2> QED BY <1>6, <1>8, <2>1, <2>2
<1>11. ASSUME NEW m \in Sockets
       PROVE  /\ t.sock[m].fd = s.sock[m].fd /\ t.sock[m].token = s.sock[m].token
              /\ t.sock[m].status = s.sock[m].status
              /\ m = n => t.sock[m].notes = Append(s.sock[m].notes, "ok")
              /\ m # n => t.sock[m].notes = s.sock[m].notes
  BY <1>3, <1>8 DEF IsTold
<1>12. IsAdopted(s, t, f, n)
  BY <1>8, <1>9, <1>10, <1>11 DEF IsAdopted
<1> QED BY <1>6, <1>12 DEF t, a, b

\* The tables agree after that.
LEMMA AdoptKeeps ==
  ASSUME NEW s, TablesAgree(s, {}, {}), NEW n \in Sockets, NEW f \in Fds,
         s.conns[f] = n, NEW t \in Tables, IsAdopted(s, t, f, n)
  PROVE  TablesAgree(t, {}, {})
<1>1. /\ OwnersKnown(s) /\ TasksKnown(s, {}, {}) /\ TokensKnown(s) /\ TimersKnown(s, {})
      /\ ChannelsKnown(s) /\ HeldOnce(s) /\ ToldOnce(s)
  BY DEF TablesAgree
<1>2. /\ \A fd \in Fds : /\ s.owner[fd] # 0 => s.owner[fd] \in Sockets
                         /\ s.conns[fd] # 0 => s.conns[fd] \in Sockets
      /\ \A x \in Tokens : s.directory[x] # 0 => s.directory[x] \in Fds
      /\ s.timers \subseteq Sockets
  BY AgreeTypes
<1>3. n # 0 /\ f # 0 /\ s.owner[f] = n /\ s.manager[f] = 0 /\ f \notin s.listening
      /\ s.sock[n].notes = <<>>
  BY <1>1, ZeroIsNone DEF TasksKnown, HeldOnce
<1>4. \A fd \in Fds : s.conns[fd] = n => fd = f
  BY <1>3, OneDescriptor
<1>5. /\ t.timers = s.timers \ {n} /\ t.expired = s.expired \ {n} /\ t.listening = s.listening
      /\ t.opened = s.opened /\ t.owner = s.owner
      /\ \A x \in Tokens : t.directory[x] = IF s.directory[x] = f THEN 0 ELSE s.directory[x]
  BY DEF IsAdopted
<1>6. \A fd \in Fds :
        /\ t.conns[fd] = IF fd = f THEN 0 ELSE s.conns[fd]
        /\ t.manager[fd] = IF fd = f THEN n ELSE s.manager[fd]
        /\ t.channels[fd] = IF fd = f THEN [kind |-> "conn", n |-> n] ELSE s.channels[fd]
        /\ t.interest[fd] = IF fd = f THEN "conn" ELSE s.interest[fd]
  BY DEF IsAdopted
<1>7. \A m \in Sockets :
        /\ t.sock[m].fd = s.sock[m].fd /\ t.sock[m].token = s.sock[m].token
        /\ m = n => t.sock[m].notes = Append(s.sock[m].notes, "ok")
        /\ m # n => t.sock[m].notes = s.sock[m].notes
  BY DEF IsAdopted
<1>8. OwnersKnown(t)
  BY <1>1, <1>2, <1>5, <1>7 DEF OwnersKnown
<1>9. TasksKnown(t, {}, {})
  <2> SUFFICES ASSUME NEW fd \in Fds, t.conns[fd] # 0
               PROVE  /\ t.owner[fd] = t.conns[fd]
                      /\ t.sock[t.conns[fd]].token \in Tokens
                      /\ t.directory[t.sock[t.conns[fd]].token] = fd
                      /\ t.conns[fd] \in t.timers
                      /\ t.sock[t.conns[fd]].notes = <<>>
    BY DEF TasksKnown
  <2>1. fd # f /\ t.conns[fd] = s.conns[fd] /\ s.conns[fd] # 0 /\ s.conns[fd] \in Sockets
    BY <1>2, <1>6
  <2>2. s.conns[fd] # n
    BY <1>4, <2>1
  <2>3. /\ s.owner[fd] = s.conns[fd]
        /\ s.sock[s.conns[fd]].token \in Tokens
        /\ s.directory[s.sock[s.conns[fd]].token] = fd
        /\ s.conns[fd] \in s.timers
        /\ s.sock[s.conns[fd]].notes = <<>>
    BY <1>1, <2>1 DEF TasksKnown
  <2> QED BY <1>5, <1>7, <2>1, <2>2, <2>3
<1>10. TokensKnown(t)
  <2> SUFFICES ASSUME NEW x \in Tokens, t.directory[x] # 0
               PROVE  t.conns[t.directory[x]] # 0 /\ t.sock[t.conns[t.directory[x]]].token = x
    BY DEF TokensKnown
  <2>1. t.directory[x] = s.directory[x] /\ s.directory[x] \in Fds /\ s.directory[x] # f
    BY <1>2, <1>5
  <2>2. s.conns[s.directory[x]] # 0 /\ s.sock[s.conns[s.directory[x]]].token = x
    BY <1>1, <1>5, <2>1 DEF TokensKnown
  <2> QED BY <1>2, <1>6, <1>7, <2>1, <2>2, SMTT(30)
<1>11. TimersKnown(t, {})
  <2>1. t.expired \subseteq t.timers
    BY <1>1, <1>5 DEF TimersKnown
  <2> SUFFICES ASSUME NEW m \in t.timers
               PROVE  t.sock[m].fd \in Fds /\ t.conns[t.sock[m].fd] = m
    BY <2>1 DEF TimersKnown
  <2>2. m \in s.timers /\ m # n /\ m \in Sockets
    BY <1>2, <1>5
  <2>3. s.sock[m].fd \in Fds /\ s.conns[s.sock[m].fd] = m
    BY <1>1, <2>2 DEF TimersKnown
  <2> QED BY <1>6, <1>7, <2>2, <2>3
<1>12. ChannelsKnown(t)
  <2>1. [kind |-> "conn", n |-> n] # NoChannel
    BY DEF NoChannel
  <2> SUFFICES ASSUME NEW fd \in Fds
               PROVE  /\ t.channels[fd] = NoChannel => t.interest[fd] = "none"
                      /\ t.channels[fd] # NoChannel =>
                           /\ t.interest[fd] = t.channels[fd].kind /\ t.interest[fd] # "none"
                           /\ t.owner[fd] # 0 /\ t.channels[fd].n = t.owner[fd]
                           /\ t.channels[fd].kind = "task" => t.conns[fd] = t.owner[fd]
                           /\ t.channels[fd].kind = "conn" => t.manager[fd] = t.owner[fd]
    BY DEF ChannelsKnown
  <2>2. CASE fd = f
    BY <1>3, <1>5, <1>6, <2>1, <2>2
  <2>3. CASE fd # f
    BY <1>1, <1>5, <1>6, <2>3 DEF ChannelsKnown
  <2> QED BY <2>2, <2>3
<1>13. HeldOnce(t)
  <2> SUFFICES ASSUME NEW fd \in Fds
               PROVE  /\ t.owner[fd] # 0 <=> (fd \in t.listening \/ t.conns[fd] # 0 \/ t.manager[fd] # 0)
                      /\ ~(t.conns[fd] # 0 /\ t.manager[fd] # 0)
                      /\ fd \in t.listening => t.conns[fd] = 0 /\ t.manager[fd] = 0
                      /\ t.manager[fd] # 0 => t.manager[fd] = t.owner[fd]
    BY DEF HeldOnce
  <2>1. CASE fd = f
    BY <1>3, <1>5, <1>6, <2>1
  <2>2. CASE fd # f
    BY <1>1, <1>5, <1>6, <2>2 DEF HeldOnce
  <2> QED BY <2>1, <2>2
<1>14. ToldOnce(t)
  <2> SUFFICES ASSUME NEW m \in Sockets PROVE Len(t.sock[m].notes) <= 1
    BY DEF ToldOnce
  <2>1. CASE m = n
    <3>1. t.sock[m].notes = Append(<<>>, "ok")
      BY <1>3, <1>7, <2>1
    <3> QED BY <3>1
  <2>2. CASE m # n
    BY <1>1, <1>7, <2>2 DEF ToldOnce
  <2> QED BY <2>1, <2>2
<1> QED BY <1>8, <1>9, <1>10, <1>11, <1>12, <1>13, <1>14 DEF TablesAgree

-----------------------------------------------------------------------------
(* on_accept and startListen *)

\* The new socket n with descriptor f is given to the manager ("conn") or is
\* listened on ("listen").
IsJoined(s, t, f, n, kind) ==
  /\ t.timers = s.timers /\ t.expired = s.expired
  /\ t.conns = s.conns /\ t.directory = s.directory
  /\ t.opened = n
  /\ t.listening = IF kind = "listen" THEN s.listening \cup {f} ELSE s.listening
  /\ \A fd \in Fds :
       /\ t.owner[fd] = IF fd = f THEN n ELSE s.owner[fd]
       /\ t.manager[fd] = IF fd = f /\ kind = "conn" THEN n ELSE s.manager[fd]
       /\ t.channels[fd] = IF fd = f THEN [kind |-> kind, n |-> n] ELSE s.channels[fd]
       /\ t.interest[fd] = IF fd = f THEN kind ELSE s.interest[fd]
  /\ \A m \in Sockets : m # n => t.sock[m] = s.sock[m]
  /\ t.sock[n].fd = f /\ t.sock[n].notes = <<>>
  /\ kind = "conn" => t.sock[n].status = "connected"

\* The tables agree after that.
LEMMA JoinKeeps ==
  ASSUME NEW s, TablesAgree(s, {}, {}), NEW n \in Sockets, n = s.opened + 1, NEW f \in Fds,
         s.owner[f] = 0, NEW kind \in {"conn", "listen"}, NEW t \in Tables,
         IsJoined(s, t, f, n, kind)
  PROVE  TablesAgree(t, {}, {})
<1>1. /\ OwnersKnown(s) /\ TasksKnown(s, {}, {}) /\ TokensKnown(s) /\ TimersKnown(s, {})
      /\ ChannelsKnown(s) /\ HeldOnce(s) /\ ToldOnce(s)
  BY DEF TablesAgree
<1>2. /\ \A fd \in Fds : /\ s.owner[fd] # 0 => s.owner[fd] \in Sockets
                         /\ s.conns[fd] # 0 => s.conns[fd] \in Sockets
      /\ \A x \in Tokens : s.directory[x] # 0 => s.directory[x] \in Fds
      /\ s.timers \subseteq Sockets /\ s.opened \in Nat
  BY AgreeTypes
<1>3. /\ s.conns[f] = 0 /\ s.manager[f] = 0 /\ f \notin s.listening
      /\ s.channels[f] = NoChannel /\ s.interest[f] = "none" /\ n # 0
  BY FreeMeansUnused, ZeroIsNone
<1>4. \A fd \in Fds : s.owner[fd] # 0 => s.owner[fd] # n /\ s.owner[fd] <= n
  <2>1. \A fd \in Fds : s.owner[fd] # 0 => s.owner[fd] <= s.opened
    BY <1>1 DEF OwnersKnown
  <2>2. \A m \in Sockets : m <= s.opened => m # n /\ m <= n
    BY <1>2 DEF Sockets
  <2> QED BY <1>2, <2>1, <2>2
<1>5. /\ t.timers = s.timers /\ t.expired = s.expired
      /\ t.conns = s.conns /\ t.directory = s.directory /\ t.opened = n
      /\ t.listening = IF kind = "listen" THEN s.listening \cup {f} ELSE s.listening
  BY DEF IsJoined
<1>6. \A fd \in Fds :
        /\ t.owner[fd] = IF fd = f THEN n ELSE s.owner[fd]
        /\ t.manager[fd] = IF fd = f /\ kind = "conn" THEN n ELSE s.manager[fd]
        /\ t.channels[fd] = IF fd = f THEN [kind |-> kind, n |-> n] ELSE s.channels[fd]
        /\ t.interest[fd] = IF fd = f THEN kind ELSE s.interest[fd]
  BY DEF IsJoined
<1>7. /\ \A m \in Sockets : m # n => t.sock[m] = s.sock[m]
      /\ t.sock[n].fd = f /\ t.sock[n].notes = <<>>
  BY DEF IsJoined
<1>8. \A fd \in Fds : s.conns[fd] # 0 =>
        fd # f /\ s.owner[fd] = s.conns[fd] /\ s.conns[fd] # n /\ s.conns[fd] \in Sockets
  BY <1>1, <1>2, <1>3, <1>4 DEF TasksKnown
<1>9. OwnersKnown(t)
  <2> SUFFICES ASSUME NEW fd \in Fds, t.owner[fd] # 0
               PROVE  t.owner[fd] <= t.opened /\ t.sock[t.owner[fd]].fd = fd
    BY DEF OwnersKnown
  <2>1. CASE fd = f
    BY <1>5, <1>6, <1>7, <2>1 DEF Sockets
  <2>2. CASE fd # f
    <3>1. t.owner[fd] = s.owner[fd] /\ s.owner[fd] # 0
      BY <1>6, <2>2
    <3>2. s.owner[fd] \in Sockets /\ s.owner[fd] # n /\ s.owner[fd] <= n
      BY <1>2, <1>4, <3>1
    <3>3. t.sock[s.owner[fd]] = s.sock[s.owner[fd]]
      BY <1>7, <3>2
    <3>4. s.sock[s.owner[fd]].fd = fd
      BY <1>1, <3>1 DEF OwnersKnown
    <3> QED BY <1>5, <3>1, <3>2, <3>3, <3>4
  <2> QED BY <2>1, <2>2
<1>10. TasksKnown(t, {}, {})
  <2> SUFFICES ASSUME NEW fd \in Fds, t.conns[fd] # 0
               PROVE  /\ t.owner[fd] = t.conns[fd]
                      /\ t.sock[t.conns[fd]].token \in Tokens
                      /\ t.directory[t.sock[t.conns[fd]].token] = fd
                      /\ t.conns[fd] \in t.timers
                      /\ t.sock[t.conns[fd]].notes = <<>>
    BY DEF TasksKnown
  <2>1. /\ s.conns[fd] # 0 /\ fd # f /\ t.owner[fd] = s.owner[fd]
        /\ t.sock[s.conns[fd]] = s.sock[s.conns[fd]]
    BY <1>5, <1>6, <1>7, <1>8, ZenonT(60)
  <2> QED BY <1>1, <1>5, <2>1 DEF TasksKnown
<1>11. TokensKnown(t)
  <2> SUFFICES ASSUME NEW x \in Tokens, t.directory[x] # 0
               PROVE  t.conns[t.directory[x]] # 0 /\ t.sock[t.conns[t.directory[x]]].token = x
    BY DEF TokensKnown
  <2> DEFINE g == s.directory[x]
  <2>1. t.directory[x] = g /\ g # 0 /\ g \in Fds
    BY <1>2, <1>5
  <2>2. s.conns[g] # 0 /\ s.sock[s.conns[g]].token = x
    BY <1>1, <2>1 DEF TokensKnown
  <2>3. s.conns[g] # n /\ s.conns[g] \in Sockets
    BY <1>8, <2>1, <2>2
  <2>4. t.conns[g] = s.conns[g] /\ t.sock[s.conns[g]] = s.sock[s.conns[g]]
    BY <1>5, <1>7, <2>1, <2>3
  <2> HIDE DEF g
  <2> QED BY <2>1, <2>2, <2>4, Zenon
<1>12. TimersKnown(t, {})
  <2>1. t.expired \subseteq t.timers
    BY <1>1, <1>5 DEF TimersKnown
  <2> SUFFICES ASSUME NEW m \in t.timers
               PROVE  t.sock[m].fd \in Fds /\ t.conns[t.sock[m].fd] = m
    BY <2>1 DEF TimersKnown
  <2>2. s.sock[m].fd \in Fds /\ s.conns[s.sock[m].fd] = m /\ m \in Sockets /\ m # 0
    BY <1>1, <1>2, <1>5, ZeroIsNone DEF TimersKnown
  <2>3. m # n
    BY <1>8, <2>2
  <2> QED BY <1>5, <1>7, <2>2, <2>3
<1>13. ChannelsKnown(t)
  <2>1. [kind |-> kind, n |-> n] # NoChannel
    BY DEF NoChannel
  <2> SUFFICES ASSUME NEW fd \in Fds
               PROVE  /\ t.channels[fd] = NoChannel => t.interest[fd] = "none"
                      /\ t.channels[fd] # NoChannel =>
                           /\ t.interest[fd] = t.channels[fd].kind /\ t.interest[fd] # "none"
                           /\ t.owner[fd] # 0 /\ t.channels[fd].n = t.owner[fd]
                           /\ t.channels[fd].kind = "task" => t.conns[fd] = t.owner[fd]
                           /\ t.channels[fd].kind = "conn" => t.manager[fd] = t.owner[fd]
    BY DEF ChannelsKnown
  <2>2. CASE fd = f
    BY <1>3, <1>5, <1>6, <2>1, <2>2
  <2>3. CASE fd # f
    BY <1>1, <1>5, <1>6, <2>3 DEF ChannelsKnown
  <2> QED BY <2>2, <2>3
<1>14. HeldOnce(t)
  <2> SUFFICES ASSUME NEW fd \in Fds
               PROVE  /\ t.owner[fd] # 0 <=> (fd \in t.listening \/ t.conns[fd] # 0 \/ t.manager[fd] # 0)
                      /\ ~(t.conns[fd] # 0 /\ t.manager[fd] # 0)
                      /\ fd \in t.listening => t.conns[fd] = 0 /\ t.manager[fd] = 0
                      /\ t.manager[fd] # 0 => t.manager[fd] = t.owner[fd]
    BY DEF HeldOnce
  <2>1. CASE fd = f
    BY <1>3, <1>5, <1>6, <2>1
  <2>2. CASE fd # f
    BY <1>1, <1>5, <1>6, <2>2 DEF HeldOnce
  <2> QED BY <2>1, <2>2
<1>15. ToldOnce(t)
  <2> SUFFICES ASSUME NEW m \in Sockets PROVE Len(t.sock[m].notes) <= 1
    BY DEF ToldOnce
  <2>1. CASE m = n
    BY <1>7, <2>1
  <2>2. CASE m # n
    BY <1>1, <1>7, <2>2 DEF ToldOnce
  <2> QED BY <2>1, <2>2
<1> QED BY <1>9, <1>10, <1>11, <1>12, <1>13, <1>14, <1>15 DEF TablesAgree

\* A socket that is opened, gets a channel and is given to the manager
LEMMA JoinedConn ==
  ASSUME NEW s, NEW o, NEW u, NEW t, NEW f, NEW n, IsOpened(s, o, f, n, "connected", 0),
         IsRegistered(o, u, f, "conn", n),
         t.listening = u.listening,
         \A fd \in Fds : t.manager[fd] = IF fd = f THEN n ELSE o.manager[fd],
         t.conns = u.conns /\ t.directory = u.directory
           /\ t.timers = u.timers /\ t.expired = u.expired /\ t.channels = u.channels
           /\ t.interest = u.interest /\ t.owner = u.owner
           /\ t.opened = u.opened /\ t.sock = u.sock
  PROVE  IsJoined(s, t, f, n, "conn")
<1>1. /\ t.timers = s.timers /\ t.expired = s.expired /\ t.conns = s.conns
      /\ t.directory = s.directory /\ t.opened = n /\ t.listening = s.listening
      /\ t.sock = o.sock /\ t.owner = o.owner /\ o.manager = s.manager
      /\ o.channels = s.channels /\ o.interest = s.interest
  BY DEF IsOpened, IsRegistered
<1>2. ASSUME NEW fd \in Fds
      PROVE  /\ t.owner[fd] = IF fd = f THEN n ELSE s.owner[fd]
             /\ t.manager[fd] = IF fd = f /\ "conn" = "conn" THEN n ELSE s.manager[fd]
             /\ t.channels[fd] = IF fd = f THEN [kind |-> "conn", n |-> n] ELSE s.channels[fd]
             /\ t.interest[fd] = IF fd = f THEN "conn" ELSE s.interest[fd]
  <2>1. o.owner[fd] = IF fd = f THEN n ELSE s.owner[fd]
    BY DEF IsOpened
  <2>2. /\ u.channels[fd] = IF fd = f THEN [kind |-> "conn", n |-> n] ELSE o.channels[fd]
        /\ u.interest[fd] = IF fd = f THEN "conn" ELSE o.interest[fd]
    BY DEF IsRegistered
  <2> QED BY <1>1, <2>1, <2>2
<1>3. /\ \A m \in Sockets : m # n => t.sock[m] = s.sock[m]
      /\ t.sock[n].fd = f /\ t.sock[n].notes = <<>> /\ t.sock[n].status = "connected"
  BY <1>1 DEF IsOpened
<1> QED BY <1>1, <1>2, <1>3, Zenon DEF IsJoined

\* and one that is listened on
LEMMA JoinedListen ==
  ASSUME NEW s, NEW o, NEW u, NEW t, NEW f, NEW n, IsOpened(s, o, f, n, "listen", 0),
         IsRegistered(o, u, f, "listen", n), s.listening = {},
         t.listening = {f} /\ t.manager = u.manager,
         t.conns = u.conns /\ t.directory = u.directory
           /\ t.timers = u.timers /\ t.expired = u.expired /\ t.channels = u.channels
           /\ t.interest = u.interest /\ t.owner = u.owner
           /\ t.opened = u.opened /\ t.sock = u.sock
  PROVE  IsJoined(s, t, f, n, "listen")
<1>1. /\ t.timers = s.timers /\ t.expired = s.expired /\ t.conns = s.conns
      /\ t.directory = s.directory /\ t.opened = n /\ t.listening = s.listening \cup {f}
      /\ t.sock = o.sock /\ t.owner = o.owner /\ t.manager = s.manager
      /\ o.channels = s.channels /\ o.interest = s.interest
  BY DEF IsOpened, IsRegistered
<1>2. ASSUME NEW fd \in Fds
      PROVE  /\ t.owner[fd] = IF fd = f THEN n ELSE s.owner[fd]
             /\ t.manager[fd] = IF fd = f /\ "listen" = "conn" THEN n ELSE s.manager[fd]
             /\ t.channels[fd] = IF fd = f THEN [kind |-> "listen", n |-> n] ELSE s.channels[fd]
             /\ t.interest[fd] = IF fd = f THEN "listen" ELSE s.interest[fd]
  <2>1. o.owner[fd] = IF fd = f THEN n ELSE s.owner[fd]
    BY DEF IsOpened
  <2>2. /\ u.channels[fd] = IF fd = f THEN [kind |-> "listen", n |-> n] ELSE o.channels[fd]
        /\ u.interest[fd] = IF fd = f THEN "listen" ELSE o.interest[fd]
    BY DEF IsRegistered
  <2> QED BY <1>1, <2>1, <2>2
<1>3. /\ \A m \in Sockets : m # n => t.sock[m] = s.sock[m]
      /\ t.sock[n].fd = f /\ t.sock[n].notes = <<>>
  BY <1>1 DEF IsOpened
<1>4. "listen" # "conn"
  BY SMTT(30)
<1> QED BY <1>1, <1>2, <1>3, <1>4, Zenon DEF IsJoined

\* on_accept
LEMMA AcceptShape ==
  ASSUME NEW s, TablesAgree(s, {}, {}), FreeFds(s) # {}, s.opened < MaxSocks,
         NEW o, o = Opened(s, "connected", 0, "io"), NEW t, t = Adopt(o, o.sock[o.opened].fd, o.opened)
  PROVE  /\ t \in Tables /\ s.opened + 1 \in Sockets
         /\ \E f \in Fds : s.owner[f] = 0 /\ IsJoined(s, t, f, s.opened + 1, "conn")
<1> DEFINE n == s.opened + 1
<1>1. s \in Tables /\ s.opened \in Nat
  BY AgreeTypes
<1>2. n \in Sockets
  BY <1>1, TcpAssumption DEF Sockets
<1>3. "connected" \in Statuses /\ 0 \in 0 .. TokenMax
  BY TcpAssumption DEF Statuses
<1>4. o \in Tables /\ \E f \in Fds : s.owner[f] = 0 /\ IsOpened(s, o, f, n, "connected", 0)
  BY <1>1, <1>3, OpenShape, Zenon
<1>5. PICK f \in Fds : s.owner[f] = 0 /\ IsOpened(s, o, f, n, "connected", 0)
  BY <1>4
<1> HIDE DEF n
<1>6. o.opened = n /\ o.sock[n].fd = f
  BY <1>5 DEF IsOpened
<1>7. s.manager[f] = 0 /\ s.channels[f] = NoChannel /\ s.interest[f] = "none"
  BY <1>5, FreeMeansUnused
<1>8. o.manager[f] = 0 /\ o.channels[f] = NoChannel /\ o.interest[f] = "none"
  BY <1>5, <1>7 DEF IsOpened
<1>9. t = Adopt(o, f, n)
  BY <1>6, SMTT(30)
<1>10. \E u : /\ IsRegistered(o, u, f, "conn", n) /\ t \in Tables
              /\ t.conns = u.conns /\ t.directory = u.directory
              /\ t.listening = u.listening /\ t.timers = u.timers
              /\ t.expired = u.expired /\ t.channels = u.channels
              /\ t.interest = u.interest /\ t.owner = u.owner
              /\ t.opened = u.opened /\ t.sock = u.sock
              /\ \A fd \in Fds : t.manager[fd] = IF fd = f THEN n ELSE o.manager[fd]
  BY <1>2, <1>4, <1>8, <1>9, AdoptShape, SMTT(30)
<1>11. PICK u : /\ IsRegistered(o, u, f, "conn", n) /\ t \in Tables
                /\ t.conns = u.conns /\ t.directory = u.directory
                /\ t.listening = u.listening /\ t.timers = u.timers
                /\ t.expired = u.expired /\ t.channels = u.channels
                /\ t.interest = u.interest /\ t.owner = u.owner
                /\ t.opened = u.opened /\ t.sock = u.sock
                /\ \A fd \in Fds : t.manager[fd] = IF fd = f THEN n ELSE o.manager[fd]
  BY <1>10, ZenonT(60)
<1>12. IsJoined(s, t, f, n, "conn")
  <2>1. IsOpened(s, o, f, n, "connected", 0) /\ IsRegistered(o, u, f, "conn", n)
    BY <1>5, <1>11, SMTT(30)
  <2>2. t.listening = u.listening /\ \A fd \in Fds : t.manager[fd] = IF fd = f THEN n ELSE o.manager[fd]
    BY <1>11, ZenonT(60)
  <2>3. /\ t.conns = u.conns /\ t.directory = u.directory
        /\ t.timers = u.timers /\ t.expired = u.expired /\ t.channels = u.channels
        /\ t.interest = u.interest /\ t.owner = u.owner
        /\ t.opened = u.opened /\ t.sock = u.sock
    BY <1>11
  <2> QED BY <2>1, <2>2, <2>3, JoinedConn, SMTT(30)
<1> QED BY <1>2, <1>5, <1>11, <1>12 DEF n

\* Only the descriptors that are listened on change.
IsListening(u, t, L) ==
  /\ t.listening = L
  /\ t.conns = u.conns /\ t.directory = u.directory
  /\ t.timers = u.timers /\ t.expired = u.expired /\ t.channels = u.channels
  /\ t.interest = u.interest /\ t.owner = u.owner
  /\ t.opened = u.opened /\ t.sock = u.sock /\ t.manager = u.manager

\* An assignment to server_channel_list
LEMMA ListeningShape ==
  ASSUME NEW u \in Tables, NEW L, L \subseteq Fds
  PROVE  /\ [u EXCEPT !.listening = L] \in Tables
         /\ IsListening(u, [u EXCEPT !.listening = L], L)
BY SMTT(30) DEF Tables, IsListening

\* startListen
LEMMA ListenShape ==
  ASSUME NEW s, TablesAgree(s, {}, {}), FreeFds(s) # {}, s.opened < MaxSocks, s.listening = {},
         NEW o, o = Opened(s, "listen", 0, "visit"), NEW g, g = o.sock[o.opened].fd,
         NEW t, t = [UpdateChannel(o, g, "listen", o.opened) EXCEPT !.listening = {g}]
  PROVE  /\ t \in Tables /\ s.opened + 1 \in Sockets
         /\ \E f \in Fds : s.owner[f] = 0 /\ IsJoined(s, t, f, s.opened + 1, "listen")
<1> DEFINE n == s.opened + 1
<1>1. s \in Tables /\ s.opened \in Nat
  BY AgreeTypes
<1>2. n \in Sockets
  BY <1>1, TcpAssumption DEF Sockets
<1>3. "listen" \in Statuses /\ "listen" \in Kinds /\ 0 \in 0 .. TokenMax
  BY TcpAssumption DEF Statuses, Kinds
<1>4. o \in Tables /\ \E f \in Fds : s.owner[f] = 0 /\ IsOpened(s, o, f, n, "listen", 0)
  BY <1>1, <1>3, OpenShape, Zenon
<1>5. PICK f \in Fds : s.owner[f] = 0 /\ IsOpened(s, o, f, n, "listen", 0)
  BY <1>4
<1> HIDE DEF n
<1>6. o.opened = n /\ o.sock[n].fd = f /\ g = f
  BY <1>5 DEF IsOpened
<1>7. s.channels[f] = NoChannel /\ s.interest[f] = "none"
  BY <1>5, FreeMeansUnused
<1>8. o.channels[f] = NoChannel /\ o.interest[f] = "none"
  BY <1>5, <1>7 DEF IsOpened
<1> DEFINE u == UpdateChannel(o, f, "listen", n)
<1>9. u \in Tables /\ IsRegistered(o, u, f, "listen", n)
  BY <1>2, <1>3, <1>4, <1>8, RegisterShape, Zenon
<1>10. t = [u EXCEPT !.listening = {f}]
  BY <1>6
<1> HIDE DEF u
<1>11. /\ t \in Tables /\ t.listening = {f}
       /\ t.conns = u.conns /\ t.directory = u.directory
       /\ t.timers = u.timers /\ t.expired = u.expired /\ t.channels = u.channels
       /\ t.interest = u.interest /\ t.owner = u.owner
       /\ t.opened = u.opened /\ t.sock = u.sock /\ t.manager = u.manager
  <2>1. {f} \subseteq Fds
    OBVIOUS
  <2> DEFINE v == [u EXCEPT !.listening = {f}]
  <2>2. v \in Tables /\ IsListening(u, v, {f})
    BY <1>9, <2>1, ListeningShape, Zenon
  <2>3. t = v
    BY <1>10
  <2> HIDE DEF v
  <2>4. t \in Tables /\ IsListening(u, t, {f})
    BY <2>2, <2>3, SMTT(30)
  <2> QED BY <2>4, Zenon DEF IsListening
<1>12. IsJoined(s, t, f, n, "listen")
  <2>1. IsOpened(s, o, f, n, "listen", 0)
    BY <1>5
  <2>2. t.listening = {f} /\ t.manager = u.manager
    BY <1>11
  <2>3. /\ t.conns = u.conns /\ t.directory = u.directory
        /\ t.timers = u.timers /\ t.expired = u.expired /\ t.channels = u.channels
        /\ t.interest = u.interest /\ t.owner = u.owner
        /\ t.opened = u.opened /\ t.sock = u.sock
    BY <1>11
  <2>4. IsRegistered(o, u, f, "listen", n) /\ s.listening = {}
    BY <1>9
  <2> QED BY <2>1, <2>2, <2>3, <2>4, JoinedListen
<1> QED BY <1>2, <1>5, <1>11, <1>12 DEF n

-----------------------------------------------------------------------------
(* The end of a TcpConnection *)

\* The connections of the manager with descriptors G are destroyed.
IsUnheld(s, t, G) ==
  /\ t.timers = s.timers /\ t.expired = s.expired /\ t.listening = s.listening
  /\ t.conns = s.conns /\ t.directory = s.directory /\ t.opened = s.opened
  /\ \A fd \in Fds :
       /\ t.owner[fd] = IF fd \in G THEN 0 ELSE s.owner[fd]
       /\ t.manager[fd] = IF fd \in G THEN 0 ELSE s.manager[fd]
       /\ t.channels[fd] = IF fd \in G THEN NoChannel ELSE s.channels[fd]
       /\ t.interest[fd] = IF fd \in G THEN "none" ELSE s.interest[fd]
  /\ \A m \in Sockets :
       /\ t.sock[m].fd = s.sock[m].fd /\ t.sock[m].token = s.sock[m].token
       /\ t.sock[m].notes = s.sock[m].notes
       /\ ~(\E fd \in G : s.owner[fd] = m) => t.sock[m] = s.sock[m]

\* removeConnection
LEMMA UnheldShape ==
  ASSUME NEW s, TablesAgree(s, {}, {}), NEW F
  PROVE  /\ RemoveConnections(s, F) \in Tables
         /\ IsUnheld(s, RemoveConnections(s, F), F \cap Keys(s.manager))
         /\ F \cap Keys(s.manager) \subseteq Fds
<1> DEFINE G == F \cap Keys(s.manager)
           a == RemoveChannels(s, G)
           b == CloseFds(a, G)
           ma == Erase(b.manager, G, 0)
           t == RemoveConnections(s, F)
<1>1. t = [b EXCEPT !.manager = ma]
  BY DEF RemoveConnections
<1> HIDE DEF t
<1>2. s \in Tables /\ Polled(s) /\ s.manager \in [Fds -> 0 .. MaxSocks]
  BY AgreeTypes
<1>3. G \subseteq Fds
  BY <1>2 DEF Keys
<1> HIDE DEF G
<1>4. a \in Tables /\ IsRemoved(s, a, G)
  BY <1>2, <1>3, RemoveShape, Zenon
<1> HIDE DEF a
<1>5. b \in Tables /\ IsClosed(a, b, G)
  BY <1>4, CloseShape, Zenon
<1> HIDE DEF b
<1>6. b.manager = s.manager
  BY <1>4, <1>5 DEF IsRemoved, IsClosed
<1>7. /\ ma \in [Fds -> 0 .. MaxSocks]
      /\ \A fd \in Fds : ma[fd] = IF fd \in G THEN 0 ELSE s.manager[fd]
  <2>1. 0 \in 0 .. MaxSocks
    BY TcpAssumption
  <2> QED BY <1>2, <1>6, <2>1 DEF Erase
<1> HIDE DEF ma
<1>8. /\ t \in Tables /\ t.manager = ma
      /\ t.conns = b.conns /\ t.directory = b.directory /\ t.listening = b.listening
      /\ t.timers = b.timers /\ t.expired = b.expired /\ t.channels = b.channels
      /\ t.interest = b.interest /\ t.owner = b.owner
      /\ t.opened = b.opened /\ t.sock = b.sock
  BY <1>1, <1>5, <1>7 DEF Tables
<1>9. IsUnheld(s, t, G)
  BY <1>4, <1>5, <1>7, <1>8 DEF IsRemoved, IsClosed, IsUnheld
<1> QED BY <1>3, <1>8, <1>9 DEF t, G

\* The tables agree after that.
LEMMA UnheldKeeps ==
  ASSUME NEW s, TablesAgree(s, {}, {}), NEW G, G \subseteq Fds,
         \A fd \in G : s.manager[fd] # 0, NEW t \in Tables, IsUnheld(s, t, G)
  PROVE  TablesAgree(t, {}, {})
<1>1. /\ OwnersKnown(s) /\ TasksKnown(s, {}, {}) /\ TokensKnown(s) /\ TimersKnown(s, {})
      /\ ChannelsKnown(s) /\ HeldOnce(s) /\ ToldOnce(s)
  BY DEF TablesAgree
<1>2. /\ \A fd \in Fds : /\ s.owner[fd] # 0 => s.owner[fd] \in Sockets
                         /\ s.conns[fd] # 0 => s.conns[fd] \in Sockets
      /\ \A x \in Tokens : s.directory[x] # 0 => s.directory[x] \in Fds
      /\ s.timers \subseteq Sockets /\ s.opened \in Nat
  BY AgreeTypes
<1>3. \A fd \in G : s.conns[fd] = 0 /\ fd \notin s.listening
  BY <1>1 DEF HeldOnce
<1>4. OwnersKnown(t)
  BY <1>1, <1>2 DEF OwnersKnown, IsUnheld
<1>5. TasksKnown(t, {}, {})
  BY <1>1, <1>2, <1>3 DEF TasksKnown, IsUnheld
<1>6. TokensKnown(t)
  BY <1>1, <1>2 DEF TokensKnown, IsUnheld
<1>7. TimersKnown(t, {})
  BY <1>1, <1>2 DEF TimersKnown, IsUnheld
<1>8. ChannelsKnown(t)
  BY <1>1 DEF ChannelsKnown, IsUnheld
<1>9. HeldOnce(t)
  BY <1>1, <1>3 DEF HeldOnce, IsUnheld
<1>10. ToldOnce(t)
  BY <1>1 DEF ToldOnce, IsUnheld
<1> QED BY <1>4, <1>5, <1>6, <1>7, <1>8, <1>9, <1>10 DEF TablesAgree

\* The tables agree after channels are removed.
LEMMA RemovedKeeps ==
  ASSUME NEW s, TablesAgree(s, {}, {}), NEW F, NEW t \in Tables, IsRemoved(s, t, F)
  PROVE  TablesAgree(t, {}, {})
BY DEF TablesAgree, OwnersKnown, TasksKnown, TokensKnown, TimersKnown, ChannelsKnown, HeldOnce,
       ToldOnce, IsRemoved

-----------------------------------------------------------------------------
(* Time and the network *)

\* handleTimerEvent takes the tasks whose time has come out of the timers.
LEMMA DueKeeps ==
  ASSUME NEW s, TablesAgree(s, {}, {})
  PROVE  TablesAgree(ReleaseTimers(s, s.expired), s.expired, {})
<1> DEFINE D == s.expired
           t == ReleaseTimers(s, D)
<1>1. /\ s \in Tables /\ OwnersKnown(s) /\ TasksKnown(s, {}, {}) /\ TokensKnown(s)
      /\ TimersKnown(s, {}) /\ ChannelsKnown(s) /\ HeldOnce(s) /\ ToldOnce(s)
  BY DEF TablesAgree
<1>2. D \subseteq s.timers
  BY <1>1 DEF TimersKnown
<1> HIDE DEF D
<1>3. t \in Tables /\ IsReleased(s, t, D)
  BY <1>1, TimersShape, Zenon
<1> HIDE DEF t
<1>4. /\ t.timers = s.timers \ D /\ t.expired = {}
      /\ t.conns = s.conns /\ t.directory = s.directory /\ t.listening = s.listening
      /\ t.channels = s.channels /\ t.interest = s.interest
      /\ t.owner = s.owner /\ t.opened = s.opened /\ t.sock = s.sock /\ t.manager = s.manager
  BY <1>3 DEF IsReleased, D
<1>5. t.timers \cup D = s.timers
  BY <1>2, <1>4
<1>6. TimersKnown(t, D)
  BY <1>1, <1>4, <1>5 DEF TimersKnown
<1>7. TasksKnown(t, D, {})
  BY <1>1, <1>4, <1>5 DEF TasksKnown
<1>8. OwnersKnown(t) /\ TokensKnown(t) /\ ChannelsKnown(t) /\ HeldOnce(t) /\ ToldOnce(t)
  BY <1>1, <1>4 DEF OwnersKnown, TokensKnown, ChannelsKnown, HeldOnce, ToldOnce
<1> QED BY <1>3, <1>6, <1>7, <1>8 DEF TablesAgree, t, D

\* Time passes.
LEMMA ExpireKeeps ==
  ASSUME NEW s, TablesAgree(s, {}, {}), NEW n \in s.timers
  PROVE  /\ TablesAgree([s EXCEPT !.expired = @ \cup {n}], {}, {})
         /\ [s EXCEPT !.expired = @ \cup {n}].opened = s.opened
<1> DEFINE x == s.expired \cup {n}
           t == [s EXCEPT !.expired = x]
<1>1. /\ s \in Tables /\ OwnersKnown(s) /\ TasksKnown(s, {}, {}) /\ TokensKnown(s)
      /\ TimersKnown(s, {}) /\ ChannelsKnown(s) /\ HeldOnce(s) /\ ToldOnce(s)
  BY DEF TablesAgree
<1>2. x \subseteq s.timers /\ s.timers \subseteq Sockets
  BY <1>1, AgreeTypes DEF TimersKnown
<1> HIDE DEF x
<1>3. /\ t \in Tables /\ t.expired = x /\ t.timers = s.timers
      /\ t.conns = s.conns /\ t.directory = s.directory /\ t.listening = s.listening
      /\ t.channels = s.channels /\ t.interest = s.interest
      /\ t.owner = s.owner /\ t.opened = s.opened /\ t.sock = s.sock /\ t.manager = s.manager
  BY <1>1, <1>2 DEF Tables
<1> HIDE DEF t
<1>4. TimersKnown(t, {}) /\ TasksKnown(t, {}, {})
  BY <1>1, <1>2, <1>3 DEF TimersKnown, TasksKnown
<1>5. OwnersKnown(t) /\ TokensKnown(t) /\ ChannelsKnown(t) /\ HeldOnce(t) /\ ToldOnce(t)
  BY <1>1, <1>3 DEF OwnersKnown, TokensKnown, ChannelsKnown, HeldOnce, ToldOnce
<1>6. TablesAgree(t, {}, {})
  BY <1>3, <1>4, <1>5 DEF TablesAgree
<1> QED BY <1>3, <1>6 DEF t, x

\* The status of a socket changes.
IsMoved(s, t, n, status) ==
  /\ t.timers = s.timers /\ t.expired = s.expired
  /\ t.conns = s.conns /\ t.directory = s.directory /\ t.listening = s.listening
  /\ t.channels = s.channels /\ t.interest = s.interest
  /\ t.owner = s.owner /\ t.opened = s.opened /\ t.manager = s.manager
  /\ \A m \in Sockets : /\ t.sock[m].fd = s.sock[m].fd /\ t.sock[m].token = s.sock[m].token
                        /\ t.sock[m].notes = s.sock[m].notes
                        /\ m # n => t.sock[m].status = s.sock[m].status
                        /\ m = n => t.sock[m].status = status

\* What the network does to a socket
LEMMA MoveShape ==
  ASSUME NEW s \in Tables, NEW n \in Sockets, NEW status \in Statuses
  PROVE  /\ [s EXCEPT !.sock[n].status = status] \in Tables
         /\ IsMoved(s, [s EXCEPT !.sock[n].status = status], n, status)
<1> DEFINE r == [s.sock[n] EXCEPT !.status = status]
           so == [s.sock EXCEPT ![n] = r]
           t == [s EXCEPT !.sock = so]
<1>1. t = [s EXCEPT !.sock[n].status = status]
  BY DEF Tables
<1>2. s.sock \in [Sockets -> Socket]
  BY DEF Tables
<1>3. /\ r \in Socket /\ r.fd = s.sock[n].fd /\ r.token = s.sock[n].token
      /\ r.notes = s.sock[n].notes /\ r.status = status
  BY <1>2 DEF Socket
<1> HIDE DEF r
<1>4. so \in [Sockets -> Socket] /\ \A m \in Sockets : so[m] = IF m = n THEN r ELSE s.sock[m]
  BY <1>2, <1>3
<1> HIDE DEF so
<1>5. /\ t \in Tables /\ t.sock = so /\ t.timers = s.timers /\ t.expired = s.expired
      /\ t.conns = s.conns /\ t.directory = s.directory /\ t.listening = s.listening
      /\ t.channels = s.channels /\ t.interest = s.interest
      /\ t.owner = s.owner /\ t.opened = s.opened /\ t.manager = s.manager
  BY <1>4 DEF Tables
<1> HIDE DEF t
<1>6. IsMoved(s, t, n, status)
  BY <1>3, <1>4, <1>5 DEF IsMoved
<1> QED BY <1>1, <1>5, <1>6

\* The tables agree after that.
LEMMA MoveKeeps ==
  ASSUME NEW s, TablesAgree(s, {}, {}), NEW t \in Tables, NEW n, NEW status,
         IsMoved(s, t, n, status)
  PROVE  TablesAgree(t, {}, {})
<1>1. /\ OwnersKnown(s) /\ TasksKnown(s, {}, {}) /\ TokensKnown(s) /\ TimersKnown(s, {})
      /\ ChannelsKnown(s) /\ HeldOnce(s) /\ ToldOnce(s)
  BY DEF TablesAgree
<1>2. /\ \A fd \in Fds : /\ s.owner[fd] # 0 => s.owner[fd] \in Sockets
                         /\ s.conns[fd] # 0 => s.conns[fd] \in Sockets
      /\ \A x \in Tokens : s.directory[x] # 0 => s.directory[x] \in Fds
      /\ s.timers \subseteq Sockets
  BY AgreeTypes
<1>3. /\ t.timers = s.timers /\ t.expired = s.expired
      /\ t.conns = s.conns /\ t.directory = s.directory /\ t.listening = s.listening
      /\ t.channels = s.channels /\ t.interest = s.interest
      /\ t.owner = s.owner /\ t.opened = s.opened /\ t.manager = s.manager
  BY DEF IsMoved
<1>4. \A m \in Sockets : /\ t.sock[m].fd = s.sock[m].fd /\ t.sock[m].token = s.sock[m].token
                         /\ t.sock[m].notes = s.sock[m].notes
  BY DEF IsMoved
<1>5. OwnersKnown(t)
  BY <1>1, <1>2, <1>3, <1>4 DEF OwnersKnown
<1>6. TasksKnown(t, {}, {})
  BY <1>1, <1>2, <1>3, <1>4 DEF TasksKnown
<1>7. TokensKnown(t)
  BY <1>1, <1>2, <1>3, <1>4 DEF TokensKnown
<1>8. TimersKnown(t, {})
  BY <1>1, <1>2, <1>3, <1>4 DEF TimersKnown
<1>9. ChannelsKnown(t) /\ HeldOnce(t)
  BY <1>1, <1>3 DEF ChannelsKnown, HeldOnce
<1>10. ToldOnce(t)
  BY <1>1, <1>4 DEF ToldOnce
<1> QED BY <1>5, <1>6, <1>7, <1>8, <1>9, <1>10 DEF TablesAgree

-----------------------------------------------------------------------------
(* TcpInv is inductive *)

\* The invariant where no callback of a timer is under way
LEMMA Quiet ==
  ASSUME TcpInv, phase # "timers"
  PROVE  due = {} /\ TablesAgree(state, {}, {})
BY DEF TcpInv

\* The server starts with empty tables.
LEMMA TcpInit == Init => TcpInv
<1> SUFFICES ASSUME Init PROVE TcpInv
  OBVIOUS
<1>1. /\ MaxSocks \in Nat /\ MaxFd \in Nat /\ TokenMax \in Nat
  BY TcpAssumption
<1>2. NoSocket \in Socket /\ Len(NoSocket.notes) = 0
  BY <1>1 DEF NoSocket, Socket, Statuses
<1>3. NoChannel \in Channel /\ "none" \in Kinds
  BY <1>1 DEF NoChannel, Channel, Kinds
<1>4. /\ state.conns = [fd \in Fds |-> 0] /\ state.directory = [t \in Tokens |-> 0]
      /\ state.nextToken = 0 /\ state.listening = {} /\ state.timers = {} /\ state.expired = {}
      /\ state.channels = [fd \in Fds |-> NoChannel] /\ state.interest = [fd \in Fds |-> "none"]
      /\ state.owner = [fd \in Fds |-> 0] /\ state.opened = 0
      /\ state.sock = [n \in Sockets |-> NoSocket] /\ state.manager = [fd \in Fds |-> 0]
  BY DEF Init, Sockets
<1>5. state \in Tables
  BY <1>1, <1>2, <1>3 DEF Init, Tables, Sockets
<1>6. /\ OwnersKnown(state) /\ TasksKnown(state, {}, {}) /\ TokensKnown(state)
      /\ TimersKnown(state, {}) /\ ChannelsKnown(state) /\ HeldOnce(state)
  BY <1>4 DEF OwnersKnown, TasksKnown, TokensKnown, TimersKnown, ChannelsKnown, HeldOnce
<1>7. ToldOnce(state)
  BY <1>2, <1>4 DEF ToldOnce
<1>8. due = {} /\ batch = {} /\ backlog = 0
  BY DEF Init
<1>9. TablesAgree(state, {}, {})
  BY <1>5, <1>6, <1>7 DEF TablesAgree
<1> QED BY <1>1, <1>4, <1>8, <1>9 DEF TcpInv

\* The calls of other threads
LEMMA CallStep ==
  ASSUME TcpInv, NEW s, Call(s), TablesAgree(s, {}, {}), s.opened + backlog <= MaxSocks
  PROVE  TcpInv'
<1>1. due = {}
  BY DEF TcpInv, Call
<1>2. /\ state' = s /\ due' = {} /\ batch' = batch /\ backlog' = backlog
  BY <1>1 DEF Call
<1> QED BY <1>2 DEF TcpInv

\* connect
LEMMA ConnectStep == ASSUME TcpInv, TokensSuffice, CallConnect PROVE TcpInv'
<1> DEFINE t == ActiveConnect(state, "visit")
<1>1. phase = "events" /\ Call(t)
  BY DEF CallConnect, Call
<1>2. TablesAgree(state, {}, {}) /\ backlog \in Nat /\ state.opened + backlog <= MaxSocks
  BY <1>1, Quiet DEF TcpInv
<1>3. TablesAgree(t, {}, {})
  BY <1>2, StartKeeps
<1>4. t.opened + backlog <= MaxSocks
  <2>1. Handler(state, "connect", "visit") = t
    BY DEF Handler
  <2> HIDE DEF t
  <2> QED BY <1>2, <2>1, HandlerBound
<1> HIDE DEF t
<1> QED BY <1>1, <1>3, <1>4, CallStep

\* The tables agree after tasks and listening sockets ended when no callback of
\* a timer is under way.
LEMMA DropStep ==
  ASSUME NEW s, TablesAgree(s, {}, {}), NEW F \in SUBSET Fds, NEW L, L \subseteq s.listening,
         \A fd \in F : s.conns[fd] # 0, NEW t \in Tables, IsDropped(s, t, F, L, {})
  PROVE  TablesAgree(t, {}, {}) /\ t.opened = s.opened
<1> DEFINE N == {s.conns[fd] : fd \in F}
<1>1. {} \subseteq Sockets /\ {} \ N = {}
  OBVIOUS
<1>2. TablesAgree(t, {} \ N, {} \ N)
  BY <1>1, DropKeeps, Zenon
<1>3. t.opened = s.opened
  BY DEF IsDropped
<1> QED BY <1>1, <1>2, <1>3

\* cancelActiveConnecttion
LEMMA CancelStep == ASSUME TcpInv, NEW token \in Tokens, CallCancel(token) PROVE TcpInv'
<1> DEFINE t == Cancel(state, {token})
<1>1. phase = "events" /\ Call(t)
  BY DEF CallCancel, Call
<1>2. TablesAgree(state, {}, {}) /\ state.opened + backlog <= MaxSocks /\ {token} \subseteq Tokens
  BY <1>1, Quiet DEF TcpInv
<1>3. /\ t \in Tables
      /\ \E F \in SUBSET Fds : (\A fd \in F : state.conns[fd] # 0) /\ IsDropped(state, t, F, {}, {})
  BY <1>2, CancelShape
<1> HIDE DEF t
<1>4. PICK F \in SUBSET Fds : (\A fd \in F : state.conns[fd] # 0) /\ IsDropped(state, t, F, {}, {})
  BY <1>3
<1>5. {} \subseteq state.listening
  OBVIOUS
<1>6. TablesAgree(t, {}, {}) /\ t.opened = state.opened
  BY <1>2, <1>3, <1>4, <1>5, DropStep, Zenon
<1> QED BY <1>1, <1>2, <1>6, CallStep

\* stopAll
LEMMA StopStep == ASSUME TcpInv, GentleHandler, CallStopAll PROVE TcpInv'
<1>1. PICK op \in CancelOps : Call(StopAll(state, op))
  BY DEF CallStopAll
<1> DEFINE t == StopAll(state, op)
           F == Keys(state.conns)
<1>2. phase = "events" /\ op \in {"none", "cancelAll"}
  BY <1>1 DEF Call, GentleHandler
<1>3. TablesAgree(state, {}, {}) /\ state.opened + backlog <= MaxSocks
  BY <1>2, Quiet DEF TcpInv
<1>4. t \in Tables /\ IsDropped(state, t, F, state.listening, {})
  BY <1>2, <1>3, StopShape, Zenon
<1> HIDE DEF t
<1>5. F \in SUBSET Fds /\ \A fd \in F : state.conns[fd] # 0
  <2>1. state.conns \in [Fds -> 0 .. MaxSocks]
    BY <1>3, AgreeTypes
  <2> QED BY <2>1 DEF Keys
<1> HIDE DEF F
<1>6. state.listening \subseteq state.listening
  OBVIOUS
<1>7. TablesAgree(t, {}, {}) /\ t.opened = state.opened
  BY <1>3, <1>4, <1>5, <1>6, DropStep, Zenon
<1> QED BY <1>1, <1>3, <1>7, CallStep DEF t

\* startListen
LEMMA ListenStep == ASSUME TcpInv, CallStartListen PROVE TcpInv'
<1> DEFINE o == Opened(state, "listen", 0, "visit")
           g == o.sock[o.opened].fd
           t == [UpdateChannel(o, g, "listen", o.opened) EXCEPT !.listening = {g}]
<1>1. /\ state.listening = {} /\ FreeFds(state) # {} /\ MayOpen(state) /\ Call(t)
      /\ phase = "events"
  BY DEF CallStartListen, Call
<1> HIDE DEF o
<1>2. /\ TablesAgree(state, {}, {}) /\ backlog \in Nat /\ state.opened \in Nat
      /\ MaxSocks \in Nat /\ state.opened + backlog < MaxSocks
  BY <1>1, Quiet, AgreeTypes, TcpAssumption DEF TcpInv, MayOpen
<1>3. state.opened < MaxSocks /\ (state.opened + 1) + backlog <= MaxSocks
  BY <1>2
<1>4. /\ t \in Tables /\ state.opened + 1 \in Sockets
      /\ \E f \in Fds : state.owner[f] = 0 /\ IsJoined(state, t, f, state.opened + 1, "listen")
  <2> HIDE DEF g, t
  <2>1. o = Opened(state, "listen", 0, "visit")
    BY DEF o
  <2>2. g = o.sock[o.opened].fd
    BY DEF g
  <2>3. t = [UpdateChannel(o, g, "listen", o.opened) EXCEPT !.listening = {g}]
    BY DEF t
  <2> QED BY <1>1, <1>2, <1>3, <2>1, <2>2, <2>3, ListenShape
<1> HIDE DEF g, t
<1>5. PICK f \in Fds : state.owner[f] = 0 /\ IsJoined(state, t, f, state.opened + 1, "listen")
  BY <1>4
<1>6. TablesAgree(t, {}, {})
  <2>1. "listen" \in {"conn", "listen"}
    OBVIOUS
  <2> DEFINE n == state.opened + 1
  <2>2. n \in Sockets /\ n = state.opened + 1
    BY <1>4
  <2>3. IsJoined(state, t, f, n, "listen") /\ state.owner[f] = 0 /\ t \in Tables
    BY <1>4, <1>5
  <2> HIDE DEF n
  <2> QED BY <1>2, <2>1, <2>2, <2>3, JoinKeeps
<1>7. t.opened = state.opened + 1
  BY <1>5 DEF IsJoined
<1> QED BY <1>1, <1>3, <1>6, <1>7, CallStep

\* handleTimerEvent
LEMMA TimersStep == ASSUME TcpInv, HandleTimers PROVE TcpInv'
<1> DEFINE t == ReleaseTimers(state, state.expired)
<1>1. /\ phase = "events" /\ phase' = "timers" /\ due' = state.expired /\ state' = t
      /\ batch' = batch /\ backlog' = backlog
  BY DEF HandleTimers
<1>2. TablesAgree(state, {}, {}) /\ state.expired \subseteq Sockets /\ state \in Tables
  BY <1>1, Quiet, AgreeTypes
<1>3. TablesAgree(t, state.expired, {})
  BY <1>2, DueKeeps
<1>4. t.opened = state.opened
  BY <1>2, TimersShape DEF IsReleased
<1> HIDE DEF t
<1> QED BY <1>1, <1>2, <1>3, <1>4 DEF TcpInv

\* The callback of a timer
LEMMA TimeoutStep ==
  ASSUME TcpInv, TokensSuffice, GentleHandler, NEW n, TimerCallback(n)
  PROVE  TcpInv'
<1>1. PICK op \in TimeoutOps : state' = TimedOut(state, n, op)
  BY DEF TimerCallback
<1>2. /\ phase = "timers" /\ phase' = phase /\ n \in due /\ due' = due \ {n}
      /\ batch' = batch /\ backlog' = backlog /\ op \in {"none", "connect"}
  BY <1>1 DEF TimerCallback, GentleHandler
<1>3. /\ TablesAgree(state, due, {}) /\ due \subseteq Sockets /\ backlog \in Nat
      /\ state.opened + backlog <= MaxSocks
  BY DEF TcpInv
<1> DEFINE t == TimedOut(state, n, op)
<1>4. TablesAgree(t, due \ {n}, {}) /\ t.opened + backlog <= MaxSocks
  BY <1>2, <1>3, TimedOutKeeps, Zenon
<1> HIDE DEF t
<1> QED BY <1>1, <1>2, <1>3, <1>4 DEF TcpInv, t

\* A TcpConnection handles its events.
LEMMA VisitStep == ASSUME TcpInv, NEW n, VisitConnection(n) PROVE TcpInv'
<1>1. /\ phase = "events" /\ phase' = phase /\ due' = due /\ batch' = batch
      /\ backlog' = backlog
  BY DEF VisitConnection, loopVars
<1>2. TablesAgree(state, {}, {}) /\ due = {}
  BY <1>1, Quiet
<1> DEFINE t == RemoveChannels(state, {state.sock[n].fd})
<1>3. state' = state \/ state' = t
  BY DEF VisitConnection
<1>4. state \in Tables /\ Polled(state)
  BY <1>2, AgreeTypes
<1>5. t \in Tables /\ IsRemoved(state, t, {state.sock[n].fd})
  BY <1>4, RemoveShape, Zenon
<1> HIDE DEF t
<1>6. TablesAgree(t, {}, {})
  BY <1>2, <1>5, RemovedKeeps
<1>7. t.opened = state.opened
  BY <1>5 DEF IsRemoved
<1> QED BY <1>1, <1>2, <1>3, <1>6, <1>7 DEF TcpInv

\* The manager removes connections.
LEMMA ManagerStep == ASSUME TcpInv, VisitManager PROVE TcpInv'
<1> DEFINE F == Range(removals)
           t == RemoveConnections(state, F)
           G == F \cap Keys(state.manager)
<1>1. /\ phase = "events" /\ phase' = phase /\ due' = due /\ batch' = batch
      /\ backlog' = backlog /\ state' = t
  BY DEF VisitManager, loopVars
<1>2. TablesAgree(state, {}, {}) /\ due = {}
  BY <1>1, Quiet
<1> HIDE DEF F
<1>3. t \in Tables /\ IsUnheld(state, t, G) /\ G \subseteq Fds
  BY <1>2, UnheldShape, Zenon
<1>4. \A fd \in G : state.manager[fd] # 0
  BY DEF Keys
<1> HIDE DEF t, G
<1>5. TablesAgree(t, {}, {})
  BY <1>2, <1>3, <1>4, UnheldKeeps
<1>6. t.opened = state.opened
  BY <1>3 DEF IsUnheld
<1> QED BY <1>1, <1>2, <1>5, <1>6 DEF TcpInv

\* Time passes.
LEMMA ExpiryStep == ASSUME TcpInv, NEW n, Expire(n) PROVE TcpInv'
<1> DEFINE t == [state EXCEPT !.expired = @ \cup {n}]
<1>1. /\ phase = "events" /\ phase' = phase /\ due' = due /\ batch' = batch
      /\ backlog' = backlog /\ state' = t /\ n \in state.timers
  BY DEF Expire, loopVars
<1>2. TablesAgree(state, {}, {}) /\ due = {}
  BY <1>1, Quiet
<1>3. TablesAgree(t, {}, {}) /\ t.opened = state.opened
  BY <1>1, <1>2, ExpireKeeps
<1> HIDE DEF t
<1> QED BY <1>1, <1>2, <1>3 DEF TcpInv

\* The network answers.
LEMMA NetworkKeeps ==
  ASSUME TcpInv, NEW n \in Socks, NEW status \in {"connected", "failed", "eof", "reset"},
         NetworkStep(n, status)
  PROVE  TcpInv'
<1> DEFINE t == [state EXCEPT !.sock[n].status = status]
<1>1. /\ phase = "events" /\ phase' = phase /\ due' = due /\ batch' = batch
      /\ backlog' = backlog /\ state' = t
  BY DEF NetworkStep, loopVars
<1>2. TablesAgree(state, {}, {}) /\ due = {}
  BY <1>1, Quiet
<1>3. state \in Tables /\ n \in Sockets /\ status \in Statuses
  <2>1. state \in Tables /\ state.opened \in 0 .. MaxSocks
    BY <1>2, AgreeTypes
  <2>2. MaxSocks \in Nat
    BY TcpAssumption
  <2> QED BY <2>1, <2>2 DEF Socks, Sockets, Statuses
<1>4. t \in Tables /\ IsMoved(state, t, n, status)
  BY <1>3, MoveShape, Zenon
<1> HIDE DEF t
<1>5. TablesAgree(t, {}, {})
  BY <1>2, <1>4, MoveKeeps, Zenon
<1>6. t.opened = state.opened
  BY <1>4 DEF IsMoved
<1> QED BY <1>1, <1>2, <1>5, <1>6 DEF TcpInv

\* on_accept
LEMMA AcceptStep ==
  ASSUME TcpInv, phase # "timers", Accept, due' = due, phase' = phase, batch' \subseteq batch
  PROVE  TcpInv'
<1>1. /\ TablesAgree(state, {}, {}) /\ due = {} /\ backlog \in Nat /\ state.opened \in Nat
      /\ state.opened + backlog <= MaxSocks /\ MaxSocks \in Nat
      /\ batch \subseteq [fd : Fds, ev : {"in", "out", "hup", "inhup"}]
  BY Quiet, AgreeTypes, TcpAssumption DEF TcpInv
<1>2. CASE backlog = 0 \/ FreeFds(state) = {}
  <2>1. state' = state /\ backlog' = backlog
    BY <1>2 DEF Accept
  <2> QED BY <1>1, <2>1 DEF TcpInv
<1>3. CASE backlog # 0 /\ FreeFds(state) # {}
  <2> DEFINE o == Opened(state, "connected", 0, "io")
             t == Adopt(o, o.sock[o.opened].fd, o.opened)
  <2>1. state' = t /\ backlog' = backlog - 1
    BY <1>3 DEF Accept
  <2>2. /\ state.opened < MaxSocks /\ backlog' \in Nat
        /\ (state.opened + 1) + backlog' <= MaxSocks
    BY <1>1, <1>3, <2>1
  <2> HIDE DEF o
  <2>3. o = Opened(state, "connected", 0, "io")
    BY DEF o
  <2> HIDE DEF t
  <2>4. t = Adopt(o, o.sock[o.opened].fd, o.opened)
    BY DEF t
  <2>5. /\ t \in Tables /\ state.opened + 1 \in Sockets
        /\ \E f \in Fds : state.owner[f] = 0 /\ IsJoined(state, t, f, state.opened + 1, "conn")
    BY <1>1, <1>3, <2>2, <2>3, <2>4, AcceptShape
  <2>6. PICK f \in Fds : state.owner[f] = 0 /\ IsJoined(state, t, f, state.opened + 1, "conn")
    BY <2>5
  <2>7. TablesAgree(t, {}, {})
    <3>1. "conn" \in {"conn", "listen"}
      OBVIOUS
    <3> DEFINE n == state.opened + 1
    <3>2. n \in Sockets /\ n = state.opened + 1
      BY <2>5
    <3>3. IsJoined(state, t, f, n, "conn") /\ state.owner[f] = 0 /\ t \in Tables
      BY <2>5, <2>6
    <3> HIDE DEF n
    <3> QED BY <1>1, <3>1, <3>2, <3>3, JoinKeeps
  <2>8. t.opened = state.opened + 1
    BY <2>6 DEF IsJoined
  <2> QED BY <1>1, <2>1, <2>2, <2>7, <2>8 DEF TcpInv
<1> QED BY <1>2, <1>3

\* A channel of a task leads to the task.
LEMMA TaskOfChannel ==
  ASSUME NEW s, TablesAgree(s, {}, {}), NEW f \in Fds, s.channels[f] # NoChannel,
         s.channels[f].kind = "task"
  PROVE  /\ s.channels[f].n \in Sockets /\ s.conns[f] = s.channels[f].n
         /\ s.sock[s.channels[f].n].fd = f /\ s.owner[f] = s.channels[f].n
<1>1. /\ s.owner[f] # 0 /\ s.channels[f].n = s.owner[f] /\ s.conns[f] = s.owner[f]
  BY DEF TablesAgree, ChannelsKnown
<1>2. s.owner[f] \in Sockets
  BY <1>1, AgreeTypes
<1>3. s.sock[s.owner[f]].fd = f
  BY <1>1 DEF TablesAgree, OwnersKnown
<1> QED BY <1>1, <1>2, <1>3

\* The callbacks of errorEvent and closeEvent
LEMMA FailedKeeps ==
  ASSUME TokensSuffice, NEW s, TablesAgree(s, {}, {}), NEW n \in Sockets, NEW f \in Fds,
         s.conns[f] = n, s.sock[n].fd = f, NEW op, backlog \in Nat,
         s.opened + backlog <= MaxSocks
  PROVE  /\ TablesAgree(Failed(s, n, op), {}, {})
         /\ Failed(s, n, op).opened + backlog <= MaxSocks
<1> DEFINE t == Noted(CloseFds(ReleaseTask(s, n), {f}), {n}, "fail")
<1>1. Failed(s, n, op) = Handler(t, op, "io")
  BY DEF Failed
<1> HIDE DEF t
<1>2. t = Noted(CloseFds(ReleaseTask(s, n), {f}), {n}, "fail")
  BY DEF t
<1>3. IsDropped(s, t, {f}, {}, {}) /\ TablesAgree(t, {}, {})
  BY <1>2, FailedDrops
<1>4. t.opened + backlog <= MaxSocks
  <2>1. t.opened = s.opened
    BY <1>3 DEF IsDropped
  <2> QED BY <2>1
<1>5. TablesAgree(Handler(t, op, "io"), {}, {})
  BY <1>3, HandlerKeeps
<1>6. Handler(t, op, "io").opened + backlog <= MaxSocks
  BY <1>3, <1>4, HandlerBound
<1> QED BY <1>1, <1>5, <1>6

\* The callback of writeReady
LEMMA ConnectedKeeps ==
  ASSUME TokensSuffice, NEW s, TablesAgree(s, {}, {}), NEW n \in Sockets, NEW f \in Fds,
         s.conns[f] = n, s.sock[n].fd = f, NEW op, backlog \in Nat,
         s.opened + backlog <= MaxSocks
  PROVE  /\ TablesAgree(Connected(s, n, op), {}, {})
         /\ Connected(s, n, op).opened + backlog <= MaxSocks
<1> DEFINE t == Adopt(Noted(ReleaseTask(s, n), {n}, "ok"), f, n)
<1>1. Connected(s, n, op) = Handler(t, op, "io")
  BY DEF Connected
<1>2. t \in Tables /\ IsAdopted(s, t, f, n)
  BY ConnectedShape, Zenon
<1> HIDE DEF t
<1>3. TablesAgree(t, {}, {})
  BY <1>2, AdoptKeeps, Zenon
<1>4. t.opened + backlog <= MaxSocks
  <2>1. t.opened = s.opened
    BY <1>2 DEF IsAdopted
  <2> QED BY <2>1
<1>5. TablesAgree(Handler(t, op, "io"), {}, {})
  BY <1>3, HandlerKeeps
<1>6. Handler(t, op, "io").opened + backlog <= MaxSocks
  BY <1>3, <1>4, HandlerBound
<1> QED BY <1>1, <1>5, <1>6

\* handleIoEvent
LEMMA IoStep == ASSUME TcpInv, TokensSuffice, NEW e \in batch, IoCallback(e) PROVE TcpInv'
<1> DEFINE ch == state.channels[e.fd]
<1>1. /\ phase = "io" /\ phase' = phase /\ due' = due /\ batch' \subseteq batch
  BY DEF IoCallback
<1>2. /\ TablesAgree(state, {}, {}) /\ due = {} /\ backlog \in Nat
      /\ state.opened + backlog <= MaxSocks
      /\ batch \subseteq [fd : Fds, ev : {"in", "out", "hup", "inhup"}] /\ e.fd \in Fds
  BY <1>1, Quiet DEF TcpInv
<1>3. ASSUME NEW t, state' = t, TablesAgree(t, {}, {}), t.opened + backlog <= MaxSocks,
             backlog' = backlog
      PROVE  TcpInv'
  BY <1>1, <1>2, <1>3 DEF TcpInv
<1>4. CASE state' = state /\ backlog' = backlog
  BY <1>2, <1>3, <1>4
<1>5. CASE Accept
  BY <1>1, <1>5, AcceptStep
<1>6. CASE /\ ch # NoChannel /\ ch.kind = "task" /\ backlog' = backlog
           /\ \E op \in IoOps : \/ state' = Failed(state, ch.n, op)
                                \/ state' = Connected(state, ch.n, op)
                                \/ state' = state
  <2>1. /\ ch.n \in Sockets /\ state.conns[e.fd] = ch.n /\ state.sock[ch.n].fd = e.fd
    BY <1>2, <1>6, TaskOfChannel
  <2> HIDE DEF ch
  <2>2. PICK op \in IoOps : \/ state' = Failed(state, ch.n, op)
                            \/ state' = Connected(state, ch.n, op)
                            \/ state' = state
    BY <1>6
  <2>3. CASE state' = Failed(state, ch.n, op)
    <3>1. /\ TablesAgree(Failed(state, ch.n, op), {}, {})
          /\ Failed(state, ch.n, op).opened + backlog <= MaxSocks
      BY <1>2, <2>1, FailedKeeps
    <3> QED BY <1>3, <1>6, <2>3, <3>1
  <2>4. CASE state' = Connected(state, ch.n, op)
    <3>1. /\ TablesAgree(Connected(state, ch.n, op), {}, {})
          /\ Connected(state, ch.n, op).opened + backlog <= MaxSocks
      BY <1>2, <2>1, ConnectedKeeps
    <3> QED BY <1>3, <1>6, <2>4, <3>1
  <2>5. CASE state' = state
    BY <1>4, <1>6, <2>5
  <2> QED BY <2>2, <2>3, <2>4, <2>5
<1> QED
  <2> HIDE DEF ch
  <2>1. \/ state' = state /\ backlog' = backlog
        \/ Accept
        \/ /\ ch # NoChannel /\ ch.kind = "task" /\ backlog' = backlog
           /\ \E op \in IoOps : \/ state' = Failed(state, ch.n, op)
                                \/ state' = Connected(state, ch.n, op)
                                \/ state' = state
    BY DEF IoCallback, ch
  <2> QED BY <1>4, <1>5, <1>6, <2>1, SMTT(30)

\* A step keeps the invariant.
LEMMA TcpStep == ASSUME TokensSuffice, GentleHandler PROVE TcpInv /\ [Next]_vars => TcpInv'
<1> SUFFICES ASSUME TcpInv, [Next]_vars PROVE TcpInv'
  OBVIOUS
<1>1. CASE CallConnect
  BY <1>1, ConnectStep
<1>2. CASE CallStopAll
  BY <1>2, StopStep
<1>3. CASE CallStartListen
  BY <1>3, ListenStep
<1>4. CASE \E token \in Tokens : CallCancel(token)
  BY <1>4, CancelStep
<1>5. CASE HandleTimers
  BY <1>5, TimersStep
<1>6. CASE TimerCallbacks
  BY <1>6, TimeoutStep DEF TimerCallbacks
<1>7. CASE EndTimers
  <2>1. /\ due = {} /\ due' = due /\ state' = state /\ batch' = batch /\ backlog' = backlog
    BY <1>7 DEF EndTimers
  <2> QED BY <2>1 DEF TcpInv
<1>8. CASE VisitConnections
  BY <1>8, VisitStep DEF VisitConnections
<1>9. CASE VisitManager
  BY <1>9, ManagerStep
<1>10. CASE Poll
  <2>1. /\ phase = "events" /\ due' = due /\ state' = state /\ backlog' = backlog
        /\ batch' \subseteq [fd : Fds, ev : {"in", "out", "hup", "inhup"}]
    BY <1>10 DEF Poll
  <2>2. due = {}
    BY <2>1 DEF TcpInv
  <2> QED BY <2>1, <2>2 DEF TcpInv
<1>11. CASE IoCallbacks
  BY <1>11, IoStep DEF IoCallbacks
<1>12. CASE EndRound
  <2>1. /\ phase = "io" /\ due' = due /\ state' = state /\ backlog' = backlog /\ batch' = batch
    BY <1>12 DEF EndRound
  <2>2. due = {}
    BY <2>1 DEF TcpInv
  <2> QED BY <2>1, <2>2 DEF TcpInv
<1>13. CASE Expiry
  BY <1>13, ExpiryStep DEF Expiry
<1>14. CASE \E n \in Socks, status \in {"connected", "failed", "eof", "reset"} : NetworkStep(n, status)
  BY <1>14, NetworkKeeps
<1>15. CASE PeerConnects
  <2>1. /\ phase = "events" /\ phase' = phase /\ due' = due /\ state' = state /\ batch' = batch
        /\ backlog' = backlog + 1 /\ state.opened + backlog < MaxSocks
    BY <1>15 DEF PeerConnects, loopVars, MayOpen
  <2>2. due = {} /\ TablesAgree(state, {}, {}) /\ backlog \in Nat
    BY <2>1, Quiet DEF TcpInv
  <2>3. state.opened \in Nat /\ MaxSocks \in Nat
    BY <2>2, AgreeTypes, TcpAssumption
  <2>4. state.opened + (backlog + 1) <= MaxSocks /\ backlog + 1 \in Nat
    BY <2>1, <2>2, <2>3
  <2> QED BY <2>1, <2>2, <2>4 DEF TcpInv
<1>16. CASE UNCHANGED vars
  BY <1>16 DEF vars, TcpInv
<1> QED
  BY <1>1, <1>2, <1>3, <1>4, <1>5, <1>6, <1>7, <1>8, <1>9, <1>10, <1>11, <1>12, <1>13, <1>14,
     <1>15, <1>16 DEF Next

-----------------------------------------------------------------------------
(* What the invariant gives *)

\* TcpInv always holds.
LEMMA TcpInvariant == ASSUME TokensSuffice, GentleHandler PROVE Spec => []TcpInv
<1>1. Init => TcpInv
  BY TcpInit
<1>2. TcpInv /\ [Next]_vars => TcpInv'
  BY TcpStep
<1> QED BY <1>1, <1>2, PTL DEF Spec

\* notifyActiveConnection is called once at most for a connect, whichever of
\* the timeout, a failure, success, a cancel and stopAll ends it.
THEOREM ReportedOnce == ASSUME TokensSuffice, GentleHandler PROVE Spec => []NotifiedOnce
<1>1. TcpInv => NotifiedOnce
  <2> SUFFICES ASSUME TcpInv, NEW n \in Socks PROVE Len(state.sock[n].notes) <= 1
    BY DEF NotifiedOnce
  <2>1. TablesAgree(state, due, {})
    BY DEF TcpInv
  <2>2. n \in Sockets
    <3>1. state.opened \in 0 .. MaxSocks /\ MaxSocks \in Nat
      BY <2>1, AgreeTypes, TcpAssumption
    <3> QED BY <3>1 DEF Socks, Sockets
  <2> QED BY <2>1, <2>2 DEF TablesAgree, ToldOnce
<1>2. Spec => []TcpInv
  BY TcpInvariant
<1> QED BY <1>1, <1>2, PTL

\* connections_map, token_directory, the timers and the descriptors name the
\* same tasks: a cancel finds the task of its token, and no timer is left that
\* would end a later task.
THEOREM TaskMapsAgree == ASSUME TokensSuffice, GentleHandler PROVE Spec => []MapsAgree
<1>1. TcpInv => MapsAgree
  <2> SUFFICES ASSUME TcpInv PROVE MapsAgree
    OBVIOUS
  <2>1. /\ TablesAgree(state, due, {}) /\ TasksKnown(state, due, {}) /\ TokensKnown(state)
        /\ TimersKnown(state, due)
    BY DEF TcpInv, TablesAgree
  <2>2. /\ state.conns \in [Fds -> 0 .. MaxSocks] /\ state.directory \in [Tokens -> 0 .. MaxFd]
        /\ \A x \in Tokens : state.directory[x] # 0 => state.directory[x] \in Fds
    BY <2>1, AgreeTypes
  <2>3. ASSUME NEW fd \in Keys(state.conns)
        PROVE  /\ state.owner[fd] = state.conns[fd]
               /\ state.sock[state.conns[fd]].token # 0
               /\ state.directory[state.sock[state.conns[fd]].token] = fd
               /\ state.conns[fd] \in state.timers \cup due
    BY <2>1, <2>2, ZeroIsNone DEF Keys, TasksKnown
  <2>4. \A token \in Keys(state.directory) : state.directory[token] \in Keys(state.conns)
    BY <2>1, <2>2 DEF Keys, TokensKnown
  <2>5. state.timers \subseteq Range(state.conns)
    <3> SUFFICES ASSUME NEW n \in state.timers PROVE n \in Range(state.conns)
      OBVIOUS
    <3>1. state.sock[n].fd \in Fds /\ state.conns[state.sock[n].fd] = n
      BY <2>1 DEF TimersKnown
    <3> QED BY <2>2, <3>1 DEF Range
  <2> QED BY <2>3, <2>4, <2>5 DEF MapsAgree
<1>2. Spec => []TcpInv
  BY TcpInvariant
<1> QED BY <1>1, <1>2, PTL

\* An entry of channelsMap is that of the socket which has the descriptor now,
\* though descriptors are reused: no updateChannel finds a stale one.
THEOREM NoStaleChannel == ASSUME TokensSuffice, GentleHandler PROVE Spec => []ChannelsAreCurrent
<1>1. TcpInv => ChannelsAreCurrent
  <2> SUFFICES ASSUME TcpInv PROVE ChannelsAreCurrent
    OBVIOUS
  <2>1. TablesAgree(state, due, {}) /\ ChannelsKnown(state)
    BY DEF TcpInv, TablesAgree
  <2>2. state.owner \in [Fds -> 0 .. MaxSocks]
    BY <2>1, AgreeTypes
  <2> QED BY <2>1, <2>2 DEF ChannelsAreCurrent, ChannelsKnown, Keys
<1>2. Spec => []TcpInv
  BY TcpInvariant
<1> QED BY <1>1, <1>2, PTL

\* Every open descriptor is held by the listening sockets, a task or the
\* manager, and by one of them only: none is leaked or closed twice.
THEOREM NoDescriptorLost == ASSUME TokensSuffice, GentleHandler PROVE Spec => []DescriptorsHeld
<1>1. TcpInv => DescriptorsHeld
  <2> SUFFICES ASSUME TcpInv PROVE DescriptorsHeld
    OBVIOUS
  <2>1. TablesAgree(state, due, {}) /\ HeldOnce(state)
    BY DEF TcpInv, TablesAgree
  <2>2. /\ state.conns \in [Fds -> 0 .. MaxSocks] /\ state.owner \in [Fds -> 0 .. MaxSocks]
        /\ state.manager \in [Fds -> 0 .. MaxSocks] /\ state.listening \subseteq Fds
    BY <2>1, AgreeTypes
  <2>3. \A fd : /\ fd \in Keys(state.owner) <=> fd \in Fds /\ state.owner[fd] # 0
                /\ fd \in Keys(state.conns) <=> fd \in Fds /\ state.conns[fd] # 0
                /\ fd \in Keys(state.manager) <=> fd \in Fds /\ state.manager[fd] # 0
    BY <2>2 DEF Keys
  <2>4. Keys(state.owner) = state.listening \cup Keys(state.conns) \cup Keys(state.manager)
    BY <2>1, <2>2, <2>3 DEF HeldOnce
  <2>5. /\ Keys(state.conns) \cap Keys(state.manager) = {}
        /\ state.listening \cap (Keys(state.conns) \cup Keys(state.manager)) = {}
    BY <2>1, <2>2, <2>3 DEF HeldOnce
  <2>6. \A fd \in Keys(state.manager) : state.owner[fd] = state.manager[fd]
    BY <2>1, <2>3 DEF HeldOnce
  <2> QED BY <2>4, <2>5, <2>6 DEF DescriptorsHeld
<1>2. Spec => []TcpInv
  BY TcpInvariant
<1> QED BY <1>1, <1>2, PTL

-----------------------------------------------------------------------------
(* What an operation leaves alone: the entries of the open descriptors that  *)
(* it is not about                                                           *)

Still(s, t, fd) ==
  /\ t.owner[fd] = s.owner[fd] /\ t.conns[fd] = s.conns[fd] /\ t.manager[fd] = s.manager[fd]
  /\ t.channels[fd] = s.channels[fd] /\ Status(t, fd) = Status(s, fd)

\* G are the descriptors that the operation is about.
Steady(s, t, G) == \A fd \in Fds : s.owner[fd] # 0 /\ fd \notin G => Still(s, t, fd)

\* A socket has one descriptor.
LEMMA OneOwner ==
  ASSUME NEW s, NEW D, NEW R, TablesAgree(s, D, R), NEW f \in Fds, NEW g \in Fds,
         s.owner[f] # 0, s.owner[f] = s.owner[g]
  PROVE  f = g
<1>1. s.sock[s.owner[f]].fd = f /\ s.sock[s.owner[g]].fd = g
  BY DEF TablesAgree, OwnersKnown
<1> QED BY <1>1

\* activeConnect
LEMMA StartSteady ==
  ASSUME TokensSuffice, NEW s, NEW D, NEW R, TablesAgree(s, D, R), backlog \in Nat,
         NEW by \in {"visit", "io"}, StatusKnown(s)
  PROVE  Steady(s, ActiveConnect(s, by), {}) /\ StatusKnown(ActiveConnect(s, by))
<1> DEFINE t == ActiveConnect(s, by)
           n == s.opened + 1
<1>1. CASE t = s
  BY <1>1 DEF Steady, Still
<1>2. CASE t # s
  <2>1. \E f \in Fds, k \in Tokens : /\ s.owner[f] = 0 /\ s.directory[k] = 0 /\ n \in Sockets
                                     /\ IsStarted(s, t, f, n, k)
    BY <1>2, StartShape, Zenon
  <2> HIDE DEF t
  <2>2. PICK f \in Fds, k \in Tokens : /\ s.owner[f] = 0 /\ s.directory[k] = 0 /\ n \in Sockets
                                       /\ IsStarted(s, t, f, n, k)
    BY <2>1
  <2>3. \A fd \in Fds : s.owner[fd] # 0 => s.owner[fd] \in Sockets /\ s.owner[fd] # n
    <3>1. \A fd \in Fds : s.owner[fd] # 0 => s.owner[fd] \in Sockets
      BY AgreeTypes
    <3>2. \A fd \in Fds : s.owner[fd] # 0 => s.owner[fd] <= s.opened
      BY DEF TablesAgree, OwnersKnown
    <3>3. s.opened \in Nat
      BY AgreeTypes
    <3>4. \A m \in Sockets : m <= s.opened => m # n
      BY <3>3 DEF Sockets
    <3> HIDE DEF n
    <3> QED BY <3>1, <3>2, <3>4
  <2>4. /\ s.manager[f] = 0 /\ s.conns[f] = 0
    BY <2>2, FreeMeansUnused
  <2>5. \A fd \in Fds : (s.manager[fd] # 0 \/ s.conns[fd] # 0) => s.owner[fd] # 0
    BY DEF TablesAgree, HeldOnce
  <2> HIDE DEF n
  <2>6. t.manager = s.manager
    BY <2>2 DEF IsStarted
  <2>7. \A fd \in Fds :
          /\ t.conns[fd] = IF fd = f THEN n ELSE s.conns[fd]
          /\ t.owner[fd] = IF fd = f THEN n ELSE s.owner[fd]
          /\ t.channels[fd] = IF fd = f THEN [kind |-> "task", n |-> n] ELSE s.channels[fd]
    BY <2>2 DEF IsStarted
  <2>8. (\A m \in Sockets : m # n => t.sock[m] = s.sock[m]) /\ t.sock[n].status = "connecting"
    BY <2>2 DEF IsStarted
  <2>9. ASSUME NEW fd \in Fds, s.owner[fd] # 0 PROVE Still(s, t, fd)
    <3>1. fd # f
      BY <2>2, <2>9
    <3>2. /\ t.owner[fd] = s.owner[fd] /\ t.conns[fd] = s.conns[fd]
          /\ t.channels[fd] = s.channels[fd] /\ t.manager[fd] = s.manager[fd]
      BY <2>6, <2>7, <3>1
    <3>3. t.sock[s.owner[fd]] = s.sock[s.owner[fd]]
      BY <2>3, <2>8, <2>9
    <3> QED BY <3>2, <3>3 DEF Still, Status
  <2>10. ASSUME NEW fd \in Fds
         PROVE  /\ t.conns[fd] # 0 => Status(t, fd) \in {"connecting", "connected", "failed"} \cup Over
                /\ t.manager[fd] # 0 => Status(t, fd) \in {"connected"} \cup Over
    <3>1. CASE fd = f
      BY <2>4, <2>6, <2>7, <2>8, <3>1 DEF Status
    <3>2. CASE fd # f /\ s.owner[fd] # 0
      BY <2>9, <3>2 DEF Still, StatusKnown
    <3>3. CASE fd # f /\ s.owner[fd] = 0
      BY <2>5, <2>6, <2>7, <3>3
    <3> QED BY <3>1, <3>2, <3>3
  <2>11. Steady(s, t, {})
    BY <2>9 DEF Steady
  <2>12. StatusKnown(t)
    BY <2>10 DEF StatusKnown
  <2> QED BY <2>11, <2>12 DEF t
<1> QED BY <1>1, <1>2

\* The status of every descriptor that is left is known.
LEMMA StatusStays ==
  ASSUME NEW s, NEW D, NEW R, TablesAgree(s, D, R), NEW t, NEW G, StatusKnown(s), Steady(s, t, G),
         \A fd \in Fds : fd \in G \/ s.owner[fd] = 0 => t.conns[fd] = 0 /\ t.manager[fd] = 0
  PROVE  StatusKnown(t)
<1> SUFFICES ASSUME NEW fd \in Fds
             PROVE  /\ t.conns[fd] # 0 => Status(t, fd) \in {"connecting", "connected", "failed"} \cup Over
                    /\ t.manager[fd] # 0 => Status(t, fd) \in {"connected"} \cup Over
  BY DEF StatusKnown
<1>1. CASE fd \in G \/ s.owner[fd] = 0
  BY <1>1
<1>2. CASE ~(fd \in G \/ s.owner[fd] = 0)
  <2>1. Still(s, t, fd)
    BY <1>2 DEF Steady
  <2> QED BY <2>1 DEF Still, StatusKnown
<1> QED BY <1>1, <1>2

\* The end of tasks and listening sockets
LEMMA DropSteady ==
  ASSUME NEW s, NEW D, NEW R, TablesAgree(s, D, R), NEW F \in SUBSET Fds, NEW L, L \subseteq s.listening,
         \A fd \in F : s.conns[fd] # 0, NEW t, NEW Q, IsDropped(s, t, F, L, Q), StatusKnown(s)
  PROVE  /\ Steady(s, t, F \cup L) /\ StatusKnown(t)
         /\ \A fd \in F \cup L : s.manager[fd] = 0
<1> DEFINE G == F \cup L
<1>1. G \subseteq Fds /\ \A fd \in G : fd \in F \/ fd \in L
  <2>1. s.listening \subseteq Fds
    BY AgreeTypes
  <2> QED BY <2>1
<1>2. \A fd \in G : s.manager[fd] = 0 /\ s.owner[fd] # 0 /\ (fd \notin F => s.conns[fd] = 0)
  BY <1>1 DEF TablesAgree, HeldOnce
<1>3. \A fd \in Fds : s.owner[fd] = 0 => s.conns[fd] = 0 /\ s.manager[fd] = 0
  BY DEF TablesAgree, HeldOnce
<1> HIDE DEF G
<1>4. /\ t.manager = s.manager
      /\ \A fd \in Fds :
           /\ t.conns[fd] = IF fd \in F THEN 0 ELSE s.conns[fd]
           /\ t.channels[fd] = IF fd \in G THEN NoChannel ELSE s.channels[fd]
           /\ t.owner[fd] = IF fd \in G THEN 0 ELSE s.owner[fd]
      /\ \A m \in Sockets : ~(\E fd \in G : s.owner[fd] = m) => t.sock[m].status = s.sock[m].status
  BY DEF IsDropped, G
<1>5. F \subseteq G
  BY DEF G
<1>6. ASSUME NEW fd \in Fds, s.owner[fd] # 0, fd \notin G PROVE Still(s, t, fd)
  <2>1. s.owner[fd] \in Sockets
    BY <1>6, AgreeTypes
  <2>2. ~(\E g \in G : s.owner[g] = s.owner[fd])
    BY <1>1, <1>6, OneOwner
  <2>3. t.sock[s.owner[fd]].status = s.sock[s.owner[fd]].status
    BY <1>4, <2>1, <2>2
  <2>4. /\ t.owner[fd] = s.owner[fd] /\ t.conns[fd] = s.conns[fd]
        /\ t.channels[fd] = s.channels[fd] /\ t.manager[fd] = s.manager[fd]
    BY <1>4, <1>5, <1>6
  <2> QED BY <2>3, <2>4 DEF Still, Status
<1>7. Steady(s, t, G)
  BY <1>6 DEF Steady
<1>8. \A fd \in Fds : fd \in G \/ s.owner[fd] = 0 => t.conns[fd] = 0 /\ t.manager[fd] = 0
  <2> SUFFICES ASSUME NEW fd \in Fds, fd \in G \/ s.owner[fd] = 0
               PROVE  t.conns[fd] = 0 /\ t.manager[fd] = 0
    OBVIOUS
  <2>1. s.manager[fd] = 0 /\ (fd \notin F => s.conns[fd] = 0)
    BY <1>2, <1>3
  <2> QED BY <1>4, <2>1
<1>9. StatusKnown(t)
  BY <1>7, <1>8, StatusStays, Zenon
<1> QED BY <1>2, <1>7, <1>9 DEF G

\* on_accept and startListen
LEMMA JoinSteady ==
  ASSUME NEW s, TablesAgree(s, {}, {}), NEW n \in Sockets, n = s.opened + 1, NEW f \in Fds,
         s.owner[f] = 0, NEW kind \in {"conn", "listen"}, NEW t, IsJoined(s, t, f, n, kind),
         StatusKnown(s)
  PROVE  Steady(s, t, {}) /\ StatusKnown(t)
<1>1. s.manager[f] = 0 /\ s.conns[f] = 0
  BY FreeMeansUnused
<1>2. \A fd \in Fds : s.owner[fd] # 0 => s.owner[fd] \in Sockets /\ s.owner[fd] # n
  <2>1. \A fd \in Fds : s.owner[fd] # 0 => s.owner[fd] \in Sockets
    BY AgreeTypes
  <2>2. \A fd \in Fds : s.owner[fd] # 0 => s.owner[fd] <= s.opened
    BY DEF TablesAgree, OwnersKnown
  <2>3. s.opened \in Nat
    BY AgreeTypes
  <2>4. \A m \in Sockets : m <= s.opened => m # n
    BY <2>3 DEF Sockets
  <2> QED BY <2>1, <2>2, <2>4
<1>3. \A fd \in Fds : s.owner[fd] = 0 => s.conns[fd] = 0 /\ s.manager[fd] = 0
  BY DEF TablesAgree, HeldOnce
<1>4. t.conns = s.conns /\ \A m \in Sockets : m # n => t.sock[m] = s.sock[m]
  BY DEF IsJoined
<1>5. \A fd \in Fds :
        /\ t.owner[fd] = IF fd = f THEN n ELSE s.owner[fd]
        /\ t.manager[fd] = IF fd = f /\ kind = "conn" THEN n ELSE s.manager[fd]
        /\ t.channels[fd] = IF fd = f THEN [kind |-> kind, n |-> n] ELSE s.channels[fd]
  BY DEF IsJoined
<1>6. kind = "conn" => t.sock[n].status = "connected"
  BY DEF IsJoined
<1>7. ASSUME NEW fd \in Fds, s.owner[fd] # 0 PROVE Still(s, t, fd)
  <2>1. fd # f
    BY <1>7
  <2>2. /\ t.owner[fd] = s.owner[fd] /\ t.conns[fd] = s.conns[fd]
        /\ t.channels[fd] = s.channels[fd] /\ t.manager[fd] = s.manager[fd]
    BY <1>4, <1>5, <2>1
  <2>3. t.sock[s.owner[fd]] = s.sock[s.owner[fd]]
    BY <1>2, <1>4, <1>7
  <2> QED BY <2>2, <2>3 DEF Still, Status
<1>8. Steady(s, t, {})
  BY <1>7 DEF Steady
<1>9. ASSUME NEW fd \in Fds
      PROVE  /\ t.conns[fd] # 0 => Status(t, fd) \in {"connecting", "connected", "failed"} \cup Over
             /\ t.manager[fd] # 0 => Status(t, fd) \in {"connected"} \cup Over
  <2>1. CASE fd = f
    BY <1>1, <1>4, <1>5, <1>6, <2>1 DEF Status
  <2>2. CASE fd # f /\ s.owner[fd] # 0
    BY <1>7, <2>2 DEF Still, StatusKnown
  <2>3. CASE fd # f /\ s.owner[fd] = 0
    BY <1>3, <1>4, <1>5, <2>3
  <2> QED BY <2>1, <2>2, <2>3
<1> QED BY <1>8, <1>9 DEF StatusKnown

\* The manager takes a connection over.
LEMMA AdoptSteady ==
  ASSUME NEW s, TablesAgree(s, {}, {}), NEW n \in Sockets, NEW f \in Fds, s.conns[f] = n,
         NEW t, IsAdopted(s, t, f, n), StatusKnown(s), Status(s, f) \in {"connected"} \cup Over
  PROVE  Steady(s, t, {f}) /\ StatusKnown(t) /\ s.manager[f] = 0
<1>1. s.owner[f] = n /\ s.owner[f] # 0 /\ s.manager[f] = 0
  BY ZeroIsNone DEF TablesAgree, TasksKnown, HeldOnce
<1>2. \A fd \in Fds : s.owner[fd] # 0 => s.owner[fd] \in Sockets
  BY AgreeTypes
<1>3. \A fd \in Fds : s.owner[fd] = 0 => s.conns[fd] = 0 /\ s.manager[fd] = 0
  BY DEF TablesAgree, HeldOnce
<1>4. t.owner = s.owner /\ \A m \in Sockets : t.sock[m].status = s.sock[m].status
  BY DEF IsAdopted
<1>5. \A fd \in Fds :
        /\ t.conns[fd] = IF fd = f THEN 0 ELSE s.conns[fd]
        /\ t.manager[fd] = IF fd = f THEN n ELSE s.manager[fd]
        /\ t.channels[fd] = IF fd = f THEN [kind |-> "conn", n |-> n] ELSE s.channels[fd]
  BY DEF IsAdopted
<1>6. \A fd \in Fds : s.owner[fd] # 0 => Status(t, fd) = Status(s, fd)
  BY <1>2, <1>4 DEF Status
<1>7. Steady(s, t, {f})
  BY <1>4, <1>5, <1>6 DEF Steady, Still
<1>8. ASSUME NEW fd \in Fds
      PROVE  /\ t.conns[fd] # 0 => Status(t, fd) \in {"connecting", "connected", "failed"} \cup Over
             /\ t.manager[fd] # 0 => Status(t, fd) \in {"connected"} \cup Over
  <2>1. CASE fd = f
    BY <1>1, <1>5, <1>6, <2>1
  <2>2. CASE fd # f
    BY <1>3, <1>5, <1>6, <2>2 DEF StatusKnown
  <2> QED BY <2>1, <2>2
<1> QED BY <1>1, <1>7, <1>8 DEF StatusKnown

\* The handler is told.
LEMMA ToldSteady ==
  ASSUME NEW s, NEW D, NEW R, TablesAgree(s, D, R), NEW N, NEW r, NEW t, IsTold(s, t, N, r),
         StatusKnown(s)
  PROVE  Steady(s, t, {}) /\ StatusKnown(t)
<1>1. \A fd \in Fds : s.owner[fd] # 0 => s.owner[fd] \in Sockets
  BY AgreeTypes
<1>2. \A fd \in Fds : s.owner[fd] = 0 => s.conns[fd] = 0 /\ s.manager[fd] = 0
  BY DEF TablesAgree, HeldOnce
<1>3. /\ t.owner = s.owner /\ t.conns = s.conns /\ t.manager = s.manager
      /\ t.channels = s.channels /\ \A m \in Sockets : t.sock[m].status = s.sock[m].status
  BY DEF IsTold
<1>4. \A fd \in Fds : s.owner[fd] # 0 => Status(t, fd) = Status(s, fd)
  BY <1>1, <1>3 DEF Status
<1>5. Steady(s, t, {})
  BY <1>3, <1>4 DEF Steady, Still
<1>6. StatusKnown(t)
  BY <1>2, <1>3, <1>4 DEF StatusKnown
<1> QED BY <1>5, <1>6

\* The calls of a handler that cancels nothing
LEMMA HandlerSteady ==
  ASSUME TokensSuffice, NEW s, NEW D, NEW R, TablesAgree(s, D, R), backlog \in Nat,
         NEW by \in {"visit", "io"}, NEW op \in {"none", "connect"}, StatusKnown(s)
  PROVE  Steady(s, Handler(s, op, by), {}) /\ StatusKnown(Handler(s, op, by))
<1>1. CASE op = "connect"
  <2>1. Handler(s, op, by) = ActiveConnect(s, by)
    BY <1>1 DEF Handler
  <2> QED BY <2>1, StartSteady
<1>2. CASE op = "none"
  <2>1. Handler(s, op, by) = s
    BY <1>2 DEF Handler
  <2>2. Steady(s, s, {})
    BY DEF Steady, Still
  <2> QED BY <2>1, <2>2
<1> QED BY <1>1, <1>2

\* The callback of a timer
LEMMA TimedOutSteady ==
  ASSUME TokensSuffice, NEW s, NEW D, TablesAgree(s, D, {}), D \subseteq Sockets,
         NEW n \in D, NEW op \in {"none", "connect"}, backlog \in Nat,
         s.opened + backlog <= MaxSocks, StatusKnown(s)
  PROVE  \E f \in Fds : /\ Steady(s, TimedOut(s, n, op), {f}) /\ s.manager[f] = 0
                        /\ StatusKnown(TimedOut(s, n, op))
<1> DEFINE t == TimedOut(s, n, op)
<1>1. \E f \in Fds : \E a, h : TimesOut(s, t, D, n, f, a, h, op)
  BY TimedOutKeeps, Zenon
<1> HIDE DEF t
<1>f. PICK f \in Fds : \E a, h : TimesOut(s, t, D, n, f, a, h, op)
  BY <1>1
<1>2. PICK a, h : TimesOut(s, t, D, n, f, a, h, op)
  BY <1>f
<1>3. /\ s.conns[f] = n /\ IsTold(s, a, {n}, "fail") /\ TablesAgree(a, D, {n})
      /\ h = Handler(a, op, "visit") /\ TablesAgree(h, D, {n}) /\ h.conns[f] = n
      /\ IsDropped(h, t, {f}, {}, {n})
  BY <1>2 DEF TimesOut
<1>4. n # 0 /\ s.manager[f] = 0
  BY <1>3, ZeroIsNone DEF TablesAgree, HeldOnce
<1>5. Steady(s, a, {}) /\ StatusKnown(a)
  BY <1>3, ToldSteady, Zenon
<1>6. Steady(a, h, {}) /\ StatusKnown(h)
  <2>1. Steady(a, Handler(a, op, "visit"), {}) /\ StatusKnown(Handler(a, op, "visit"))
    BY <1>3, <1>5, HandlerSteady
  <2> QED BY <1>3, <2>1
<1>7. Steady(h, t, {f} \cup {}) /\ StatusKnown(t)
  <2>1. {f} \in SUBSET Fds /\ {} \subseteq h.listening /\ \A fd \in {f} : h.conns[fd] # 0
    BY <1>3, <1>4
  <2> QED BY <1>3, <1>6, <2>1, DropSteady, ZenonT(60)
<1>8. Steady(s, t, {f})
  BY <1>5, <1>6, <1>7 DEF Steady, Still
<1> QED BY <1>4, <1>7, <1>8 DEF t

\* The callbacks of errorEvent and closeEvent
LEMMA FailedSteady ==
  ASSUME TokensSuffice, NEW s, TablesAgree(s, {}, {}), NEW n \in Sockets, NEW f \in Fds,
         s.conns[f] = n, s.sock[n].fd = f, NEW op \in {"none", "connect"}, backlog \in Nat,
         StatusKnown(s)
  PROVE  /\ Steady(s, Failed(s, n, op), {f}) /\ StatusKnown(Failed(s, n, op))
         /\ s.manager[f] = 0
<1> DEFINE t == Noted(CloseFds(ReleaseTask(s, n), {f}), {n}, "fail")
<1>1. Failed(s, n, op) = Handler(t, op, "io")
  BY DEF Failed
<1> HIDE DEF t
<1>2. t = Noted(CloseFds(ReleaseTask(s, n), {f}), {n}, "fail")
  BY DEF t
<1>3. IsDropped(s, t, {f}, {}, {}) /\ TablesAgree(t, {}, {})
  BY <1>2, FailedDrops
<1>4. n # 0 /\ s.manager[f] = 0
  BY ZeroIsNone DEF TablesAgree, HeldOnce
<1>5. Steady(s, t, {f} \cup {}) /\ StatusKnown(t)
  <2>1. {f} \in SUBSET Fds /\ {} \subseteq s.listening /\ \A fd \in {f} : s.conns[fd] # 0
    BY <1>4
  <2> QED BY <1>3, <2>1, DropSteady, Zenon
<1> DEFINE u == Handler(t, op, "io")
<1>6. Steady(t, u, {}) /\ StatusKnown(u)
  BY <1>3, <1>5, HandlerSteady
<1> HIDE DEF u
<1>7. Steady(s, u, {f})
  BY <1>5, <1>6 DEF Steady, Still
<1> QED BY <1>1, <1>4, <1>6, <1>7 DEF u

\* The callback of writeReady for a connect that the network has answered
LEMMA ConnectedSteady ==
  ASSUME TokensSuffice, NEW s, TablesAgree(s, {}, {}), NEW n \in Sockets, NEW f \in Fds,
         s.conns[f] = n, s.sock[n].fd = f, NEW op \in {"none", "connect"}, backlog \in Nat,
         StatusKnown(s), Status(s, f) \in {"connected"} \cup Over
  PROVE  /\ Steady(s, Connected(s, n, op), {f}) /\ StatusKnown(Connected(s, n, op))
         /\ s.manager[f] = 0
<1> DEFINE t == Adopt(Noted(ReleaseTask(s, n), {n}, "ok"), f, n)
<1>1. Connected(s, n, op) = Handler(t, op, "io")
  BY DEF Connected
<1>2. t \in Tables /\ IsAdopted(s, t, f, n)
  BY ConnectedShape, Zenon
<1> HIDE DEF t
<1>3. TablesAgree(t, {}, {})
  BY <1>2, AdoptKeeps, Zenon
<1>4. Steady(s, t, {f}) /\ StatusKnown(t) /\ s.manager[f] = 0
  BY <1>2, AdoptSteady, Zenon
<1> DEFINE u == Handler(t, op, "io")
<1>5. Steady(t, u, {}) /\ StatusKnown(u)
  BY <1>3, <1>4, HandlerSteady
<1> HIDE DEF u
<1>6. Steady(s, u, {f})
  BY <1>4, <1>5 DEF Steady, Still
<1> QED BY <1>1, <1>4, <1>5, <1>6 DEF u

-----------------------------------------------------------------------------
(* KeepInv is inductive *)

\* A step that leaves the connections of the manager alone keeps the invariant
\* and removes none of them.
LEMMA SteadyStep ==
  ASSUME TcpInv, TcpInv', KeepInv, NEW G, Steady(state, state', G),
         \A fd \in G : state.manager[fd] = 0, StatusKnown(state'),
         calls' = calls, removals' = removals, batch' \subseteq batch,
         \A e \in batch' : e.fd \notin G, phase' # "io" => batch' = {}
  PROVE  KeepInv' /\ Range(state.manager) \ {0} \subseteq Range(state'.manager)
<1>1. TablesAgree(state, due, {}) /\ TablesAgree(state', due', {})
  BY DEF TcpInv
<1>2. \A fd \in Fds : state.manager[fd] # 0 =>
        /\ state.owner[fd] = state.manager[fd]
        /\ Still(state, state', fd)
  BY <1>1 DEF TablesAgree, HeldOnce, Steady
<1>3. /\ removals \in Seq(Fds)
      /\ \A fd \in Range(removals) : /\ state.manager[fd] # 0 /\ Status(state, fd) \in Over
                                     /\ state.channels[fd] = NoChannel /\ fd \in Fds
  <2>1. removals \in Seq(Fds)
    BY DEF KeepInv, RemovalsKnown
  <2>2. \A fd \in Range(removals) : fd \in Fds
    BY <2>1 DEF Range
  <2> QED BY <2>1, <2>2 DEF KeepInv, RemovalsKnown
<1>4. RemovalsKnown'
  <2>1. ASSUME NEW fd \in Range(removals)
        PROVE  /\ state'.manager[fd] # 0 /\ Status(state', fd) \in Over
               /\ state'.channels[fd] = NoChannel
    BY <1>2, <1>3 DEF Still
  <2> QED BY <1>3, <2>1 DEF RemovalsKnown
<1>5. CallsKnown'
  <2>1. calls \in [Sockets -> Seq({"recv", "close"})]
    BY DEF KeepInv, CallsKnown
  <2>2. ASSUME NEW n \in Sockets, calls[n] # <<>>
        PROVE  /\ state'.sock[n].fd \in Fds
               /\ state'.channels[state'.sock[n].fd] = [kind |-> "conn", n |-> n]
               /\ state'.sock[n].status \in Over
    <3> DEFINE f == state.sock[n].fd
    <3>1. /\ f \in Fds /\ state.channels[f] = [kind |-> "conn", n |-> n]
          /\ state.sock[n].status \in Over
      BY <2>2 DEF KeepInv, CallsKnown
    <3> HIDE DEF f
    <3>2. state.channels[f] # NoChannel /\ state.channels[f].kind = "conn" /\ state.channels[f].n = n
      BY <3>1 DEF NoChannel
    <3>3. state.owner[f] = n /\ state.manager[f] = n /\ n # 0
      BY <1>1, <3>1, <3>2, ZeroIsNone DEF TablesAgree, ChannelsKnown
    <3>4. /\ state'.owner[f] = n /\ state'.channels[f] = [kind |-> "conn", n |-> n]
          /\ Status(state', f) = Status(state, f)
      BY <1>2, <3>1, <3>3 DEF Still
    <3>5. state'.sock[n].fd = f
      BY <1>1, <3>1, <3>3, <3>4 DEF TablesAgree, OwnersKnown
    <3>6. state'.sock[n].status = state.sock[n].status
      BY <3>3, <3>4 DEF Status
    <3> QED BY <3>1, <3>4, <3>5, <3>6
  <2> QED BY <2>1, <2>2 DEF CallsKnown
<1>6. BatchKnown'
  <2>1. /\ \A e1, e2 \in batch : e1.fd = e2.fd => e1 = e2
        /\ \A e \in batch :
             /\ state.owner[e.fd] # 0
             /\ state.channels[e.fd].kind = "conn" => Status(state, e.fd) \in Over
             /\ (state.channels[e.fd].kind = "task" /\ ~Hangup(e.ev)) =>
                  Status(state, e.fd) \in {"connected"} \cup Over
    BY DEF KeepInv, BatchKnown
  <2>2. \A e \in batch : e.fd \in Fds
    BY DEF TcpInv
  <2>3. ASSUME NEW e \in batch'
        PROVE  /\ state'.owner[e.fd] # 0
               /\ state'.channels[e.fd].kind = "conn" => Status(state', e.fd) \in Over
               /\ (state'.channels[e.fd].kind = "task" /\ ~Hangup(e.ev)) =>
                    Status(state', e.fd) \in {"connected"} \cup Over
    <3>1. e \in batch /\ e.fd \in Fds /\ e.fd \notin G /\ state.owner[e.fd] # 0
      BY <2>1, <2>2
    <3>2. Still(state, state', e.fd)
      BY <3>1 DEF Steady
    <3> QED BY <2>1, <3>1, <3>2 DEF Still
  <2>4. \A e1, e2 \in batch' : e1.fd = e2.fd => e1 = e2
    BY <2>1
  <2> QED BY <2>3, <2>4 DEF BatchKnown, Hangup
<1>7. Range(state.manager) \ {0} \subseteq Range(state'.manager)
  <2>1. /\ state.manager \in [Fds -> 0 .. MaxSocks] /\ state'.manager \in [Fds -> 0 .. MaxSocks]
    BY <1>1, AgreeTypes
  <2>2. \A fd \in Fds : state.manager[fd] # 0 => state'.manager[fd] = state.manager[fd]
    BY <1>2 DEF Still
  <2> QED BY <2>1, <2>2 DEF Range
<1>8. StatusKnown(state)'
  BY DEF StatusKnown, Status
<1> QED BY <1>4, <1>5, <1>6, <1>7, <1>8 DEF KeepInv

\* Nothing is reported, and nothing is dropped, while the server starts.
LEMMA KeepInit == Init => KeepInv
<1> SUFFICES ASSUME Init PROVE KeepInv
  OBVIOUS
<1>1. /\ state.conns = [fd \in Fds |-> 0] /\ state.manager = [fd \in Fds |-> 0]
  BY DEF Init
<1>2. removals = <<>> /\ batch = {} /\ calls = [n \in Sockets |-> <<>>]
  BY DEF Init, Sockets
<1>3. StatusKnown(state)
  BY <1>1 DEF StatusKnown
<1>4. RemovalsKnown
  <2>1. removals \in Seq(Fds) /\ Range(removals) = {}
    BY <1>2 DEF Range
  <2> QED BY <2>1 DEF RemovalsKnown
<1>5. CallsKnown
  BY <1>2 DEF CallsKnown
<1>6. BatchKnown
  BY <1>2 DEF BatchKnown
<1> QED BY <1>3, <1>4, <1>5, <1>6 DEF KeepInv

\* What ConnectionsKept says of a step
DropsEnded ==
  \A n \in Range(state.manager) \ (Range(state'.manager) \cup {0}) :
    state.sock[n].status \in {"eof", "reset"}

\* Steps between two rounds that leave the connections alone
LEMMA CalmStep ==
  ASSUME TcpInv, TcpInv', KeepInv, NEW G, Steady(state, state', G),
         \A fd \in G : state.manager[fd] = 0, StatusKnown(state'),
         calls' = calls, removals' = removals, batch' = batch, phase # "io"
  PROVE  KeepInv' /\ DropsEnded
<1>1. batch = {}
  BY DEF KeepInv, BatchKnown
<1>2. batch' \subseteq batch /\ (\A e \in batch' : e.fd \notin G) /\ (phase' # "io" => batch' = {})
  BY <1>1
<1>3. KeepInv' /\ Range(state.manager) \ {0} \subseteq Range(state'.manager)
  BY <1>2, SteadyStep
<1> QED BY <1>3 DEF DropsEnded

\* Steps that do not change the tables
LEMMA SameStep ==
  ASSUME TcpInv, TcpInv', KeepInv, state' = state, calls' = calls, removals' = removals,
         batch' \subseteq batch, phase' # "io" => batch' = {}
  PROVE  KeepInv' /\ DropsEnded
<1>1. Steady(state, state', {}) /\ StatusKnown(state')
  BY DEF Steady, Still, KeepInv
<1>2. (\A fd \in {} : state.manager[fd] = 0) /\ (\A e \in batch' : e.fd \notin {})
  OBVIOUS
<1>3. KeepInv' /\ Range(state.manager) \ {0} \subseteq Range(state'.manager)
  BY <1>1, <1>2, SteadyStep
<1> QED BY <1>3 DEF DropsEnded

\* connect
LEMMA ConnectKept ==
  ASSUME TcpInv, TcpInv', KeepInv, TokensSuffice, CallConnect
  PROVE  KeepInv' /\ DropsEnded
<1> DEFINE t == ActiveConnect(state, "visit")
<1>1. /\ phase = "events" /\ state' = t /\ calls' = calls /\ removals' = removals
      /\ batch' = batch
  BY DEF CallConnect, Call
<1>2. TablesAgree(state, {}, {}) /\ backlog \in Nat /\ StatusKnown(state)
  BY <1>1, Quiet DEF TcpInv, KeepInv
<1>3. Steady(state, t, {}) /\ StatusKnown(t)
  BY <1>2, StartSteady
<1> HIDE DEF t
<1>4. \A fd \in {} : state.manager[fd] = 0
  OBVIOUS
<1> QED BY <1>1, <1>3, <1>4, CalmStep

\* cancelActiveConnecttion and stopAll
LEMMA EndKept ==
  ASSUME TcpInv, TcpInv', KeepInv, NEW t, Call(t), NEW F \in SUBSET Fds, NEW L,
         L \subseteq state.listening, \A fd \in F : state.conns[fd] # 0,
         IsDropped(state, t, F, L, {})
  PROVE  KeepInv' /\ DropsEnded
<1>1. /\ phase = "events" /\ state' = t /\ calls' = calls /\ removals' = removals
      /\ batch' = batch
  BY DEF Call
<1>2. TablesAgree(state, {}, {}) /\ StatusKnown(state)
  BY <1>1, Quiet DEF KeepInv
<1> DEFINE G == F \cup L
<1>3. Steady(state, t, G) /\ StatusKnown(t) /\ \A fd \in G : state.manager[fd] = 0
  BY <1>2, DropSteady, Zenon
<1> HIDE DEF G
<1> QED BY <1>1, <1>3, CalmStep

\* cancelActiveConnecttion
LEMMA CancelKept ==
  ASSUME TcpInv, TcpInv', KeepInv, NEW token \in Tokens, CallCancel(token)
  PROVE  KeepInv' /\ DropsEnded
<1> DEFINE t == Cancel(state, {token})
<1>1. phase = "events" /\ Call(t)
  BY DEF CallCancel, Call
<1>2. TablesAgree(state, {}, {}) /\ {token} \subseteq Tokens
  BY <1>1, Quiet
<1>3. \E F \in SUBSET Fds : (\A fd \in F : state.conns[fd] # 0) /\ IsDropped(state, t, F, {}, {})
  BY <1>2, CancelShape
<1> HIDE DEF t
<1>4. PICK F \in SUBSET Fds : (\A fd \in F : state.conns[fd] # 0) /\ IsDropped(state, t, F, {}, {})
  BY <1>3
<1>5. {} \subseteq state.listening
  OBVIOUS
<1> QED BY <1>1, <1>4, <1>5, EndKept, Zenon

\* stopAll
LEMMA StopKept ==
  ASSUME TcpInv, TcpInv', KeepInv, GentleHandler, CallStopAll
  PROVE  KeepInv' /\ DropsEnded
<1>1. PICK op \in CancelOps : Call(StopAll(state, op))
  BY DEF CallStopAll
<1> DEFINE t == StopAll(state, op)
           F == Keys(state.conns)
<1>2. phase = "events" /\ op \in {"none", "cancelAll"}
  BY <1>1 DEF Call, GentleHandler
<1>3. TablesAgree(state, {}, {})
  BY <1>2, Quiet
<1>4. IsDropped(state, t, F, state.listening, {}) /\ Call(t)
  BY <1>1, <1>2, <1>3, StopShape, Zenon
<1> HIDE DEF t
<1>5. F \in SUBSET Fds /\ \A fd \in F : state.conns[fd] # 0
  <2>1. state.conns \in [Fds -> 0 .. MaxSocks]
    BY <1>3, AgreeTypes
  <2> QED BY <2>1 DEF Keys
<1> HIDE DEF F
<1>6. state.listening \subseteq state.listening
  OBVIOUS
<1> QED BY <1>4, <1>5, <1>6, EndKept, Zenon

\* startListen
LEMMA ListenKept ==
  ASSUME TcpInv, TcpInv', KeepInv, CallStartListen
  PROVE  KeepInv' /\ DropsEnded
<1> DEFINE o == Opened(state, "listen", 0, "visit")
           g == o.sock[o.opened].fd
           t == [UpdateChannel(o, g, "listen", o.opened) EXCEPT !.listening = {g}]
<1>1. /\ state.listening = {} /\ FreeFds(state) # {} /\ MayOpen(state) /\ state' = t
      /\ phase = "events" /\ calls' = calls /\ removals' = removals /\ batch' = batch
  BY DEF CallStartListen, Call
<1> HIDE DEF o
<1>2. /\ TablesAgree(state, {}, {}) /\ backlog \in Nat /\ state.opened \in Nat
      /\ MaxSocks \in Nat /\ state.opened + backlog < MaxSocks /\ StatusKnown(state)
  BY <1>1, Quiet, AgreeTypes, TcpAssumption DEF TcpInv, MayOpen, KeepInv
<1>3. state.opened < MaxSocks
  BY <1>2
<1>4. /\ state.opened + 1 \in Sockets
      /\ \E f \in Fds : state.owner[f] = 0 /\ IsJoined(state, t, f, state.opened + 1, "listen")
  <2> HIDE DEF g, t
  <2>1. o = Opened(state, "listen", 0, "visit")
    BY DEF o
  <2>2. g = o.sock[o.opened].fd
    BY DEF g
  <2>3. t = [UpdateChannel(o, g, "listen", o.opened) EXCEPT !.listening = {g}]
    BY DEF t
  <2> QED BY <1>1, <1>2, <1>3, <2>1, <2>2, <2>3, ListenShape
<1> HIDE DEF g, t
<1> DEFINE n == state.opened + 1
<1>5. n \in Sockets /\ n = state.opened + 1
  BY <1>4
<1>6. \E f \in Fds : state.owner[f] = 0 /\ IsJoined(state, t, f, n, "listen")
  BY <1>4
<1> HIDE DEF n
<1>7. Steady(state, t, {}) /\ StatusKnown(t)
  <2>1. "listen" \in {"conn", "listen"}
    OBVIOUS
  <2> QED BY <1>2, <1>5, <1>6, <2>1, JoinSteady
<1>8. \A fd \in {} : state.manager[fd] = 0
  OBVIOUS
<1> QED BY <1>1, <1>7, <1>8, CalmStep

\* Steps that change the timers only
LEMMA TimerKept ==
  ASSUME TcpInv, TcpInv', KeepInv, HandleTimers \/ \E n \in Socks : Expire(n)
  PROVE  KeepInv' /\ DropsEnded
<1>1. /\ phase = "events" /\ calls' = calls /\ removals' = removals /\ batch' = batch
  BY DEF HandleTimers, Expire, loopVars
<1>2. state \in Tables /\ StatusKnown(state)
  BY DEF TcpInv, TablesAgree, KeepInv
<1>3. /\ state'.owner = state.owner /\ state'.conns = state.conns
      /\ state'.manager = state.manager /\ state'.channels = state.channels
      /\ state'.sock = state.sock
  <2>1. CASE HandleTimers
    <3>1. IsReleased(state, state', state.expired)
      BY <1>2, <2>1, TimersShape DEF HandleTimers
    <3> QED BY <3>1 DEF IsReleased
  <2>2. ASSUME NEW n, Expire(n)
        PROVE  /\ state'.owner = state.owner /\ state'.conns = state.conns
               /\ state'.manager = state.manager /\ state'.channels = state.channels
               /\ state'.sock = state.sock
    BY <1>2, <2>2 DEF Expire, Tables
  <2> QED BY <2>1, <2>2
<1>4. Steady(state, state', {}) /\ StatusKnown(state')
  BY <1>2, <1>3 DEF Steady, Still, StatusKnown, Status
<1>5. \A fd \in {} : state.manager[fd] = 0
  OBVIOUS
<1> QED BY <1>1, <1>4, <1>5, CalmStep

\* The callback of a timer
LEMMA TimeoutKept ==
  ASSUME TcpInv, TcpInv', KeepInv, TokensSuffice, GentleHandler, NEW n, TimerCallback(n)
  PROVE  KeepInv' /\ DropsEnded
<1>1. PICK op \in TimeoutOps : state' = TimedOut(state, n, op)
  BY DEF TimerCallback
<1>2. /\ phase = "timers" /\ n \in due /\ op \in {"none", "connect"}
      /\ calls' = calls /\ removals' = removals /\ batch' = batch
  BY <1>1 DEF TimerCallback, GentleHandler
<1>3. /\ TablesAgree(state, due, {}) /\ due \subseteq Sockets /\ backlog \in Nat
      /\ state.opened + backlog <= MaxSocks /\ StatusKnown(state)
  BY DEF TcpInv, KeepInv
<1> DEFINE t == TimedOut(state, n, op)
<1>4. \E f \in Fds : Steady(state, t, {f}) /\ state.manager[f] = 0 /\ StatusKnown(t)
  BY <1>2, <1>3, TimedOutSteady, Zenon
<1> HIDE DEF t
<1>5. PICK f \in Fds : Steady(state, t, {f}) /\ state.manager[f] = 0 /\ StatusKnown(t)
  BY <1>4
<1>6. state' = t /\ \A fd \in {f} : state.manager[fd] = 0
  BY <1>1, <1>5 DEF t
<1> QED BY <1>2, <1>5, <1>6, CalmStep

\* A TcpConnection handles its events: as its peer has closed, the channel goes
\* and the manager is asked to remove it, once for each event.
LEMMA VisitKept ==
  ASSUME TcpInv, TcpInv', KeepInv, NEW n \in Socks, VisitConnection(n)
  PROVE  KeepInv' /\ DropsEnded
<1> DEFINE f == state.sock[n].fd
           t == RemoveChannels(state, {f})
           more == [i \in 1 .. Len(calls[n]) |-> f]
<1>1. phase = "events" /\ phase' = phase /\ batch' = batch /\ calls[n] # <<>>
  BY DEF VisitConnection, loopVars
<1>2. TablesAgree(state, {}, {}) /\ batch = {}
  BY <1>1, Quiet DEF KeepInv, BatchKnown
<1>3. state \in Tables /\ Polled(state) /\ n \in Sockets /\ n # 0
  <2>1. state \in Tables /\ Polled(state) /\ state.opened \in 0 .. MaxSocks
    BY <1>2, AgreeTypes
  <2>2. MaxSocks \in Nat
    BY TcpAssumption
  <2> QED BY <2>1, <2>2 DEF Socks, Sockets
<1>4. calls \in [Sockets -> Seq({"recv", "close"})] /\ removals \in Seq(Fds)
  BY DEF KeepInv, CallsKnown, RemovalsKnown
<1>5. /\ f \in Fds /\ state.channels[f] = [kind |-> "conn", n |-> n]
      /\ state.sock[n].status \in Over
  BY <1>1, <1>3 DEF KeepInv, CallsKnown
<1>6. state.owner[f] = n /\ state.manager[f] = n
  <2>1. state.channels[f] # NoChannel /\ state.channels[f].kind = "conn" /\ state.channels[f].n = n
    BY <1>5 DEF NoChannel
  <2>2. f \in Fds
    BY <1>5
  <2> HIDE DEF f
  <2> QED BY <1>2, <2>1, <2>2 DEF TablesAgree, ChannelsKnown
<1>7. Closing(n) = calls[n]
  BY <1>5 DEF Closing, Over
<1>8. /\ state' = t /\ removals' = removals \o more /\ calls' = [calls EXCEPT ![n] = <<>>]
  BY <1>1, <1>7 DEF VisitConnection
<1> HIDE DEF f
<1>9. IsRemoved(state, t, {f})
  BY <1>3, RemoveShape, Zenon
<1> HIDE DEF t
<1>10. /\ state'.owner = state.owner /\ state'.sock = state.sock /\ state'.conns = state.conns
       /\ state'.manager = state.manager
       /\ \A fd \in Fds : state'.channels[fd] = IF fd = f THEN NoChannel ELSE state.channels[fd]
  BY <1>8, <1>9 DEF IsRemoved
<1>11. StatusKnown(state)'
  BY <1>10 DEF KeepInv, StatusKnown, Status
<1>12. RemovalsKnown'
  <2>1. more \in Seq(Fds) /\ \A fd \in Range(more) : fd = f
    <3>1. Len(calls[n]) \in Nat
      BY <1>3, <1>4
    <3> QED BY <1>5, <3>1 DEF Range
  <2> HIDE DEF more
  <2>2. removals' \in Seq(Fds) /\ Range(removals') \subseteq Range(removals) \cup Range(more)
    BY <1>4, <1>8, <2>1 DEF Range
  <2>3. ASSUME NEW fd \in Range(removals')
        PROVE  /\ state'.manager[fd] # 0 /\ Status(state', fd) \in Over
               /\ state'.channels[fd] = NoChannel
    <3>1. CASE fd = f
      BY <1>3, <1>5, <1>6, <1>10, <3>1 DEF Status, f
    <3>2. CASE fd # f
      <4>1. fd \in Range(removals)
        BY <2>1, <2>2, <3>2
      <4>2. fd \in Fds
        BY <1>4, <4>1 DEF Range
      <4>3. /\ state.manager[fd] # 0 /\ Status(state, fd) \in Over /\ state.channels[fd] = NoChannel
        BY <4>1 DEF KeepInv, RemovalsKnown
      <4> QED BY <1>10, <4>2, <4>3 DEF Status
    <3> QED BY <3>1, <3>2
  <2> QED BY <2>2, <2>3 DEF RemovalsKnown
<1>13. CallsKnown'
  <2>1. calls' \in [Sockets -> Seq({"recv", "close"})] /\ calls'[n] = <<>>
        /\ \A m \in Sockets : m # n => calls'[m] = calls[m]
    <3>1. <<>> \in Seq({"recv", "close"})
      OBVIOUS
    <3> QED BY <1>3, <1>4, <1>8, <3>1
  <2>2. ASSUME NEW m \in Sockets, calls'[m] # <<>>
        PROVE  /\ state'.sock[m].fd \in Fds
               /\ state'.channels[state'.sock[m].fd] = [kind |-> "conn", n |-> m]
               /\ state'.sock[m].status \in Over
    <3>1. m # n /\ calls[m] # <<>>
      BY <2>1, <2>2
    <3>2. /\ state.sock[m].fd \in Fds
          /\ state.channels[state.sock[m].fd] = [kind |-> "conn", n |-> m]
          /\ state.sock[m].status \in Over
      BY <3>1 DEF KeepInv, CallsKnown
    <3>3. state.sock[m].fd # f
      <4>1. [kind |-> "conn", n |-> m] # [kind |-> "conn", n |-> n]
        BY <3>1
      <4> QED BY <1>5, <3>2, <4>1 DEF f
    <3> QED BY <1>10, <3>2, <3>3
  <2> QED BY <2>1, <2>2 DEF CallsKnown
<1>14. BatchKnown'
  BY <1>1, <1>2 DEF BatchKnown
<1>15. DropsEnded
  BY <1>10 DEF DropsEnded
<1> QED BY <1>11, <1>12, <1>13, <1>14, <1>15 DEF KeepInv

\* The manager removes connections: those that are over.
LEMMA ManagerKept ==
  ASSUME TcpInv, TcpInv', KeepInv, VisitManager
  PROVE  KeepInv' /\ DropsEnded
<1> DEFINE F == Range(removals)
           t == RemoveConnections(state, F)
           G == F \cap Keys(state.manager)
<1>1. /\ phase = "events" /\ phase' = phase /\ batch' = batch /\ calls' = calls
      /\ state' = t /\ removals' = <<>>
  BY DEF VisitManager, loopVars
<1>2. TablesAgree(state, {}, {}) /\ batch = {}
  BY <1>1, Quiet DEF KeepInv, BatchKnown
<1>3. IsUnheld(state, t, G) /\ G \subseteq Fds
  BY <1>2, UnheldShape, Zenon
<1>4. \A fd \in G : /\ state.manager[fd] # 0 /\ Status(state, fd) \in Over
                    /\ state.channels[fd] = NoChannel
  BY DEF KeepInv, RemovalsKnown
<1> HIDE DEF t, G
<1>5. \A fd \in Fds :
        /\ state'.owner[fd] = IF fd \in G THEN 0 ELSE state.owner[fd]
        /\ state'.manager[fd] = IF fd \in G THEN 0 ELSE state.manager[fd]
        /\ state'.channels[fd] = IF fd \in G THEN NoChannel ELSE state.channels[fd]
  BY <1>1, <1>3 DEF IsUnheld
<1>6. /\ state'.conns = state.conns
      /\ \A m \in Sockets : ~(\E fd \in G : state.owner[fd] = m) => state'.sock[m] = state.sock[m]
  BY <1>1, <1>3 DEF IsUnheld
<1>7. \A fd \in Fds :
        /\ state.manager[fd] # 0 => /\ state.owner[fd] = state.manager[fd]
                                    /\ state.conns[fd] = 0
        /\ state.owner[fd] = 0 => state.conns[fd] = 0 /\ state.manager[fd] = 0
  BY <1>2 DEF TablesAgree, HeldOnce
<1>8. ASSUME NEW fd \in Fds, fd \notin G, state.owner[fd] # 0
      PROVE  /\ state'.owner[fd] = state.owner[fd]
             /\ state'.sock[state.owner[fd]] = state.sock[state.owner[fd]]
             /\ Status(state', fd) = Status(state, fd)
  <2>1. state.owner[fd] \in Sockets
    BY <1>2, <1>8, AgreeTypes
  <2>2. ~(\E g \in G : state.owner[g] = state.owner[fd])
    BY <1>2, <1>3, <1>8, OneOwner
  <2>3. state'.sock[state.owner[fd]] = state.sock[state.owner[fd]]
    BY <1>6, <2>1, <2>2
  <2>4. state'.owner[fd] = state.owner[fd]
    BY <1>5, <1>8
  <2> QED BY <2>3, <2>4 DEF Status
<1>9. StatusKnown(state)'
  <2> SUFFICES ASSUME NEW fd \in Fds
               PROVE  /\ state'.conns[fd] # 0 =>
                           Status(state', fd) \in {"connecting", "connected", "failed"} \cup Over
                      /\ state'.manager[fd] # 0 => Status(state', fd) \in {"connected"} \cup Over
    BY DEF StatusKnown, Status
  <2>1. CASE fd \in G
    BY <1>4, <1>5, <1>6, <1>7, <2>1
  <2>2. CASE fd \notin G /\ state.owner[fd] # 0
    BY <1>5, <1>6, <1>8, <2>2 DEF KeepInv, StatusKnown
  <2>3. CASE fd \notin G /\ state.owner[fd] = 0
    BY <1>5, <1>6, <1>7, <2>3
  <2> QED BY <2>1, <2>2, <2>3
<1>10. RemovalsKnown'
  <2>1. removals' \in Seq(Fds) /\ Range(removals') = {}
    BY <1>1 DEF Range
  <2> QED BY <2>1 DEF RemovalsKnown
<1>11. CallsKnown'
  <2>1. calls \in [Sockets -> Seq({"recv", "close"})]
    BY DEF KeepInv, CallsKnown
  <2>2. ASSUME NEW n \in Sockets, calls[n] # <<>>
        PROVE  /\ state'.sock[n].fd \in Fds
               /\ state'.channels[state'.sock[n].fd] = [kind |-> "conn", n |-> n]
               /\ state'.sock[n].status \in Over
    <3> DEFINE f == state.sock[n].fd
    <3>1. /\ f \in Fds /\ state.channels[f] = [kind |-> "conn", n |-> n]
          /\ state.sock[n].status \in Over
      BY <2>2 DEF KeepInv, CallsKnown
    <3>2. state.sock[n].fd = f
      OBVIOUS
    <3> HIDE DEF f
    <3>3. state.channels[f] # NoChannel /\ state.channels[f].kind = "conn" /\ state.channels[f].n = n
      BY <3>1 DEF NoChannel
    <3>4. state.owner[f] = n /\ n # 0
      BY <1>2, <3>1, <3>3, ZeroIsNone DEF TablesAgree, ChannelsKnown
    <3>5. f \notin G
      BY <1>4, <3>3
    <3>6. state'.sock[n] = state.sock[n] /\ state'.channels[f] = state.channels[f]
      BY <1>5, <1>8, <3>1, <3>4, <3>5
    <3> QED BY <3>1, <3>2, <3>6
  <2> QED BY <1>1, <2>1, <2>2 DEF CallsKnown
<1>12. BatchKnown'
  BY <1>1, <1>2 DEF BatchKnown
<1>13. DropsEnded
  <2> SUFFICES ASSUME NEW n \in Range(state.manager), n \notin Range(state'.manager), n # 0
               PROVE  state.sock[n].status \in Over
    BY DEF DropsEnded, Over
  <2>1. /\ state.manager \in [Fds -> 0 .. MaxSocks] /\ state'.manager \in [Fds -> 0 .. MaxSocks]
    <3>1. TablesAgree(state', due', {})
      BY DEF TcpInv
    <3> QED BY <1>2, <3>1, AgreeTypes
  <2>2. PICK fd \in Fds : state.manager[fd] = n
    BY <2>1 DEF Range
  <2>3. fd \in G
    BY <1>5, <2>1, <2>2 DEF Range
  <2>4. state.owner[fd] = n
    BY <1>7, <2>2
  <2> QED BY <1>4, <2>3, <2>4 DEF Status
<1> QED BY <1>9, <1>10, <1>11, <1>12, <1>13 DEF KeepInv

\* epoll_wait
LEMMA PollKept ==
  ASSUME TcpInv, TcpInv', KeepInv, Poll
  PROVE  KeepInv' /\ DropsEnded
<1>1. /\ phase = "events" /\ phase' = "io" /\ state' = state /\ calls' = calls
      /\ removals' = removals /\ backlog' = backlog
      /\ batch' = {e \in [fd : Fds, ev : {"in", "out", "hup", "inhup"}] :
                     state.interest[e.fd] # "none" /\ e.ev \in ReadyEvents(e.fd)}
  BY DEF Poll
<1>2. TablesAgree(state, {}, {})
  BY <1>1, Quiet
<1>3. \A fd : \A x, y \in ReadyEvents(fd) : x = y
  BY DEF ReadyEvents
<1>4. ASSUME NEW e1 \in batch', NEW e2 \in batch', e1.fd = e2.fd PROVE e1 = e2
  <2>1. /\ e1 \in [fd : Fds, ev : {"in", "out", "hup", "inhup"}]
        /\ e2 \in [fd : Fds, ev : {"in", "out", "hup", "inhup"}]
        /\ e1.ev \in ReadyEvents(e1.fd) /\ e2.ev \in ReadyEvents(e2.fd)
    BY <1>1
  <2>2. e1.ev = e2.ev
    BY <1>3, <1>4, <2>1
  <2> QED BY <1>4, <2>1, <2>2
<1>5. ASSUME NEW e \in batch'
      PROVE  /\ state.owner[e.fd] # 0
             /\ state.channels[e.fd].kind = "conn" => Status(state, e.fd) \in Over
             /\ (state.channels[e.fd].kind = "task" /\ ~Hangup(e.ev)) =>
                  Status(state, e.fd) \in {"connected"} \cup Over
  <2>1. e.fd \in Fds /\ state.interest[e.fd] # "none" /\ e.ev \in ReadyEvents(e.fd)
    BY <1>1
  <2> DEFINE f == e.fd
             status == Status(state, f)
             kind == state.interest[f]
  <2>2. /\ state.channels[f] # NoChannel /\ state.owner[f] # 0
        /\ kind = state.channels[f].kind
        /\ kind = "task" => state.conns[f] = state.owner[f]
        /\ kind = "conn" => state.manager[f] = state.owner[f]
    BY <1>2, <2>1 DEF TablesAgree, ChannelsKnown
  <2>3. /\ kind = "task" => status \in {"connecting", "connected", "failed"} \cup Over
        /\ kind = "conn" => status \in {"connected"} \cup Over
    BY <2>1, <2>2 DEF KeepInv, StatusKnown
  <2>4. ReadyEvents(f) =
          IF kind = "listen" THEN IF backlog > 0 THEN {"in"} ELSE {}
          ELSE IF status = "failed" THEN {"hup"}
          ELSE IF kind = "task" THEN IF status = "connecting" THEN {}
                                     ELSE IF status = "reset" THEN {"hup"} ELSE {"out"}
          ELSE IF status = "eof" THEN {"in"} ELSE IF status = "reset" THEN {"inhup"} ELSE {}
    BY DEF ReadyEvents, Status
  <2> HIDE DEF status, kind
  <2>5. kind = "conn" => status \in Over
    BY <2>1, <2>3, <2>4 DEF Over
  <2>6. kind = "task" /\ ~Hangup(e.ev) => status \in {"connected"} \cup Over
    BY <2>1, <2>3, <2>4 DEF Over, Hangup
  <2> QED BY <2>2, <2>5, <2>6 DEF status
<1>6. BatchKnown'
  BY <1>1, <1>4, <1>5 DEF BatchKnown, Status, Hangup
<1>7. StatusKnown(state)' /\ RemovalsKnown' /\ CallsKnown'
  BY <1>1 DEF KeepInv, StatusKnown, Status, RemovalsKnown, CallsKnown
<1>8. DropsEnded
  BY <1>1 DEF DropsEnded
<1> QED BY <1>6, <1>7, <1>8 DEF KeepInv

\* on_accept
LEMMA AcceptKept ==
  ASSUME TcpInv, TcpInv', KeepInv, phase = "io", Accept, phase' = phase, calls' = calls,
         removals' = removals, batch' \subseteq batch
  PROVE  KeepInv' /\ DropsEnded
<1>1. /\ TablesAgree(state, {}, {}) /\ backlog \in Nat /\ state.opened \in Nat
      /\ state.opened + backlog <= MaxSocks /\ MaxSocks \in Nat /\ StatusKnown(state)
  BY Quiet, AgreeTypes, TcpAssumption DEF TcpInv, KeepInv
<1>2. CASE backlog = 0 \/ FreeFds(state) = {}
  <2>1. state' = state
    BY <1>2 DEF Accept
  <2> QED BY <2>1, SameStep
<1>3. CASE backlog # 0 /\ FreeFds(state) # {}
  <2> DEFINE o == Opened(state, "connected", 0, "io")
             t == Adopt(o, o.sock[o.opened].fd, o.opened)
             n == state.opened + 1
  <2>1. state' = t
    BY <1>3 DEF Accept
  <2>2. state.opened < MaxSocks
    BY <1>1, <1>3
  <2> HIDE DEF o
  <2>3. o = Opened(state, "connected", 0, "io")
    BY DEF o
  <2> HIDE DEF t
  <2>4. t = Adopt(o, o.sock[o.opened].fd, o.opened)
    BY DEF t
  <2>5. /\ n \in Sockets /\ n = state.opened + 1
        /\ \E f \in Fds : state.owner[f] = 0 /\ IsJoined(state, t, f, n, "conn")
    BY <1>1, <1>3, <2>2, <2>3, <2>4, AcceptShape
  <2> HIDE DEF n
  <2>6. Steady(state, t, {}) /\ StatusKnown(t)
    <3>1. "conn" \in {"conn", "listen"}
      OBVIOUS
    <3> QED BY <1>1, <2>5, <3>1, JoinSteady
  <2>7. /\ \A fd \in {} : state.manager[fd] = 0
        /\ \A e \in batch' : e.fd \notin {}
        /\ phase' # "io" => batch' = {}
    OBVIOUS
  <2>8. KeepInv' /\ Range(state.manager) \ {0} \subseteq Range(state'.manager)
    BY <2>1, <2>6, <2>7, SteadyStep
  <2> QED BY <2>8 DEF DropsEnded
<1> QED BY <1>2, <1>3

\* The events of a connection are queued for it.
LEMMA QueueKept ==
  ASSUME TcpInv, TcpInv', KeepInv, NEW e \in batch, state' = state, removals' = removals,
         phase = "io", phase' = phase, batch' \subseteq batch,
         state.channels[e.fd].kind = "conn", NEW more \in Seq({"recv", "close"}),
         calls' = [calls EXCEPT ![state.channels[e.fd].n] = @ \o more]
  PROVE  KeepInv' /\ DropsEnded
<1> DEFINE f == e.fd
           n == state.channels[f].n
<1>1. TablesAgree(state, {}, {}) /\ f \in Fds
  BY Quiet DEF TcpInv
<1>2. state.channels[f] # NoChannel /\ state.channels[f] \in Channel
  <2>1. state.channels \in [Fds -> Channel]
    BY <1>1, AgreeTypes
  <2> QED BY <1>1, <2>1 DEF NoChannel
<1>3. state.owner[f] = n /\ n \in Sockets /\ state.sock[n].fd = f
  <2>1. state.owner[f] # 0 /\ n = state.owner[f]
    BY <1>1, <1>2 DEF TablesAgree, ChannelsKnown
  <2>2. state.owner[f] \in Sockets
    BY <1>1, <2>1, AgreeTypes
  <2>3. state.sock[state.owner[f]].fd = f
    BY <1>1, <2>1 DEF TablesAgree, OwnersKnown
  <2> QED BY <2>1, <2>2, <2>3
<1>4. state.channels[f] = [kind |-> "conn", n |-> n]
  BY <1>2, SMTT(30) DEF Channel
<1>5. state.sock[n].status \in Over
  BY <1>3 DEF KeepInv, BatchKnown, Status
<1>6. calls' = [calls EXCEPT ![n] = @ \o more]
  BY SMTT(30)
<1> HIDE DEF n, f
<1>7. CallsKnown'
  <2>1. calls \in [Sockets -> Seq({"recv", "close"})]
    BY SMTT(30) DEF KeepInv, CallsKnown
  <2>2. /\ calls' \in [Sockets -> Seq({"recv", "close"})]
        /\ \A m \in Sockets : m # n => calls'[m] = calls[m]
    <3> DEFINE Q == Seq({"recv", "close"})
    <3>1. calls[n] \o more \in Q
      <4>1. calls[n] \in Q
        BY <1>3, <2>1
      <4> QED BY <4>1
    <3>2. calls \in [Sockets -> Q]
      BY <2>1, SMTT(30)
    <3> HIDE DEF Q
    <3>3. calls' \in [Sockets -> Q] /\ \A m \in Sockets : m # n => calls'[m] = calls[m]
      BY <1>3, <1>6, <3>1, <3>2
    <3> QED BY <3>3, Zenon DEF Q
  <2>3. ASSUME NEW m \in Sockets, calls'[m] # <<>>
        PROVE  /\ state.sock[m].fd \in Fds
               /\ state.channels[state.sock[m].fd] = [kind |-> "conn", n |-> m]
               /\ state.sock[m].status \in Over
    <3>1. CASE m = n
      BY <1>1, <1>3, <1>4, <1>5, <3>1, SMTT(30)
    <3>2. CASE m # n
      BY <2>2, <2>3, <3>2 DEF KeepInv, CallsKnown
    <3> QED BY <3>1, <3>2
  <2> QED BY <2>2, <2>3 DEF CallsKnown
<1>8. StatusKnown(state)' /\ RemovalsKnown'
  BY DEF KeepInv, StatusKnown, Status, RemovalsKnown
<1>9. BatchKnown'
  BY DEF KeepInv, BatchKnown, Status, Hangup
<1>10. DropsEnded
  BY DEF DropsEnded
<1> QED BY <1>7, <1>8, <1>9, <1>10 DEF KeepInv

\* handleIoEvent of a task
LEMMA TaskKept ==
  ASSUME TcpInv, TcpInv', KeepInv, TokensSuffice, NEW e \in batch, NEW op \in {"none", "connect"},
         phase = "io", phase' = phase, batch' = batch \ {e}, calls' = calls, removals' = removals,
         state.channels[e.fd] # NoChannel, state.channels[e.fd].kind = "task",
         \/ state' = Failed(state, state.channels[e.fd].n, op)
         \/ state' = Connected(state, state.channels[e.fd].n, op) /\ ~Hangup(e.ev)
  PROVE  KeepInv' /\ DropsEnded
<1> DEFINE f == e.fd
           n == state.channels[f].n
<1>1. TablesAgree(state, {}, {}) /\ f \in Fds /\ backlog \in Nat /\ StatusKnown(state)
  BY Quiet DEF TcpInv, KeepInv
<1>2. n \in Sockets /\ state.conns[f] = n /\ state.sock[n].fd = f
  BY <1>1, TaskOfChannel
<1>3. ~Hangup(e.ev) => Status(state, f) \in {"connected"} \cup Over
  BY DEF KeepInv, BatchKnown
<1>4. Steady(state, state', {f}) /\ StatusKnown(state') /\ state.manager[f] = 0
  <2> HIDE DEF n, f
  <2>1. CASE state' = Failed(state, n, op)
    <3>1. /\ Steady(state, Failed(state, n, op), {f}) /\ StatusKnown(Failed(state, n, op))
          /\ state.manager[f] = 0
      BY <1>1, <1>2, FailedSteady
    <3> QED BY <2>1, <3>1
  <2>2. CASE state' = Connected(state, n, op) /\ ~Hangup(e.ev)
    <3>1. Status(state, f) \in {"connected"} \cup Over
      BY <1>3, <2>2
    <3>2. /\ Steady(state, Connected(state, n, op), {f}) /\ StatusKnown(Connected(state, n, op))
          /\ state.manager[f] = 0
      BY <1>1, <1>2, <3>1, ConnectedSteady
    <3> QED BY <2>2, <3>2
  <2> QED BY <2>1, <2>2 DEF n, f
<1>5. \A x \in batch' : x.fd \notin {f}
  BY DEF KeepInv, BatchKnown
<1>6. batch' \subseteq batch /\ (phase' # "io" => batch' = {}) /\ \A fd \in {f} : state.manager[fd] = 0
  BY <1>4
<1> HIDE DEF f
<1>7. KeepInv' /\ Range(state.manager) \ {0} \subseteq Range(state'.manager)
  BY <1>4, <1>5, <1>6, SteadyStep
<1> QED BY <1>7 DEF DropsEnded

\* handleIoEvent
LEMMA IoKept ==
  ASSUME TcpInv, TcpInv', KeepInv, TokensSuffice, GentleInIo, NEW e \in batch, IoCallback(e)
  PROVE  KeepInv' /\ DropsEnded
<1> DEFINE ch == state.channels[e.fd]
           more == IF e.ev = "in" THEN <<"recv">>
                   ELSE IF e.ev = "hup" THEN <<"close">>
                   ELSE IF e.ev = "inhup" THEN <<"recv", "close">>
                   ELSE <<>>
<1>1. /\ phase = "io" /\ phase' = phase /\ removals' = removals /\ batch' = batch \ {e}
      /\ batch' \subseteq batch
  BY DEF IoCallback
<1>2. CASE state' = state /\ calls' = calls
  <2>1. phase' # "io" => batch' = {}
    BY <1>1
  <2> QED BY <1>1, <1>2, <2>1, SameStep
<1>3. CASE Accept /\ calls' = calls
  BY <1>1, <1>3, AcceptKept
<1>4. CASE /\ ch # NoChannel /\ ch.kind = "task" /\ calls' = calls
           /\ \E op \in IoOps : \/ state' = Failed(state, ch.n, op)
                                \/ state' = Connected(state, ch.n, op) /\ ~Hangup(e.ev)
                                \/ state' = state
  <2>1. PICK op \in IoOps : \/ state' = Failed(state, ch.n, op)
                            \/ state' = Connected(state, ch.n, op) /\ ~Hangup(e.ev)
                            \/ state' = state
    BY <1>4
  <2>2. op \in {"none", "connect"}
    BY DEF GentleInIo
  <2>3. CASE state' = state
    BY <1>2, <1>4, <2>3
  <2>4. CASE \/ state' = Failed(state, ch.n, op)
             \/ state' = Connected(state, ch.n, op) /\ ~Hangup(e.ev)
    BY <1>1, <1>4, <2>2, <2>4, TaskKept, SMTT(30)
  <2> QED BY <2>1, <2>3, <2>4
<1>5. CASE ch.kind = "conn" /\ state' = state /\ calls' = [calls EXCEPT ![ch.n] = @ \o more]
  <2>1. more \in Seq({"recv", "close"})
    <3>1. <<"recv">> \in Seq({"recv", "close"})
      OBVIOUS
    <3>2. <<"close">> \in Seq({"recv", "close"})
      OBVIOUS
    <3>3. <<"recv", "close">> \in Seq({"recv", "close"})
      OBVIOUS
    <3>4. <<>> \in Seq({"recv", "close"})
      OBVIOUS
    <3> QED BY <3>1, <3>2, <3>3, <3>4, Zenon
  <2> HIDE DEF more
  <2> QED BY <1>1, <1>5, <2>1, QueueKept
<1> QED
  <2> HIDE DEF ch, more
  <2>1. \/ state' = state /\ calls' = calls
        \/ Accept /\ calls' = calls
        \/ /\ ch # NoChannel /\ ch.kind = "task" /\ calls' = calls
           /\ \E op \in IoOps : \/ state' = Failed(state, ch.n, op)
                                \/ state' = Connected(state, ch.n, op) /\ ~Hangup(e.ev)
                                \/ state' = state
        \/ ch.kind = "conn" /\ state' = state /\ calls' = [calls EXCEPT ![ch.n] = @ \o more]
    BY DEF IoCallback, ch, more
  <2> QED BY <1>2, <1>3, <1>4, <1>5, <2>1, SMTT(30)

\* The network answers: what is over stays so.
LEMMA NetworkKept ==
  ASSUME TcpInv, TcpInv', KeepInv, NEW n \in Socks,
         NEW status \in {"connected", "failed", "eof", "reset"}, NetworkStep(n, status)
  PROVE  KeepInv' /\ DropsEnded
<1> DEFINE t == [state EXCEPT !.sock[n].status = status]
<1>1. /\ phase = "events" /\ phase' = phase /\ batch' = batch /\ calls' = calls
      /\ removals' = removals /\ state' = t
      /\ \/ state.sock[n].status = "connecting" /\ status \in {"connected", "failed"}
         \/ state.sock[n].status = "connected" /\ status \in Over
  BY DEF NetworkStep, loopVars, Over
<1>2. TablesAgree(state, {}, {}) /\ batch = {}
  BY <1>1, Quiet DEF KeepInv, BatchKnown
<1>3. state \in Tables /\ n \in Sockets /\ status \in Statuses
  <2>1. state \in Tables /\ state.opened \in 0 .. MaxSocks
    BY <1>2, AgreeTypes
  <2>2. MaxSocks \in Nat
    BY TcpAssumption
  <2> QED BY <2>1, <2>2 DEF Socks, Sockets, Statuses
<1>4. IsMoved(state, t, n, status)
  BY <1>3, MoveShape, Zenon
<1> HIDE DEF t
<1>5. /\ state'.owner = state.owner /\ state'.conns = state.conns
      /\ state'.manager = state.manager /\ state'.channels = state.channels
      /\ \A m \in Sockets : /\ state'.sock[m].fd = state.sock[m].fd
                            /\ m # n => state'.sock[m].status = state.sock[m].status
                            /\ m = n => state'.sock[m].status = status
  BY <1>1, <1>4 DEF IsMoved
<1>6. \A m \in Sockets : state.sock[m].status \in Over => state'.sock[m].status \in Over
  BY <1>1, <1>5 DEF Over
<1>7. \A m \in Sockets : /\ state.sock[m].status \in {"connected"} \cup Over =>
                             state'.sock[m].status \in {"connected"} \cup Over
                         /\ state.sock[m].status \in {"connecting", "connected", "failed"} \cup Over =>
                             state'.sock[m].status \in {"connecting", "connected", "failed"} \cup Over
  BY <1>1, <1>5 DEF Over
<1>8. \A fd \in Fds : /\ state.conns[fd] # 0 => state.owner[fd] \in Sockets
                      /\ state.manager[fd] # 0 => state.owner[fd] \in Sockets
  <2>1. \A fd \in Fds : state.owner[fd] # 0 => state.owner[fd] \in Sockets
    BY <1>2, AgreeTypes
  <2>2. \A fd \in Fds : state.conns[fd] # 0 \/ state.manager[fd] # 0 => state.owner[fd] # 0
    BY <1>2 DEF TablesAgree, HeldOnce
  <2> QED BY <2>1, <2>2
<1>9. StatusKnown(state)'
  BY <1>5, <1>7, <1>8 DEF KeepInv, StatusKnown, Status
<1>10. RemovalsKnown'
  <2>1. removals \in Seq(Fds) /\ \A fd \in Range(removals) : fd \in Fds
    BY DEF KeepInv, RemovalsKnown, Range
  <2>2. ASSUME NEW fd \in Range(removals)
        PROVE  /\ state.manager[fd] # 0 /\ state.channels[fd] = NoChannel
               /\ state'.sock[state.owner[fd]].status \in Over
    <3>1. /\ state.manager[fd] # 0 /\ state.channels[fd] = NoChannel
          /\ state.sock[state.owner[fd]].status \in Over
      BY DEF KeepInv, RemovalsKnown, Status
    <3> QED BY <1>6, <1>8, <2>1, <3>1
  <2> QED BY <1>1, <1>5, <2>1, <2>2 DEF RemovalsKnown, Status
<1>11. CallsKnown'
  BY <1>1, <1>5, <1>6 DEF KeepInv, CallsKnown
<1>12. BatchKnown'
  BY <1>1, <1>2 DEF BatchKnown
<1>13. DropsEnded
  BY <1>5 DEF DropsEnded
<1> QED BY <1>9, <1>10, <1>11, <1>12, <1>13 DEF KeepInv

\* A step keeps the invariant and drops no connection that is open.
LEMMA KeepStep ==
  ASSUME TokensSuffice, GentleHandler, GentleInIo
  PROVE  TcpInv /\ TcpInv' /\ KeepInv /\ [Next]_vars => KeepInv' /\ DropsEnded
<1> SUFFICES ASSUME TcpInv, TcpInv', KeepInv, [Next]_vars PROVE KeepInv' /\ DropsEnded
  OBVIOUS
<1>1. CASE CallConnect
  BY <1>1, ConnectKept
<1>2. CASE CallStopAll
  BY <1>2, StopKept
<1>3. CASE CallStartListen
  BY <1>3, ListenKept
<1>4. CASE \E token \in Tokens : CallCancel(token)
  BY <1>4, CancelKept
<1>5. CASE HandleTimers \/ Expiry
  BY <1>5, TimerKept DEF Expiry
<1>6. CASE TimerCallbacks
  BY <1>6, TimeoutKept DEF TimerCallbacks
<1>7. CASE EndTimers \/ PeerConnects \/ EndRound
  <2>1. /\ state' = state /\ calls' = calls /\ removals' = removals /\ batch' = batch
        /\ phase # "io" \/ batch = {}
    BY <1>7 DEF EndTimers, PeerConnects, EndRound, loopVars
  <2>2. batch' \subseteq batch /\ batch' = {}
    BY <2>1 DEF KeepInv, BatchKnown
  <2> QED BY <2>1, <2>2, SameStep
<1>8. CASE VisitConnections
  BY <1>8, VisitKept DEF VisitConnections
<1>9. CASE VisitManager
  BY <1>9, ManagerKept
<1>10. CASE Poll
  BY <1>10, PollKept
<1>11. CASE IoCallbacks
  BY <1>11, IoKept DEF IoCallbacks
<1>12. CASE \E n \in Socks, status \in {"connected", "failed", "eof", "reset"} : NetworkStep(n, status)
  BY <1>12, NetworkKept
<1>13. CASE UNCHANGED vars
  <2>1. /\ state' = state /\ calls' = calls /\ removals' = removals /\ batch' = batch
        /\ phase' = phase
    BY <1>13 DEF vars
  <2>2. batch' \subseteq batch /\ (phase' # "io" => batch' = {})
    BY <2>1 DEF KeepInv, BatchKnown
  <2> QED BY <2>1, <2>2, SameStep
<1> QED
  BY <1>1, <1>2, <1>3, <1>4, <1>5, <1>6, <1>7, <1>8, <1>9, <1>10, <1>11, <1>12, <1>13 DEF Next

\* The manager removes a connection only when its peer has closed it, though
\* disconnected is emitted once for each event of the connection and descriptors
\* are reused: all removals that are queued are handled in one visit, before the
\* next callback can open a socket.
THEOREM NoOpenConnectionDropped ==
  ASSUME TokensSuffice, GentleHandler, GentleInIo
  PROVE  Spec => ConnectionsKept
<1>1. Init => TcpInv /\ KeepInv
  BY TcpInit, KeepInit
<1>2. TcpInv /\ [Next]_vars => TcpInv'
  BY TcpStep
<1>3. TcpInv /\ TcpInv' /\ KeepInv /\ [Next]_vars => KeepInv' /\ DropsEnded
  BY KeepStep
<1>4. DropsEnded => [\A n \in Range(state.manager) \ (Range(state'.manager) \cup {0}) :
                       state.sock[n].status \in {"eof", "reset"}]_vars
  BY DEF DropsEnded
<1> QED BY <1>1, <1>2, <1>3, <1>4, PTL DEF Spec, ConnectionsKept
=============================================================================
