------------------------------ MODULE Signals ------------------------------
(***************************************************************************)
(* core/object.h, core/object.cpp: a Signal of an object S, connections to *)
(* slots of a receiver R and to plain functions, and the calls that make,  *)
(* use and cut them. S lives on thread "s", R on "s" or "r"; "u" is a      *)
(* thread without a loop. Every thread has a stack of the calls it is in;  *)
(* invoke runs a call at once on the object's own thread, and otherwise    *)
(* queues it on the object and waits, handling nothing meanwhile.          *)
(***************************************************************************)
EXTENDS Naturals, Sequences, FiniteSets, SequencesExt

CONSTANTS Slots,          \* connections made by connect(R, f)
          Func,           \* a connection made by connectFunc(f)
          Disconnectors,  \* who may disconnect in one behaviour: a set of
                          \* subsets of {"user", "receiver", "signal", "foreign"}
          Overlap,        \* whether this may overlap with a connect
          MaxEmits        \* bound on emissions

ASSUME SignalsAssumption == /\ IsFiniteSet(Slots) /\ Func \notin Slots
                            /\ Disconnectors \subseteq SUBSET {"user", "receiver", "signal", "foreign"}
                            /\ Overlap \in BOOLEAN /\ MaxEmits \in Nat

Threads == {"s", "r", "u"}

VARIABLES
  connectionList,  \* of the signal
  connectionMap,   \* of the receiver
  status,          \* of a connection: a subset of {"sig", "slot"}:
                   \* SignalDisconnected, SignalSlotDisConnected
  alive,           \* the objects that are not destroyed
  queue,           \* triggerEventQueue of S and of R
  stack,           \* calls of a thread, the current one first
  answered,        \* threads whose future is set
  home,            \* the thread of an object
  who,             \* the disconnectors of this behaviour
  made, emits,     \* connections asked for, emissions so far
  cut              \* history: connections whose disconnect() has returned

vars == <<connectionList, connectionMap, status, alive, queue, stack, answered,
          home, who, made, emits, cut>>
shared == <<connectionList, connectionMap, status, alive>>
given == <<home, who, made, emits, cut>>

Connections == Slots \cup {Func}

Init ==
  /\ connectionList = <<>> /\ connectionMap = {}
  /\ status = [c \in Connections |-> {}]
  /\ alive = {"S", "R"} /\ queue = [o \in {"S", "R"} |-> <<>>]
  /\ stack = [t \in Threads |-> <<>>] /\ answered = {}
  /\ home \in {[S |-> "s", R |-> h] : h \in {"s", "r"}}
  /\ who \in Disconnectors
  /\ made = {} /\ emits = 0 /\ cut = {}

-----------------------------------------------------------------------------
(* Calls *)

\* A call of procedure p: where it is, the connection it is about, a set of
\* bits it was given or has read, and the connections it still has to handle.
Frame(p, c, bits, todo) == [p |-> p, pc |-> 1, c |-> c, bits |-> bits, todo |-> todo]

Top(t) == stack[t][1]
At(t, p, pc) == stack[t] # <<>> /\ Top(t).p = p /\ Top(t).pc = pc
Returned(t) == stack' = [stack EXCEPT ![t] = Tail(@)] /\ UNCHANGED <<queue, answered>>
Continue(t, f) == stack' = [stack EXCEPT ![t] = <<f>> \o Tail(@)] /\ UNCHANGED <<queue, answered>>
Calling(t, f, g) == stack' = [stack EXCEPT ![t] = <<g, f>> \o Tail(@)] /\ UNCHANGED <<queue, answered>>
Pc(t, pc) == [Top(t) EXCEPT !.pc = pc]

\* Whether a call of one of the procedures ps is queued or under way.
Busy(ps) == \/ \E t \in Threads : \E i \in DOMAIN stack[t] : stack[t][i].p \in ps
            \/ \E o \in DOMAIN queue : \E i \in DOMAIN queue[o] : queue[o][i].call.p \in ps

\* Whether connections may be cut: not while they are being made.
Settled == made = Connections /\ ~Busy({"connect", "addSlot"})
MayCut == Overlap \/ Settled
\* Mutant of Invoke: nobody waits.
InvokeAsync(t, o, f, g) ==
  IF home[o] = t THEN Calling(t, f, g)
  ELSE /\ stack' = [stack EXCEPT ![t] = <<f>> \o Tail(@)]
       /\ queue' = [queue EXCEPT ![o] = Append(@, [call |-> g, from |-> "none"])]
       /\ UNCHANGED answered

\* Object::invoke on o of the call g; the caller goes on at f.
Invoke(t, o, f, g) ==
  IF home[o] = t THEN Calling(t, f, g)
  ELSE /\ stack' = [stack EXCEPT ![t] = <<Frame("wait", Func, {}, <<>>), f>> \o Tail(@)]
       /\ queue' = [queue EXCEPT ![o] = Append(@, [call |-> g, from |-> t])]
       /\ UNCHANGED answered

\* The loop of a thread takes a call from the queue of one of its objects.
Take(t, o) ==
  /\ stack[t] = <<>> /\ home[o] = t /\ o \in alive /\ queue[o] # <<>>
  /\ LET e == Head(queue[o])
     IN stack' = [stack EXCEPT ![t] = <<e.call, Frame("reply", Func, {e.from}, <<>>)>>]
  /\ queue' = [queue EXCEPT ![o] = Tail(@)]
  /\ UNCHANGED <<answered, shared, given>>

\* Mutant of Answered: the flag of the future is not set.
AnsweredNobody(f) == {}
Answered(f) == f.bits \ {"none"}

Reply(t) == /\ At(t, "reply", 1)
            /\ answered' = answered \cup Answered(Top(t))
            /\ stack' = [stack EXCEPT ![t] = Tail(@)]
            /\ UNCHANGED <<queue, shared, given>>

Wait(t) == /\ At(t, "wait", 1) /\ t \in answered
           /\ answered' = answered \ {t}
           /\ stack' = [stack EXCEPT ![t] = Tail(@)]
           /\ UNCHANGED <<queue, shared, given>>

-----------------------------------------------------------------------------
(* Connecting *)

\* Signal::connect, connectFunc, on S; Object::connect, on R.
Connect(t) ==
  /\ At(t, "connect", 1)
  /\ connectionList' = Append(connectionList, Top(t).c)
  /\ IF Top(t).c = Func THEN Returned(t)
     ELSE Invoke(t, "R", Pc(t, 2), Frame("addSlot", Top(t).c, {}, <<>>))
  /\ UNCHANGED <<connectionMap, status, alive, given>>

AddSlot(t) == /\ At(t, "addSlot", 1)
              /\ connectionMap' = connectionMap \cup {Top(t).c}
              /\ Returned(t)
              /\ UNCHANGED <<connectionList, status, alive, given>>

-----------------------------------------------------------------------------
(* Disconnecting *)

\* status.exchange(status.load()|flag), in two steps.
LoadStatus(t) == /\ At(t, "or", 1)
                 /\ Continue(t, [Pc(t, 2) EXCEPT !.bits = @ \cup status[Top(t).c]])
                 /\ UNCHANGED <<shared, given>>
StoreStatus(t) == /\ At(t, "or", 2)
                  /\ status' = [status EXCEPT ![Top(t).c] = Top(t).bits]
                  /\ Returned(t)
                  /\ UNCHANGED <<connectionList, connectionMap, alive, given>>

\* Whether the flag is not in the state that was read.
Missing(f, bit) == bit \notin f.bits

\* Connection::disconnect(flag): pc 1 sets the flag, 2 reads the state, 3 and 4
\* see to the signal, 5 and 6 to the receiver.
Disconnect(t) ==
  LET f == Top(t)
      Or(pc, bits) == Calling(t, Pc(t, pc), Frame("or", f.c, bits, <<>>))
  IN /\ \/ At(t, "disconnect", 1) /\ Or(2, f.bits)
        \/ At(t, "disconnect", 2) /\ Continue(t, [Pc(t, 3) EXCEPT !.bits = status[f.c]])
        \/ At(t, "disconnect", 3) /\ IF Missing(f, "sig") THEN Or(4, {"sig"}) ELSE Continue(t, Pc(t, 5))
        \/ At(t, "disconnect", 4) /\ Invoke(t, "S", Pc(t, 5), Frame("cutSignal", f.c, {}, <<>>))
        \/ At(t, "disconnect", 5) /\ IF Missing(f, "slot") THEN Or(6, {"slot"}) ELSE Returned(t)
        \/ /\ At(t, "disconnect", 6)
           /\ IF f.c = Func THEN Returned(t)
              ELSE Invoke(t, "R", Pc(t, 7), Frame("cutSlot", f.c, {}, <<>>))
     /\ UNCHANGED <<shared, given>>

\* Mutant of Without: the connection stays in the list.
WithoutNone(list, c) == list
Without(list, c) == SelectSeq(list, LAMBDA d : d # c)

\* Signal::disconnect, on S
CutSignal(t) ==
  LET c == Top(t).c
      known == \E i \in DOMAIN connectionList : connectionList[i] = c
  IN /\ \/ /\ At(t, "cutSignal", 1)
           /\ IF known THEN Calling(t, Pc(t, 2), Frame("disconnect", c, {"sig"}, <<>>)) ELSE Returned(t)
           /\ UNCHANGED connectionList
        \/ /\ At(t, "cutSignal", 2)
           /\ connectionList' = Without(connectionList, c)
           /\ Returned(t)
     /\ UNCHANGED <<connectionMap, status, alive, given>>

\* Object::disconnect, on R
CutSlot(t) ==
  LET c == Top(t).c
  IN /\ \/ /\ At(t, "cutSlot", 1)
           /\ IF c \in connectionMap THEN Calling(t, Pc(t, 2), Frame("disconnect", c, {"slot"}, <<>>))
              ELSE Returned(t)
           /\ UNCHANGED connectionMap
        \/ /\ At(t, "cutSlot", 2)
           /\ connectionMap' = connectionMap \ {c}
           /\ Returned(t)
     /\ UNCHANGED <<connectionList, status, alive, given>>

\* disconnectAll of the signal (in ~Signal) and of the receiver (releaseAllRef
\* in ~Object), over a copy. Then the object and its queue are gone.
Destroy(t) ==
  LET f == Top(t)
      o == IF f.p = "destroyS" THEN "S" ELSE "R"
      bit == IF o = "S" THEN "sig" ELSE "slot"
      all == IF o = "S" THEN SelectSeq(connectionList, LAMBDA c : c # Func) ELSE SetToSeq(connectionMap)
  IN /\ stack[t] # <<>> /\ f.p \in {"destroyS", "destroyR"}
     /\ \/ f.pc = 1 /\ Continue(t, [Pc(t, 2) EXCEPT !.todo = all]) /\ UNCHANGED shared
        \/ /\ f.pc = 2 /\ f.todo # <<>>
           /\ Calling(t, [f EXCEPT !.todo = Tail(@)], Frame("disconnect", Head(f.todo), {bit}, <<>>))
           /\ UNCHANGED shared
        \/ /\ f.pc = 2 /\ f.todo = <<>>
           /\ alive' = alive \ {o}
           /\ connectionList' = IF o = "S" THEN <<>> ELSE connectionList
           /\ connectionMap' = IF o = "R" THEN {} ELSE connectionMap
           /\ stack' = [stack EXCEPT ![t] = Tail(@)]
           /\ queue' = [queue EXCEPT ![o] = <<>>]
           /\ UNCHANGED <<answered, status>>
     /\ UNCHANGED given

-----------------------------------------------------------------------------
(* Emitting *)

\* Mutant of Calls: operator() does not look at the status.
CallsAlways(f, c) == TRUE
\* Signal::operator() leaves out a connection that is being cut; Signal::emit
\* calls every connection of the copied list.
Calls(f, c) == f.bits = {"operator()"} => status[c] = {}

\* The connections of the copied list, one after the other. A slot is queued on
\* its receiver; a function is called, and may destroy a receiver of its thread.
Emit(t) ==
  LET f == Top(t)
      c == Head(f.todo)
      done == [f EXCEPT !.pc = 2, !.todo = Tail(@)]
      MayDestroy == home["R"] = t /\ "receiver" \in who /\ "R" \in alive /\ MayCut /\ ~Busy({"destroyR"})
  IN /\ \/ At(t, "emit", 1) /\ Continue(t, [Pc(t, 2) EXCEPT !.todo = connectionList])
        \/ At(t, "emit", 2) /\ f.todo = <<>> /\ Returned(t)
        \/ At(t, "emit", 2) /\ f.todo # <<>> /\ Continue(t, IF Calls(f, c) THEN Pc(t, 3) ELSE done)
        \/ At(t, "emit", 3) /\ c = Func /\ Continue(t, done)
        \/ /\ At(t, "emit", 3) /\ c = Func /\ MayDestroy
           /\ Calling(t, done, Frame("destroyR", Func, {}, <<>>))
        \/ /\ At(t, "emit", 3) /\ c # Func
           /\ queue' = [queue EXCEPT !["R"] = Append(@, [call |-> Frame("slot", c, f.bits, <<>>), from |-> "none"])]
           /\ stack' = [stack EXCEPT ![t] = <<done>> \o Tail(@)]
           /\ UNCHANGED answered
     /\ UNCHANGED <<shared, given>>

\* The slot runs, or a call has nothing more to do.
Finish(t) ==
  /\ \/ At(t, "slot", 1) \/ At(t, "connect", 2) \/ At(t, "disconnect", 7)
     \/ At(t, "cutDone", 1)
  /\ Returned(t)
  /\ cut' = IF Top(t).p = "cutDone" THEN cut \cup {Top(t).c} ELSE cut
  /\ UNCHANGED <<shared, home, who, made, emits>>

-----------------------------------------------------------------------------
(* What threads start when they are in no call. Nobody calls an object that *)
(* is being destroyed, and none is destroyed while it is emitting.           *)

\* A thread without a call invokes g on o; behind is what it does afterwards.
Start(t, o, g, behind) ==
  /\ stack[t] = <<>> /\ o \in alive /\ ~Busy({IF o = "S" THEN "destroyS" ELSE "destroyR"})
  /\ IF home[o] = t THEN stack' = [stack EXCEPT ![t] = <<g>> \o behind] /\ UNCHANGED queue
     ELSE /\ stack' = [stack EXCEPT ![t] = <<Frame("wait", Func, {}, <<>>)>> \o behind]
          /\ queue' = [queue EXCEPT ![o] = Append(@, [call |-> g, from |-> t])]
  /\ UNCHANGED <<answered, shared, home, who, cut>>

StartConnect(c) ==
  /\ c \notin made /\ "R" \in alive /\ made' = made \cup {c}
  /\ \E t \in {"s", "u"} : Start(t, "S", Frame("connect", c, {}, <<>>), <<>>)
  /\ UNCHANGED emits
StartEmit ==
  /\ emits < MaxEmits /\ emits' = emits + 1
  /\ \E t \in {"s", "u"}, by \in {"operator()", "emit"} :
       Start(t, "S", Frame("emit", Func, {by}, <<>>), <<>>)
  /\ UNCHANGED made

\* conn->disconnect() by thread u, which runs on u itself.
UserDisconnect(c) ==
  /\ "user" \in who /\ MayCut /\ stack["u"] = <<>> /\ c \in made \ cut
  /\ stack' = [stack EXCEPT !["u"] = <<Frame("disconnect", c, {}, <<>>), Frame("cutDone", c, {}, <<>>)>>]
  /\ UNCHANGED <<queue, answered, shared, given>>
DestroyReceiver ==
  /\ "receiver" \in who /\ MayCut
  /\ \E t \in {home["R"], "u"} : Start(t, "R", Frame("destroyR", Func, {}, <<>>), <<>>)
  /\ UNCHANGED <<made, emits>>

\* ~Signal passes the thread of its own object to invoke: it runs on whatever
\* thread destroys it.
DestroySignal(t) ==
  /\ MayCut /\ stack[t] = <<>> /\ "S" \in alive /\ ~Busy({"emit", "destroyS"})
  /\ \/ t = "s" /\ "signal" \in who
     \/ t = "u" /\ "foreign" \in who
  /\ stack' = [stack EXCEPT ![t] = <<Frame("destroyS", Func, {}, <<>>)>>]
  /\ UNCHANGED <<queue, answered, shared, given>>

Step(t) == \/ \E o \in {"S", "R"} : Take(t, o)
           \/ Reply(t) \/ Wait(t) \/ Connect(t) \/ AddSlot(t) \/ LoadStatus(t) \/ StoreStatus(t)
           \/ Disconnect(t) \/ CutSignal(t) \/ CutSlot(t) \/ Destroy(t) \/ Emit(t) \/ Finish(t)

Next == \/ \E t \in Threads : Step(t)
        \/ \E c \in Connections : StartConnect(c) \/ UserDisconnect(c)
        \/ StartEmit \/ DestroyReceiver
        \/ \E t \in {"s", "u"} : DestroySignal(t)

\* Calls that were begun go on; nobody has to begin one.
Spec == Init /\ [][Next]_vars /\ \A t \in Threads : WF_vars(Step(t))

-----------------------------------------------------------------------------
(* Properties *)

\* No slot is queued on a destroyed receiver by operator(), nor by emit when the
\* receiver lives on another thread than the signal: its destructor does not
\* return before the signal's thread, and with it an emission that is under way,
\* has let go of it. On the signal's own thread a function called by an emission
\* may destroy a receiver that comes later in the copied list; operator() then
\* skips it, emit does not (object.h:413).
NoDeadCall ==
  \A o \in {"S", "R"} \ alive : \A i \in DOMAIN queue[o] :
    queue[o][i].call.bits = {"emit"} /\ home["R"] = home["S"]

\* When nobody is in a call, the signal and the receiver know the same
\* connections, and none that is cut.
EndsAgree ==
  ((\A t \in Threads : stack[t] = <<>>) /\ (\A o \in alive : queue[o] = <<>>)) =>
    /\ Range(connectionList) \cap Slots = connectionMap
    /\ \A c \in Range(connectionList) : status[c] = {}

\* When disconnect() has returned, the slot is not queued again.
QuietAfterCut == [][\A c \in cut : Len(SelectSeq(queue'["R"], LAMBDA e : e.call.p = "slot" /\ e.call.c = c))
                              <= Len(SelectSeq(queue["R"], LAMBDA e : e.call.p = "slot" /\ e.call.c = c))]_vars

\* Every call returns: the threads do not wait for each other in a circle.
CallsEnd == \A t \in Threads : stack[t] # <<>> ~> stack[t] = <<>>
=============================================================================
