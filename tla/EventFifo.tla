----------------------------- MODULE EventFifo -----------------------------
(***************************************************************************)
(* What an Object's trigger queue promises (core/object.h, class           *)
(* TriggerEventQueueForObject and Object::addSyncEvent): closures given to *)
(* one object run one after the other, in the order in which they were     *)
(* accepted, each of them once.  A closure that is not accepted runs on    *)
(* the calling thread instead, or is refused.                              *)
(***************************************************************************)
EXTENDS Sequences

CONSTANTS Objects,    \* the objects that own a queue
          Closures,   \* what can be queued
          Events      \* the closures (first components) that are user events

VARIABLES pending,    \* pending[o]: accepted by o and not finished, oldest first
          ran         \* the user events that have run

fifoVars == <<pending, ran>>

Init == /\ pending = [o \in Objects |-> <<>>]
        /\ ran = {}

Held(x) == \E o \in Objects : \E i \in DOMAIN pending[o] : pending[o][i][1] = x

\* A user event is accepted once; the tree's own closures come again.
Accept(o, c) == /\ c[1] \in Events => c[1] \notin ran /\ ~Held(c[1])
                /\ pending' = [pending EXCEPT ![o] = Append(@, c)]
                /\ UNCHANGED ran

\* The oldest closure of o runs.
RunOldest(o) == /\ pending[o] # <<>>
                /\ pending' = [pending EXCEPT ![o] = Tail(@)]
                /\ ran' = ran \cup ({Head(pending[o])[1]} \cap Events)

\* An event that no queue took runs at once.
RunAtOnce(e) == /\ e \notin ran /\ ~Held(e)
                /\ ran' = ran \cup {e}
                /\ UNCHANGED pending

Next == \/ \E o \in Objects, c \in Closures : Accept(o, c)
        \/ \E o \in Objects : RunOldest(o)
        \/ \E e \in Events : RunAtOnce(e)

Spec == Init /\ [][Next]_fifoVars
=============================================================================
