---------------------------- MODULE MCThreadPool ----------------------------
(* A client that schedules, pushes and cancels one task, and a slot that      *)
(* enqueues the other.                                                       *)
EXTENDS ThreadPool

CONSTANT c1

\* A task that a slot enqueues is pushed by no client.
PushedOrSlot == [t \in Tasks |-> IF t \in SlotTasks THEN {} ELSE {c1}]
=============================================================================
