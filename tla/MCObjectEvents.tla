--------------------------- MODULE MCObjectEvents ---------------------------
(* Small trees for ObjectEvents. *)
EXTENDS ObjectEvents, TLC

CONSTANTS a, b

\* Every child is a child of the scheduler.
Flat == [o \in Objects \ {Root} |-> Root]

\* The scheduler's child a has a child b, as CanSerialProxy below CanUtilSocket.
Chain == (a :> Root) @@ (b :> a)
=============================================================================
