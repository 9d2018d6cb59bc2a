----------------------------- MODULE FrameStream -----------------------------
(***************************************************************************)
(* What a pair of TcpConnections promises: the frames that sendFrame       *)
(* accepts arrive at notifyFrame unchanged, in order and once each, until  *)
(* the receiver disconnects.                                               *)
(***************************************************************************)
EXTENDS Naturals, Sequences

VARIABLES accepted, delivered, open

Init == accepted = <<>> /\ delivered = <<>> /\ open = TRUE

Accept == /\ Len(accepted') = Len(accepted) + 1
          /\ SubSeq(accepted', 1, Len(accepted)) = accepted
          /\ UNCHANGED <<delivered, open>>

\* One or more of the oldest frames that have not arrived.
Deliver == /\ open
           /\ \E k \in Len(delivered) + 1 .. Len(accepted) : delivered' = SubSeq(accepted, 1, k)
           /\ UNCHANGED <<accepted, open>>

Close == open /\ open' = FALSE /\ UNCHANGED <<accepted, delivered>>

Next == Accept \/ Deliver \/ Close

Spec == Init /\ [][Next]_<<accepted, delivered, open>>
=============================================================================
