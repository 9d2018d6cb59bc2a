------------------------- MODULE MCStreamConnection -------------------------
(* Frames of two and three bytes in caches of a few: every frame may be sent *)
(* and received in any pieces.                                              *)
EXTENDS StreamConnection
=============================================================================
