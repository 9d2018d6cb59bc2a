--------------------------- MODULE MCObjectTimers ---------------------------
(* Two handles over one or two ids: an id comes back into use while a call or *)
(* an entry made for its former owner is still on its way.                    *)
EXTENDS ObjectTimers

\* What callbacks run by handleTimerEvent do in the repository's own code.
OwnTimerOps == {"stop", "release"}
AllOps == Ops
=============================================================================
