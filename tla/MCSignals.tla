----------------------------- MODULE MCSignals -----------------------------
(* Two connections to one receiver and one to a function; one kind of       *)
(* disconnector in a behaviour.                                             *)
EXTENDS Signals

CONSTANTS c1, c2

OneAtATime == {{"user"}, {"receiver"}, {"signal"}}
UserAndReceiver == {{"user", "receiver"}}
SignalAndReceiver == {{"signal", "receiver"}}
ForeignSignal == {{"foreign"}}
=============================================================================
