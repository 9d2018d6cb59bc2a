---------------------------- MODULE MCEventLoop -----------------------------
(* A loop of two or three schedulers. *)
EXTENDS EventLoop
=============================================================================
