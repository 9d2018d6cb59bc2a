---------------------------- MODULE MCTcpServer ----------------------------
(* Three sockets over three descriptors: a descriptor comes back into use   *)
(* while an event or a request made for its former owner is on its way.     *)
EXTENDS TcpServer

\* One after the other, 0 left out.
MCTries == [first \in 1 .. TokenMax |->
              [i \in 1 .. MaxTries + 1 |-> ((first + i - 2) % TokenMax) + 1]]
=============================================================================
