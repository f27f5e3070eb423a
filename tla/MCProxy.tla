------------------------------- MODULE MCProxy -------------------------------
(***************************************************************************)
(* Instances of Proxy for TLC with more than one connection, with two      *)
(* bounds on what happens at the same time.                                *)
(***************************************************************************)
EXTENDS ProxyProperties

CONSTANTS
  MaxReady,     \* bound: descriptors ready at one wake-up.  Two suffice for any
                \* two events of two connections, or of the two ends of one, to
                \* meet in one turn of the loop.
  MaxOverflow   \* bound: clients accepted while the table was full

Overflow ==
  Cardinality({fd \in Fds : sockets[fd] = "client"})
    - Cardinality({s \in Slots : connections[s].client_socket # 0})

Bounded ==
  /\ Cardinality(readfds) + Cardinality(writefds) <= MaxReady
  /\ Overflow <= MaxOverflow
=============================================================================
