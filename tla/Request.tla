-------------------------------- MODULE Request --------------------------------
(***************************************************************************)
(* What reading a request means to the rest of the proxy, and all that     *)
(* Proxy takes for granted of its parser (Parsed): the request names its   *)
(* host and its method at the same time and once, and may be found bad at  *)
(* any time, after which it is parsed no more.                             *)
(***************************************************************************)
EXTENDS Sequences

VARIABLES
  host,       \* the host, once it is known
  connect,    \* whether the method is CONNECT; FALSE as long as there is no host
  error       \* the request is bad

vars == <<host, connect, error>>

Init == host = <<>> /\ connect = FALSE /\ error = FALSE

\* The host and the method that goes with it are there, and stay.
Name ==
  /\ host = <<>>
  /\ host' # <<>>
  /\ connect' \in BOOLEAN

Parse ==
  /\ ~error
  /\ Name \/ UNCHANGED <<host, connect>>
  /\ error' \in BOOLEAN

Spec == Init /\ [][Parse]_vars
=============================================================================
