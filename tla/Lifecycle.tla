------------------------------ MODULE Lifecycle ------------------------------
(***************************************************************************)
(* The life of the connections of the proxy, as a client of it would put   *)
(* it: a connection is accepted, its request is read until the host is     *)
(* known, the server is found, a CONNECT is told that the tunnel is open,  *)
(* and only then are bytes relayed.  Anything may end in an error reply up *)
(* to that point, never once bytes are relayed, and a connection that was  *)
(* given an error reply gets nothing else.                                 *)
(***************************************************************************)
CONSTANTS Slots      \* the entries of the table of connections

VARIABLES phase,     \* where the connection of each entry is
          tunnel     \* whether it is a CONNECT, once that is known

Phases == {"free", "request", "resolve", "inform", "handover", "relay", "error"}

Init == phase = [s \in Slots |-> "free"] /\ tunnel = [s \in Slots |-> FALSE]

\* One entry moves: it was in one of the phases of from and is now in to.
Move(s, from, to) ==
  phase[s] \in from /\ phase' = [phase EXCEPT ![s] = to]

Forget(s) == tunnel' = [tunnel EXCEPT ![s] = FALSE]

Accept(s) == Move(s, {"free"}, "request") /\ UNCHANGED tunnel

\* The request names its host: look for the server.
Identify(s) ==
  Move(s, {"request"}, "resolve")
  /\ \E b \in BOOLEAN : tunnel' = [tunnel EXCEPT ![s] = b]

\* The server is reached: a CONNECT is told first.
Reach(s) ==
  Move(s, {"resolve"}, IF tunnel[s] THEN "inform" ELSE "handover")
  /\ UNCHANGED tunnel

Inform(s) == Move(s, {"inform"}, "handover") /\ UNCHANGED tunnel

StartRelay(s) == Move(s, {"handover"}, "relay") /\ UNCHANGED tunnel

Fail(s) ==
  Move(s, {"request", "resolve", "inform", "handover"}, "error") /\ Forget(s)

End(s) == Move(s, {"handover", "relay", "error"}, "free") /\ Forget(s)

Next ==
  \E s \in Slots :
    \/ Accept(s) \/ Identify(s) \/ Reach(s) \/ Inform(s) \/ StartRelay(s)
    \/ Fail(s) \/ End(s)

Spec == Init /\ [][Next]_<<phase, tunnel>>
=============================================================================
