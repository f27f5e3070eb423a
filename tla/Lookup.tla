-------------------------------- MODULE Lookup --------------------------------
(***************************************************************************)
(* What a look-up means to the connection that asks for it: one step from  *)
(* the addresses of the host to a server or an error.                      *)
(***************************************************************************)
EXTENDS Naturals, Sequences, SequencesExt

VARIABLES
  listed,    \* the addresses of the host, in the order of preference; none when
             \* its name has an error
  own,       \* those at which the proxy would reach itself
  down,      \* those that accept no connection
  reliable,  \* whether everything the look-up sends and receives is whole
  status,    \* "pending", "error" or "connected"
  server     \* the address of the server, when connected

vars == <<listed, own, down, reliable, status, server>>

Init ==
  /\ own \subseteq ToSet(listed)
  /\ down \subseteq ToSet(listed)
  /\ reliable \in BOOLEAN
  /\ status = "pending"
  /\ server = <<>>

\* The addresses come to be tried one after the other, until one accepts or is
\* the proxy's.
Ends(k) == listed[k] \in own \/ listed[k] \notin down
First(k) == Ends(k) /\ \A m \in 1 .. k - 1 : ~Ends(m)

Connect(a) == status' = "connected" /\ server' = a
Fail == status' = "error" /\ UNCHANGED server

Ordered ==
  \/ \E k \in DOMAIN listed :
       First(k) /\ IF listed[k] \in own THEN Fail ELSE Connect(listed[k])
  \/ (\A k \in DOMAIN listed : ~Ends(k)) /\ Fail

\* What is left of an address when the answer ends inside it.
CutShort(a) ==
  {[n \in DOMAIN a |-> IF n <= k THEN a[n] ELSE 0] : k \in 0 .. Len(a)}

Disturbed ==
  \/ Fail
  \/ \E a \in ToSet(listed) : \E c \in CutShort(a) \ (down \cup own) : Connect(c)

Resolve ==
  /\ status = "pending"
  /\ IF reliable THEN Ordered ELSE Disturbed
  /\ UNCHANGED <<listed, own, down, reliable>>

Spec == Init /\ [][Resolve]_vars
=============================================================================
