-------------------------------- MODULE Relay --------------------------------
(***************************************************************************)
(* What relaying a connection means to its two ends: each end receives, in *)
(* order and once each, the bytes the other one wrote, and the connection  *)
(* is closed only for a reason the ends can see.                           *)
(***************************************************************************)
EXTENDS Naturals, Sequences

VARIABLES written,    \* how many bytes each end has written: 1, 2, 3 ...
          finished,   \* the ends that will write no more
          received,   \* the bytes each end has received
          open

Ends == {"client", "server"}
Other(e) == CHOOSE f \in Ends : f # e

\* The first k bytes an end writes.
Bytes(k) == [i \in 1 .. k |-> i]

vars == <<written, finished, received, open>>

Init ==
  /\ written \in [Ends -> Nat]
  /\ finished \in SUBSET {"client"}
  /\ received = [e \in Ends |-> <<>>]
  /\ open = TRUE

Write(e) ==
  /\ open
  /\ e \notin finished
  /\ written' = [written EXCEPT ![e] = @ + 1]
  /\ UNCHANGED <<finished, received, open>>

Finish(e) ==
  /\ open
  /\ e \notin finished
  /\ finished' = finished \cup {e}
  /\ UNCHANGED <<written, received, open>>

\* The other end receives some more of what e wrote.
Deliver(e) ==
  /\ open
  /\ \E k \in Len(received[Other(e)]) + 1 .. written[e] :
       received' = [received EXCEPT ![Other(e)] = Bytes(k)]
  /\ UNCHANGED <<written, finished, open>>

\* Either the client finished, or the server did and the client has received
\* all of its answer (its last bytes perhaps with the very step that closes).
Close ==
  /\ open
  /\ open' = FALSE
  /\ \/ "client" \in finished /\ received' = received
     \/ /\ "server" \in finished
        /\ received' = [received EXCEPT !["client"] = Bytes(written["server"])]
  /\ UNCHANGED <<written, finished>>

Next == Close \/ \E e \in Ends : Write(e) \/ Finish(e) \/ Deliver(e)

Spec == Init /\ [][Next]_vars
=============================================================================
