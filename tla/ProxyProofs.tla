----------------------------- MODULE ProxyProofs -----------------------------
(***************************************************************************)
(* Theorems about Proxy, for every size of the table, every number of      *)
(* descriptors and every set of faults: type correctness and the ownership *)
(* of descriptors first, then what the select() loop keeps from visit to   *)
(* visit: the life cycle, who is watched, what is watched for a final      *)
(* message, and when nothing is watched that is closed.                    *)
(*                                                                         *)
(* The step of the loop that matters replaces the entry being visited and  *)
(* changes what some descriptors are open for.  Lemma Replace says when    *)
(* such a step keeps the invariant; the lemma of each action shows that    *)
(* the action is such a step.                                              *)
(***************************************************************************)
EXTENDS ProxyProperties, FiniteSetTheorems, TLAPS

-----------------------------------------------------------------------------
(* The inductive invariant *)

\* What the flags of an entry say of its stage: the server is known once the
\* entry is connected, it is told before it is relayed, and an entry without a
\* client is as memset left it.
Staged(c) ==
  /\ c.client_socket = 0 => c = NoConnection
  /\ c.connected => c.server_socket # 0
  /\ c.connection_informed => c.connected
  /\ c.stay_connected => c.connection_informed
  /\ c.stay_connected_setted_up => c.stay_connected

AllStaged == \A s \in Slots : Staged(connections[s])

\* The loop comes to the second half of a visit only for an entry in use.
InUse == pc = "proceed" => current.client_socket # 0

IInv == TypeOK /\ OwnsOpen /\ OwnersDiffer /\ AllStaged /\ InUse

\* The descriptors an entry holds.
Held(c) == {c.client_socket, c.server_socket, c.doh_socket}

\* A descriptor of c is open for what c uses it.
OpenFor(c, tab) ==
  /\ c.client_socket # 0 => tab[c.client_socket] = "client"
  /\ c.server_socket # 0 => tab[c.server_socket] = "server"
  /\ c.doh_socket > 0 => tab[c.doh_socket] = "doh"

-----------------------------------------------------------------------------
(* Facts about the helpers *)

\* A free descriptor is a closed one.
LEMMA LowestFreeClosed ==
  ASSUME NEW tab, NEW fd \in LowestFree(tab)
  PROVE  fd \in Fds /\ tab[fd] = "closed"
BY DEF LowestFree

\* The entry visited is an entry of the table, of the right type.
LEMMA CurrentType ==
  ASSUME ProxyAssumption, TypeOK, pc # "accept"
  PROVE  n \in Slots /\ current \in Connection
BY DEF TypeOK, current, IndexAt, Slots, ProxyAssumption

\* Where the loop goes after the visit of an entry keeps the types.
LEMMA NextConnectionType ==
  ASSUME ProxyAssumption, TypeOK, pc # "accept", NextConnection
  PROVE  /\ pc' \in {"serve", "select"}
         /\ n' \in IndexAt(pc')
         /\ readfds' \subseteq Bits
         /\ writefds' \subseteq Bits
BY CurrentType
   DEF NextConnection, TypeOK, Slots, ProxyAssumption, ready, IndexAt

\* Where the loop goes after a passive socket keeps the types.
LEMMA NextPassiveType ==
  ASSUME ProxyAssumption, TypeOK, pc = "accept", NextPassive
  PROVE  /\ pc' \in {"accept", "serve"}
         /\ n' \in IndexAt(pc')
BY DEF NextPassive, TypeOK, Slots, ProxyAssumption, IndexAt

\* Closing descriptors keeps the type of the kernel's table.
LEMMA CloseType ==
  ASSUME NEW tab \in [Fds -> Kinds], NEW S
  PROVE  Close(tab, S) \in [Fds -> Kinds]
BY DEF Close, Kinds

\* Only the entry visited changes, to one that holds what it held or
\* descriptors that were closed, and nobody else's descriptor is touched: the
\* ownership of descriptors is kept.
LEMMA Replace ==
  ASSUME ProxyAssumption, IInv, pc # "accept",
         NEW c \in Connection, Staged(c),
         connections' = [connections EXCEPT ![n] = c],
         sockets' \in [Fds -> Kinds],
         OpenFor(c, sockets'),
         \A fd \in Held(c) :
           fd <= 0 \/ fd \in Held(current) \/ sockets[fd] = "closed",
         \A fd \in Fds :
           sockets[fd] = "closed" \/ fd \in Held(current)
             \/ sockets'[fd] = sockets[fd]
  PROVE  /\ connections' \in [Slots -> Connection]
         /\ AllStaged'
         /\ OwnsOpen'
         /\ OwnersDiffer'
PROOF
<1>1. n \in Slots /\ current \in Connection
  BY CurrentType DEF IInv
<1>2. connections \in [Slots -> Connection] /\ sockets \in [Fds -> Kinds]
  BY DEF IInv, TypeOK
<1>3. connections'[n] = c /\ \A t \in Slots \ {n} : connections'[t] = connections[t]
  BY <1>1, <1>2
<1>4. connections' \in [Slots -> Connection]
  BY <1>1, <1>2
<1>5. AllStaged'
  BY <1>3 DEF IInv, AllStaged, Staged
<1>6. \A t \in Slots :
        /\ connections[t] \in Connection
        /\ OpenFor(connections[t], sockets)
  BY <1>2 DEF IInv, OwnsOpen, OpenFor
<1>7. ASSUME NEW t \in Slots \ {n}, NEW fd \in Held(connections[t]), fd > 0
      PROVE  fd \in Fds /\ sockets[fd] # "closed" /\ fd \notin Held(current)
  <2>1. connections[t] \in Connection /\ OpenFor(connections[t], sockets)
    BY <1>6
  <2>2. OpenFor(current, sockets)
    BY <1>1, <1>6 DEF current
  <2>3. fd \in Fds /\ sockets[fd] # "closed"
    BY <1>7, <2>1, ProxyAssumption
       DEF Held, OpenFor, Fds, Connection, ProxyAssumption
  <2>4. fd \notin Held(current)
    BY <1>1, <1>7, <2>1, <2>2 DEF IInv, OwnersDiffer, Held, OpenFor, current, Connection
  <2> QED BY <2>3, <2>4
<1>8. ASSUME NEW t \in Slots \ {n}
      PROVE  OpenFor(connections[t], sockets')
  BY <1>6, <1>7 DEF Held, OpenFor, Connection
<1>9. OwnsOpen'
  BY <1>3, <1>8 DEF OwnsOpen, OpenFor
<1>10. ASSUME NEW t \in Slots \ {n}, NEW fd \in Held(connections[t]), fd > 0
       PROVE  fd \notin Held(c)
  <2>1. fd \in Fds /\ sockets[fd] # "closed" /\ fd \notin Held(current)
    BY <1>7, <1>10
  <2>2. ~(fd <= 0)
    BY <2>1 DEF Fds
  <2> QED BY <2>1, <2>2
<1>11. OwnersDiffer'
  <2> SUFFICES ASSUME NEW s \in Slots, NEW t \in Slots, s # t
      PROVE  /\ connections'[s].client_socket # 0 =>
                  connections'[s].client_socket # connections'[t].client_socket
             /\ connections'[s].server_socket # 0 =>
                  connections'[s].server_socket # connections'[t].server_socket
             /\ connections'[s].doh_socket > 0 =>
                  connections'[s].doh_socket # connections'[t].doh_socket
    BY DEF OwnersDiffer
  <2>1. CASE s # n /\ t # n
    BY <1>3, <2>1 DEF IInv, OwnersDiffer
  <2>2. CASE s = n
    BY <1>3, <1>6, <1>10, <2>2 DEF Held, Connection
  <2>3. CASE t = n
    BY <1>3, <1>6, <1>10, <2>3 DEF Held, Connection
  <2> QED BY <2>1, <2>2, <2>3
<1> QED BY <1>4, <1>5, <1>9, <1>11

-----------------------------------------------------------------------------
(* The ways a visit ends *)

\* A handler that leaves the entry as c, with descriptors opened or closed as
\* lemma Replace allows, keeps the invariant.
LEMMA LeaveKeeps ==
  ASSUME ProxyAssumption, IInv, pc # "accept",
         NEW c \in Connection, Staged(c),
         NEW rd \in SUBSET Bits, NEW wr \in SUBSET Bits,
         Leave(c, rd, wr),
         sockets' \in [Fds -> Kinds], maxSocket' \in 0 .. MaxFd,
         OpenFor(c, sockets'),
         \A fd \in Held(c) :
           fd <= 0 \/ fd \in Held(current) \/ sockets[fd] = "closed",
         \A fd \in Fds :
           sockets[fd] = "closed" \/ fd \in Held(current)
             \/ sockets'[fd] = sockets[fd]
  PROVE  IInv'
PROOF
<1>1. connections' = [connections EXCEPT ![n] = c] /\ NextConnection
  BY DEF Leave
<1>2. /\ connections' \in [Slots -> Connection]
      /\ AllStaged' /\ OwnsOpen' /\ OwnersDiffer'
  BY <1>1, Replace
<1>3. pc' \in {"serve", "select"} /\ n' \in IndexAt(pc')
      /\ readfds' \subseteq Bits /\ writefds' \subseteq Bits
  BY <1>1, NextConnectionType DEF IInv
<1>4. TypeOK'
  BY <1>2, <1>3 DEF TypeOK, Leave, IInv, Kinds
<1> QED BY <1>2, <1>3, <1>4 DEF IInv, InUse

\* The special case of a handler that opens and closes nothing.
LEMMA LeaveOpenKeeps ==
  ASSUME ProxyAssumption, IInv, pc # "accept",
         NEW c \in Connection, Staged(c),
         c.client_socket = current.client_socket,
         c.server_socket = current.server_socket,
         c.doh_socket = current.doh_socket,
         NEW rd \in SUBSET Bits, NEW wr \in SUBSET Bits,
         LeaveOpen(c, rd, wr)
  PROVE  IInv'
PROOF
<1>1. Leave(c, rd, wr) /\ sockets' = sockets /\ maxSocket' = maxSocket
  BY DEF LeaveOpen
<1>2. sockets \in [Fds -> Kinds] /\ maxSocket \in 0 .. MaxFd
  BY DEF IInv, TypeOK
<1>3. Held(c) = Held(current)
  BY DEF Held
<1>4. OpenFor(c, sockets)
  BY CurrentType DEF IInv, OwnsOpen, OpenFor, current
<1> QED BY <1>1, <1>2, <1>3, <1>4, LeaveKeeps

\* The first half of a visit, which opens and closes nothing.
LEMMA ProceedKeeps ==
  ASSUME ProxyAssumption, IInv, pc # "accept",
         NEW c \in Connection, Staged(c), c.client_socket # 0,
         c.client_socket = current.client_socket,
         c.server_socket = current.server_socket,
         c.doh_socket = current.doh_socket,
         NEW rd \in SUBSET Bits, NEW wr \in SUBSET Bits,
         Proceed(c, rd, wr)
  PROVE  IInv'
PROOF
<1>1. /\ connections' = [connections EXCEPT ![n] = c]
      /\ sockets' = sockets /\ n' = n /\ pc' = "proceed"
  BY DEF Proceed
<1>2. sockets \in [Fds -> Kinds] /\ n \in Slots /\ Held(c) = Held(current)
  BY CurrentType DEF IInv, TypeOK, Held
<1>3. OpenFor(c, sockets)
  BY CurrentType DEF IInv, OwnsOpen, OpenFor, current
<1>4. /\ connections' \in [Slots -> Connection]
      /\ AllStaged' /\ OwnsOpen' /\ OwnersDiffer'
  BY <1>1, <1>2, <1>3, Replace
<1>5. TypeOK'
  BY <1>1, <1>2, <1>4 DEF TypeOK, Proceed, IInv, ready, IndexAt
<1>6. InUse'
  BY <1>1, <1>2 DEF InUse, current, IInv, TypeOK
<1> QED BY <1>4, <1>5, <1>6 DEF IInv

\* closeAll closes the descriptors of the entry it clears, and those only.
LEMMA CloseAllKeeps ==
  ASSUME ProxyAssumption, IInv, pc # "accept", closeAll
  PROVE  IInv'
PROOF
<1>1. /\ connections' = [connections EXCEPT ![n] = NoConnection]
      /\ sockets' = Close(sockets, Held(current)) /\ NextConnection
  BY DEF closeAll, Held, Close
<1>2. NoConnection \in Connection /\ Staged(NoConnection)
  BY DEF NoConnection, Connection, Staged, ProxyAssumption
<1>3. sockets' \in [Fds -> Kinds]
  BY <1>1, CloseType DEF IInv, TypeOK
<1>4. OpenFor(NoConnection, sockets')
  BY DEF OpenFor, NoConnection
<1>5. \A fd \in Held(NoConnection) : fd <= 0
  BY DEF Held, NoConnection
<1>6. \A fd \in Fds : fd \in Held(current) \/ sockets'[fd] = sockets[fd]
  BY <1>1 DEF Close
<1>7. /\ connections' \in [Slots -> Connection]
      /\ AllStaged' /\ OwnsOpen' /\ OwnersDiffer'
  BY <1>1, <1>2, <1>3, <1>4, <1>5, <1>6, Replace
<1>8. pc' \in {"serve", "select"} /\ n' \in IndexAt(pc')
      /\ readfds' \subseteq Bits /\ writefds' \subseteq Bits
  BY <1>1, NextConnectionType DEF IInv
<1>9. concurrent' \in Nat
  BY DEF closeAll, IInv, TypeOK
<1>10. TypeOK'
  BY <1>3, <1>7, <1>8, <1>9 DEF TypeOK, closeAll, IInv, Kinds
<1> QED BY <1>7, <1>8, <1>10 DEF IInv, InUse

-----------------------------------------------------------------------------
(* Every action keeps the invariant *)

\* The initial state satisfies it.
LEMMA InitInv == ASSUME ProxyAssumption, Init PROVE IInv
PROOF
<1>1. NoConnection \in Connection /\ Staged(NoConnection)
  BY DEF NoConnection, Connection, Staged, ProxyAssumption
<1>2. TypeOK
  BY <1>1 DEF Init, TypeOK, Kinds, Slots, IndexAt, ProxyAssumption
<1>3. OwnsOpen /\ OwnersDiffer
  BY DEF Init, OwnsOpen, OwnersDiffer, NoConnection
<1>4. AllStaged /\ InUse
  BY <1>1 DEF Init, AllStaged, InUse
<1> QED BY <1>2, <1>3, <1>4 DEF IInv

\* The steps of the loop itself.
LEMMA LoopKeeps ==
  ASSUME ProxyAssumption, IInv,
         Select \/ SelectFails \/ NoNewConnection \/ SkipConnection
  PROVE  IInv'
PROOF
<1>1. CASE Select
  <2>1. TypeOK'
    BY <1>1 DEF Select, TypeOK, IInv, table, IndexAt, ProxyAssumption
  <2> QED BY <1>1, <2>1
       DEF Select, IInv, table, OwnsOpen, OwnersDiffer, AllStaged, Staged, InUse
<1>2. CASE SelectFails
  BY <1>2 DEF SelectFails, vars, table, ready, loop, IInv, TypeOK, OwnsOpen,
              OwnersDiffer, AllStaged, Staged, InUse, current
<1>3. CASE NoNewConnection
  <2>1. TypeOK'
    BY <1>3, NextPassiveType DEF NoNewConnection, TypeOK, IInv, table, ready
  <2> QED BY <1>3, <2>1, NextPassiveType
       DEF NoNewConnection, IInv, table, OwnsOpen, OwnersDiffer, AllStaged,
           Staged, InUse
<1>4. CASE SkipConnection
  <2>1. TypeOK'
    BY <1>4, NextConnectionType DEF SkipConnection, TypeOK, IInv, table
  <2> QED BY <1>4, <2>1, NextConnectionType
       DEF SkipConnection, IInv, table, OwnsOpen, OwnersDiffer, AllStaged,
           Staged, InUse
<1> QED BY <1>1, <1>2, <1>3, <1>4

\* A client is accepted, whether or not an entry is free for it.
LEMMA HandleConnectionKeeps ==
  ASSUME ProxyAssumption, IInv, HandleConnection
  PROVE  IInv'
PROOF
<1>1. PICK fd \in LowestFree(sockets) :
        /\ sockets' = [sockets EXCEPT ![fd] = "client"]
        /\ connections' = [s \in Slots |->
             IF s \in FirstFreeSlot
               THEN [NoConnection EXCEPT !.client_socket = fd]
               ELSE connections[s]]
        /\ currentfds' = currentfds \cup {fd}
        /\ maxSocket' = Larger(maxSocket, fd)
  BY DEF HandleConnection
<1>2. fd \in Fds /\ sockets[fd] = "closed" /\ fd # 0
  BY LowestFreeClosed DEF Fds
<1> DEFINE new == [NoConnection EXCEPT !.client_socket = fd]
<1>3. new \in Connection /\ Staged(new)
  <2>1. new.client_socket = fd /\ ~new.connected /\ ~new.connection_informed
        /\ ~new.stay_connected /\ ~new.stay_connected_setted_up
    BY DEF NoConnection
  <2>2. NoConnection \in Connection /\ fd \in 0 .. MaxFd
    BY <1>2 DEF NoConnection, Connection, ProxyAssumption, Fds
  <2>3. new \in Connection
    BY <2>2 DEF Connection
  <2> QED BY <1>2, <2>1, <2>3 DEF Staged
<1>4. /\ connections \in [Slots -> Connection]
      /\ \A s \in Slots : connections[s] \in Connection
  BY DEF IInv, TypeOK
<1>5. \A s, t \in FirstFreeSlot : s = t
  BY DEF FirstFreeSlot, Slots
<1>6. \A s \in Slots : OpenFor(connections[s], sockets)
  BY DEF IInv, OwnsOpen, OpenFor
<1>7. \A s \in Slots : fd \notin Held(connections[s])
  BY <1>2, <1>4, <1>6 DEF OpenFor, Held, Connection, Fds
<1>8. \A s \in Slots :
        \/ s \in FirstFreeSlot /\ connections'[s] = new
        \/ s \notin FirstFreeSlot /\ connections'[s] = connections[s]
  BY <1>1
<1>9. TypeOK'
  <2>1. connections' \in [Slots -> Connection]
    BY <1>1, <1>3, <1>4
  <2>2. sockets' \in [Fds -> Kinds] /\ currentfds' \subseteq Bits
    BY <1>1, <1>2 DEF IInv, TypeOK, Kinds, Bits
  <2>3. maxSocket' \in 0 .. MaxFd /\ concurrent' \in Nat
    BY <1>1, <1>2 DEF HandleConnection, Larger, Fds, IInv, TypeOK, ProxyAssumption
  <2>4. pc' \in {"accept", "serve"}
        /\ n' \in IndexAt(pc')
    BY NextPassiveType DEF HandleConnection, IInv
  <2> QED BY <2>1, <2>2, <2>3, <2>4
       DEF HandleConnection, IInv, TypeOK, ready
<1>10. OwnsOpen'
  <2> SUFFICES ASSUME NEW s \in Slots PROVE OpenFor(connections'[s], sockets')
    BY DEF OwnsOpen, OpenFor
  <2>1. CASE s \in FirstFreeSlot
    BY <1>1, <1>2, <1>8, <2>1
       DEF OpenFor, NoConnection, IInv, TypeOK
  <2>2. CASE s \notin FirstFreeSlot
    <3>1. connections'[s] = connections[s]
      BY <1>8, <2>2
    <3>2. \A g \in Fds : g # fd => sockets'[g] = sockets[g]
      BY <1>1 DEF IInv, TypeOK
    <3>3. \A g \in Held(connections[s]) : g > 0 => g \in Fds /\ g # fd
      BY <1>4, <1>7, ProxyAssumption
         DEF Held, Connection, Fds, ProxyAssumption
    <3> QED BY <1>4, <1>6, <3>1, <3>2, <3>3 DEF OpenFor, Held, Connection
  <2> QED BY <2>1, <2>2
<1>11. OwnersDiffer'
  <2> SUFFICES ASSUME NEW s \in Slots, NEW t \in Slots, s # t
      PROVE  /\ connections'[s].client_socket # 0 =>
                  connections'[s].client_socket # connections'[t].client_socket
             /\ connections'[s].server_socket # 0 =>
                  connections'[s].server_socket # connections'[t].server_socket
             /\ connections'[s].doh_socket > 0 =>
                  connections'[s].doh_socket # connections'[t].doh_socket
    BY DEF OwnersDiffer
  <2>1. ~(s \in FirstFreeSlot /\ t \in FirstFreeSlot)
    BY <1>5
  <2>2. CASE s \notin FirstFreeSlot /\ t \notin FirstFreeSlot
    BY <1>8, <2>2 DEF IInv, OwnersDiffer
  <2>3. CASE s \in FirstFreeSlot /\ t \notin FirstFreeSlot
    BY <1>7, <1>8, <2>3 DEF NoConnection, Held
  <2>4. CASE s \notin FirstFreeSlot /\ t \in FirstFreeSlot
    BY <1>4, <1>7, <1>8, <2>4 DEF NoConnection, Held, Connection
  <2> QED BY <2>1, <2>2, <2>3, <2>4
<1>12. AllStaged'
  BY <1>3, <1>8 DEF AllStaged, IInv, Staged
<1>13. InUse'
  BY NextPassiveType DEF HandleConnection, IInv, InUse
<1> QED BY <1>9, <1>10, <1>11, <1>12, <1>13 DEF IInv

\* What is known when an entry in use is visited.
LEMMA CurrentFacts ==
  ASSUME ProxyAssumption, IInv, pc # "accept", current.client_socket # 0
  PROVE  /\ current \in Connection /\ Staged(current)
         /\ current.client_socket \in Fds
         /\ current.server_socket \in {0} \cup Fds
         /\ current.doh_socket \in {-1, 0} \cup Fds
         /\ BitsOf(current) \subseteq {0} \cup Bits
         /\ OpenFor(current, sockets)
         /\ currentfds \in SUBSET Bits /\ current_write_fds \in SUBSET Bits
         /\ writefds \in SUBSET Bits
         /\ sockets \in [Fds -> Kinds] /\ maxSocket \in 0 .. MaxFd
PROOF
<1>1. n \in Slots /\ current \in Connection
  BY CurrentType DEF IInv
<1>2. Staged(current) /\ OpenFor(current, sockets)
  BY <1>1 DEF IInv, AllStaged, OwnsOpen, OpenFor, current
<1>3. /\ current.client_socket \in Fds
      /\ current.server_socket \in {0} \cup Fds
      /\ current.doh_socket \in {-1, 0} \cup Fds
  BY <1>1 DEF Connection, Fds, ProxyAssumption
<1>4. BitsOf(current) \subseteq {0} \cup Bits
  BY <1>3 DEF BitsOf, Bit, Bits
<1> QED BY <1>1, <1>2, <1>3, <1>4 DEF IInv, TypeOK

\* The final message, whether or not it ends the connection.
LEMMA FinalMessageKeeps ==
  ASSUME ProxyAssumption, IInv, FinalMessageSent \/ FinalMessagePending
  PROVE  IInv'
PROOF
<1>1. pc # "accept"
  BY DEF FinalMessageSent, FinalMessagePending, Serving
<1>2. CASE FinalMessageSent
  BY <1>1, <1>2, CloseAllKeeps DEF FinalMessageSent
<1>3. CASE FinalMessagePending
  <2>1. current.client_socket # 0
    BY <1>3 DEF FinalMessagePending, Serving
  <2> QED BY <1>1, <1>3, <2>1, CurrentFacts, LeaveOpenKeeps
       DEF FinalMessagePending
<1> QED BY <1>2, <1>3

\* What the parser learns changes no descriptor and no stage.
LEMMA ParsedFacts ==
  ASSUME NEW c \in Connection, Staged(c), c.client_socket # 0,
         NEW d \in Parsed(c)
  PROVE  /\ d \in Connection /\ Staged(d)
         /\ d.client_socket = c.client_socket
         /\ d.server_socket = c.server_socket
         /\ d.doh_socket = c.doh_socket
PROOF
<1>1. CASE d = c
  BY <1>1
<1>2. ASSUME NEW h \in {"ip", "name"}, NEW b \in BOOLEAN,
             d = [c EXCEPT !.request = TRUE, !.host = h, !.connect = b]
      PROVE  /\ d \in Connection /\ Staged(d)
             /\ d.client_socket = c.client_socket
             /\ d.server_socket = c.server_socket
             /\ d.doh_socket = c.doh_socket
  <2>1. d \in Connection
    BY <1>2 DEF Connection
  <2>2. /\ d.client_socket = c.client_socket
        /\ d.server_socket = c.server_socket
        /\ d.doh_socket = c.doh_socket
        /\ d.connected = c.connected
        /\ d.connection_informed = c.connection_informed
        /\ d.stay_connected = c.stay_connected
        /\ d.stay_connected_setted_up = c.stay_connected_setted_up
    BY <1>2 DEF Connection
  <2> QED BY <2>1, <2>2 DEF Staged
<1>3. \/ d = c
      \/ \E h \in {"ip", "name"}, b \in BOOLEAN : d = Found(c, h, b)
  BY DEF Parsed
<1> QED BY <1>1, <1>2, <1>3 DEF Found

\* The interest sets after prepareFinalMessage are sets of bits.
LEMMA FinalFdsType ==
  ASSUME NEW c \in Connection, c.client_socket \in Fds,
         NEW rd \in SUBSET Bits, NEW wr \in SUBSET Bits
  PROVE  FinalReadFds(c, rd) \in SUBSET Bits /\ FinalWriteFds(c, wr) \in SUBSET Bits
BY DEF FinalReadFds, FinalWriteFds, Bits

\* Setting send_final_message changes no descriptor and no stage.
LEMMA FinalFlag ==
  ASSUME NEW c \in Connection, Staged(c), c.client_socket # 0,
         NEW d, d = [c EXCEPT !.send_final_message = TRUE]
  PROVE  /\ d \in Connection /\ Staged(d)
         /\ d.client_socket = c.client_socket
         /\ d.server_socket = c.server_socket
         /\ d.doh_socket = c.doh_socket
PROOF
<1>1. d \in Connection
  BY DEF Connection
<1>2. /\ d.client_socket = c.client_socket
      /\ d.server_socket = c.server_socket
      /\ d.doh_socket = c.doh_socket
      /\ d.connected = c.connected
      /\ d.connection_informed = c.connection_informed
      /\ d.stay_connected = c.stay_connected
      /\ d.stay_connected_setted_up = c.stay_connected_setted_up
  BY DEF Connection
<1> QED BY <1>1, <1>2 DEF Staged

\* handleReadHttpFromUser.
LEMMA ReadRequestKeeps ==
  ASSUME ProxyAssumption, IInv, ReadRequest
  PROVE  IInv'
PROOF
<1>1. pc # "accept" /\ current.client_socket # 0
  BY DEF ReadRequest, ClientSilent, ClientReadError, ClientEof, ClientData,
         ClientBadRequest, Requesting, Serving
<1>2. /\ current \in Connection /\ Staged(current)
      /\ current.client_socket \in Fds
      /\ currentfds \in SUBSET Bits /\ current_write_fds \in SUBSET Bits
  BY <1>1, CurrentFacts
<1>3. CASE ClientSilent
  BY <1>1, <1>2, <1>3, ProceedKeeps DEF ClientSilent
<1>4. CASE ClientReadError
  <2> DEFINE d == [current EXCEPT !.send_final_message = TRUE]
  <2>1. /\ d \in Connection /\ Staged(d)
        /\ d.client_socket = current.client_socket
        /\ d.server_socket = current.server_socket
        /\ d.doh_socket = current.doh_socket
    BY <1>1, <1>2, FinalFlag
  <2>2. FinalReadFds(current, currentfds) \in SUBSET Bits
    BY <1>2, FinalFdsType
  <2>3. FinalWriteFds(current, FinalReadFds(current, currentfds)) \in SUBSET Bits
    BY <1>2, <2>2, FinalFdsType
  <2>4. Proceed(d, FinalWriteFds(current, FinalReadFds(current, currentfds)),
                current_write_fds)
    BY <1>4 DEF ClientReadError
  <2> HIDE DEF d
  <2> QED BY <1>1, <1>2, <2>1, <2>3, <2>4, ProceedKeeps
<1>5. CASE ClientEof
  <2> DEFINE d == [current EXCEPT !.client_read_closed = TRUE]
  <2>1. /\ d \in Connection
        /\ d.client_socket = current.client_socket
        /\ d.server_socket = current.server_socket
        /\ d.doh_socket = current.doh_socket
        /\ d.connected = current.connected
        /\ d.connection_informed = current.connection_informed
        /\ d.stay_connected = current.stay_connected
        /\ d.stay_connected_setted_up = current.stay_connected_setted_up
    BY <1>2 DEF Connection
  <2>2. Staged(d)
    BY <1>1, <1>2, <2>1 DEF Staged
  <2>3. Proceed(d, currentfds \ {current.client_socket}, current_write_fds)
    BY <1>5 DEF ClientEof
  <2>4. currentfds \ {current.client_socket} \in SUBSET Bits
    BY <1>2
  <2> HIDE DEF d
  <2> QED BY <1>1, <1>2, <2>1, <2>2, <2>3, <2>4, ProceedKeeps
<1>6. CASE ClientData
  <2>1. PICK d \in Parsed(current) : Proceed(d, currentfds, current_write_fds)
    BY <1>6 DEF ClientData
  <2>2. /\ d \in Connection /\ Staged(d)
        /\ d.client_socket = current.client_socket
        /\ d.server_socket = current.server_socket
        /\ d.doh_socket = current.doh_socket
    BY <1>1, <1>2, ParsedFacts
  <2> QED BY <1>1, <1>2, <2>1, <2>2, ProceedKeeps
<1>7. CASE ClientBadRequest
  <2>1. PICK c \in Parsed(current) :
          Proceed([c EXCEPT !.send_final_message = TRUE],
                  FinalReadFds(c, currentfds),
                  FinalWriteFds(c, current_write_fds))
    BY <1>7 DEF ClientBadRequest
  <2>2. /\ c \in Connection /\ Staged(c)
        /\ c.client_socket = current.client_socket
        /\ c.server_socket = current.server_socket
        /\ c.doh_socket = current.doh_socket
    BY <1>1, <1>2, ParsedFacts
  <2>3. /\ FinalReadFds(c, currentfds) \in SUBSET Bits
        /\ FinalWriteFds(c, current_write_fds) \in SUBSET Bits
    BY <1>2, <2>2, FinalFdsType
  <2> DEFINE d == [c EXCEPT !.send_final_message = TRUE]
  <2>4. /\ d \in Connection /\ Staged(d)
        /\ d.client_socket = c.client_socket
        /\ d.server_socket = c.server_socket
        /\ d.doh_socket = c.doh_socket
    BY <1>1, <2>2, FinalFlag
  <2>5. Proceed(d, FinalReadFds(c, currentfds),
                FinalWriteFds(c, current_write_fds))
    BY <2>1
  <2> HIDE DEF d
  <2> QED BY <1>1, <2>2, <2>3, <2>4, <2>5, ProceedKeeps
<1> QED BY <1>3, <1>4, <1>5, <1>6, <1>7 DEF ReadRequest

\* prepareFinalMessage with a 500, when a descriptor of the entry may have been
\* replaced in the same visit.
LEMMA InternalServerErrorKeeps ==
  ASSUME ProxyAssumption, IInv, pc # "accept",
         NEW c \in Connection, Staged(c), c.client_socket \in Fds,
         NEW rd \in SUBSET Bits, NEW wr \in SUBSET Bits,
         InternalServerError(c, rd, wr),
         sockets' \in [Fds -> Kinds], maxSocket' \in 0 .. MaxFd,
         OpenFor(c, sockets'),
         \A fd \in Held(c) :
           fd <= 0 \/ fd \in Held(current) \/ sockets[fd] = "closed",
         \A fd \in Fds :
           sockets[fd] = "closed" \/ fd \in Held(current)
             \/ sockets'[fd] = sockets[fd]
  PROVE  IInv'
PROOF
<1> DEFINE d == [c EXCEPT !.send_final_message = TRUE]
<1>1. c.client_socket # 0
  BY DEF Fds
<1>2. /\ d \in Connection /\ Staged(d)
      /\ d.client_socket = c.client_socket
      /\ d.server_socket = c.server_socket
      /\ d.doh_socket = c.doh_socket
  BY <1>1, FinalFlag
<1>3. FinalReadFds(c, rd) \in SUBSET Bits /\ FinalWriteFds(c, wr) \in SUBSET Bits
  BY FinalFdsType
<1>4. Leave(d, FinalReadFds(c, rd), FinalWriteFds(c, wr))
  BY DEF InternalServerError
<1> HIDE DEF d
<1>5. OpenFor(d, sockets') /\ Held(d) = Held(c)
  BY <1>2 DEF OpenFor, Held
<1> QED BY <1>2, <1>3, <1>4, <1>5, LeaveKeeps

\* No server could be reached: nothing was opened that is still open.
LEMMA UnreachableKeeps ==
  ASSUME ProxyAssumption, IInv, pc # "accept", current.client_socket # 0,
         NEW rd \in SUBSET Bits, NEW wr \in SUBSET Bits,
         ServerUnreachable(current, rd, wr)
  PROVE  IInv'
BY CurrentFacts, InternalServerErrorKeeps DEF ServerUnreachable

\* The server socket was closed before, and the DoH socket the entry held is
\* closed.
LEMMA ReachedKeeps ==
  ASSUME ProxyAssumption, IInv, pc # "accept", current.client_socket # 0,
         ~current.connected,
         NEW rd \in SUBSET Bits, NEW wr \in SUBSET Bits,
         ServerReached(current, rd, wr)
  PROVE  IInv'
PROOF
<1>1. PICK fd \in LowestFree(sockets) :
    /\ sockets' = [Close(sockets, {current.doh_socket}) EXCEPT ![fd] = "server"]
    /\ maxSocket' = Larger(maxSocket, fd)
    /\ Leave([current EXCEPT !.server_socket = fd, !.connected = TRUE,
                             !.connection_informed = ~current.connect,
                             !.doh_socket = 0],
             rd \ {Bit(current.doh_socket)},
             wr \cup {IF current.connect THEN current.client_socket ELSE fd})
  BY DEF ServerReached
<1> DEFINE c == [current EXCEPT !.server_socket = fd, !.connected = TRUE,
                   !.connection_informed = ~current.connect, !.doh_socket = 0]
           wr2 == wr \cup {IF current.connect THEN current.client_socket ELSE fd}
<1>2. fd \in Fds /\ sockets[fd] = "closed" /\ fd # 0
  BY LowestFreeClosed DEF Fds
<1>3. /\ current \in Connection /\ Staged(current)
      /\ current.client_socket \in Fds
      /\ OpenFor(current, sockets)
      /\ sockets \in [Fds -> Kinds] /\ maxSocket \in 0 .. MaxFd
  BY CurrentFacts
<1>4. /\ c \in Connection
      /\ c.client_socket = current.client_socket
      /\ c.server_socket = fd /\ c.doh_socket = 0 /\ c.connected
      /\ c.stay_connected = current.stay_connected
      /\ c.stay_connected_setted_up = current.stay_connected_setted_up
  <2>1. fd \in 0 .. MaxFd /\ 0 \in -1 .. MaxFd
    BY <1>2 DEF Fds, ProxyAssumption
  <2> DEFINE informed == ~current.connect
  <2>2. informed \in BOOLEAN
    OBVIOUS
  <2> HIDE DEF informed
  <2>3. [current EXCEPT !.server_socket = fd, !.connected = TRUE,
           !.connection_informed = informed, !.doh_socket = 0] \in Connection
    BY <1>3, <2>1, <2>2 DEF Connection
  <2>4. c \in Connection
    BY <2>3 DEF informed
  <2> QED BY <1>3, <2>4 DEF Connection
<1>5. ~current.stay_connected
  BY <1>3 DEF Staged
<1>6. Staged(c)
  BY <1>2, <1>3, <1>4, <1>5 DEF Staged
<1>7. /\ sockets' \in [Fds -> Kinds]
      /\ sockets'[fd] = "server"
      /\ \A g \in Fds : g # fd /\ g # current.doh_socket => sockets'[g] = sockets[g]
  BY <1>1, <1>2, <1>3 DEF Close, Kinds
<1>8. maxSocket' \in 0 .. MaxFd
  BY <1>1, <1>2, <1>3 DEF Larger, Fds, ProxyAssumption
<1>9. current.client_socket # fd /\ current.client_socket # current.doh_socket
  BY <1>2, <1>3 DEF OpenFor, Fds
<1>10. OpenFor(c, sockets')
  BY <1>3, <1>4, <1>7, <1>9 DEF OpenFor
<1>11. wr2 \in SUBSET Bits /\ rd \ {Bit(current.doh_socket)} \in SUBSET Bits
  BY <1>2, <1>3 DEF Bits
<1>12. \A g \in Held(c) : g <= 0 \/ g \in Held(current) \/ sockets[g] = "closed"
  BY <1>2, <1>4 DEF Held
<1>13. \A g \in Fds : sockets[g] = "closed" \/ g \in Held(current)
                       \/ sockets'[g] = sockets[g]
  BY <1>2, <1>7 DEF Held
<1>14. Leave(c, rd \ {Bit(current.doh_socket)}, wr2)
  BY <1>1
<1> HIDE DEF c, wr2
<1> QED BY <1>4, <1>6, <1>7, <1>8, <1>10, <1>11, <1>12, <1>13, <1>14, LeaveKeeps

\* What connectToDoH answers and does to the kernel's table.
LEMMA ConnectFacts ==
  ASSUME NEW tab \in [Fds -> Kinds], NEW o \in connectToDoH(tab)
  PROVE  /\ o.sockets \in [Fds -> Kinds]
         /\ \/ o.socket = -1
            \/ /\ o.socket \in Fds /\ tab[o.socket] = "closed"
               /\ o.sockets[o.socket] = "doh"
         /\ \A fd \in Fds : tab[fd] = "closed" \/ o.sockets[fd] = tab[fd]
         /\ \A fd \in Fds : o.sockets[fd] \in {tab[fd], "doh"}
PROOF
<1>1. CASE LowestFree(tab) = {}
  BY <1>1 DEF connectToDoH
<1>2. CASE LowestFree(tab) # {}
  <2>1. PICK fd \in LowestFree(tab) :
          /\ o.sockets = [tab EXCEPT ![fd] = "doh"]
          /\ o.socket \in {fd, -1}
    BY <1>2 DEF connectToDoH
  <2>2. fd \in Fds /\ tab[fd] = "closed"
    BY LowestFreeClosed
  <2> QED BY <2>1, <2>2 DEF Kinds
<1> QED BY <1>1, <1>2

\* The first visit of an entry with a name: the socket to the DoH server.
LEMMA StartDoHKeeps ==
  ASSUME ProxyAssumption, IInv, StartDoH, current.client_socket # 0
  PROVE  IInv'
PROOF
<1>1. pc # "accept" /\ current.doh_socket = 0
  BY DEF StartDoH, Resolving, Proceeding
<1>2. /\ current \in Connection /\ Staged(current)
      /\ current.client_socket \in Fds
      /\ OpenFor(current, sockets)
      /\ currentfds \in SUBSET Bits /\ current_write_fds \in SUBSET Bits
      /\ sockets \in [Fds -> Kinds] /\ maxSocket \in 0 .. MaxFd
  BY <1>1, CurrentFacts
<1>3. PICK o \in connectToDoH(sockets) :
        LET c == [current EXCEPT !.tried_direct = TRUE, !.doh_socket = o.socket]
        IN  /\ sockets' = o.sockets
            /\ \/ /\ o.socket > 0
                  /\ maxSocket' = Larger(maxSocket, o.socket)
                  /\ Leave(c, currentfds, current_write_fds \cup {o.socket})
               \/ /\ o.socket = -1
                  /\ InternalServerError(c, currentfds, current_write_fds)
                  /\ UNCHANGED maxSocket
  BY DEF StartDoH
<1>4. /\ o.sockets \in [Fds -> Kinds]
      /\ \/ o.socket = -1
         \/ /\ o.socket \in Fds /\ sockets[o.socket] = "closed"
            /\ o.sockets[o.socket] = "doh"
      /\ \A fd \in Fds : sockets[fd] = "closed" \/ o.sockets[fd] = sockets[fd]
  BY <1>2, ConnectFacts
<1> DEFINE c == [current EXCEPT !.tried_direct = TRUE, !.doh_socket = o.socket]
<1>5. o.socket \in -1 .. MaxFd
  BY <1>4 DEF Fds, ProxyAssumption
<1>6. /\ c \in Connection
      /\ c.client_socket = current.client_socket
      /\ c.server_socket = current.server_socket
      /\ c.doh_socket = o.socket
      /\ c.connected = current.connected
      /\ c.connection_informed = current.connection_informed
      /\ c.stay_connected = current.stay_connected
      /\ c.stay_connected_setted_up = current.stay_connected_setted_up
  BY <1>2, <1>5 DEF Connection
<1>7. Staged(c) /\ c.client_socket \in Fds
  BY <1>2, <1>6 DEF Staged, Fds
<1>8. sockets' \in [Fds -> Kinds]
  BY <1>3, <1>4
<1>9. OpenFor(c, sockets')
  <2>1. \A fd \in Fds : sockets[fd] = "closed" \/ sockets'[fd] = sockets[fd]
    BY <1>3, <1>4
  <2>2. c.client_socket # 0 => sockets'[c.client_socket] = "client"
    BY <1>2, <1>6, <2>1 DEF OpenFor
  <2>3. c.server_socket # 0 => sockets'[c.server_socket] = "server"
    BY <1>2, <1>6, <2>1, ProxyAssumption
       DEF OpenFor, Connection, Fds, ProxyAssumption
  <2>4. c.doh_socket > 0 => sockets'[c.doh_socket] = "doh"
    BY <1>3, <1>4, <1>6
  <2> QED BY <2>2, <2>3, <2>4 DEF OpenFor
<1>10. \A fd \in Held(c) :
         fd <= 0 \/ fd \in Held(current) \/ sockets[fd] = "closed"
  BY <1>4, <1>6 DEF Held
<1>11. \A fd \in Fds : sockets[fd] = "closed" \/ fd \in Held(current)
                         \/ sockets'[fd] = sockets[fd]
  BY <1>3, <1>4
<1>12. CASE /\ o.socket > 0
            /\ maxSocket' = Larger(maxSocket, o.socket)
            /\ Leave(c, currentfds, current_write_fds \cup {o.socket})
  <2>1. o.socket \in Fds
    BY <1>4, <1>12
  <2>2. current_write_fds \cup {o.socket} \in SUBSET Bits
    BY <1>2, <2>1 DEF Bits
  <2>3. maxSocket' \in 0 .. MaxFd
    BY <1>2, <1>12, <2>1 DEF Larger, Fds, ProxyAssumption
  <2> HIDE DEF c
  <2> QED BY <1>1, <1>2, <1>6, <1>7, <1>8, <1>9, <1>10, <1>11, <1>12, <2>2,
             <2>3, LeaveKeeps
<1>13. CASE /\ o.socket = -1
            /\ InternalServerError(c, currentfds, current_write_fds)
            /\ UNCHANGED maxSocket
  <2>1. maxSocket' \in 0 .. MaxFd
    BY <1>2, <1>13
  <2> HIDE DEF c
  <2> QED BY <1>1, <1>2, <1>6, <1>7, <1>8, <1>9, <1>10, <1>11, <1>13, <2>1,
             InternalServerErrorKeeps
<1> QED BY <1>3, <1>12, <1>13

\* The interest sets after the query may just have been sent are sets of bits.
LEMMA AfterSendType ==
  ASSUME ProxyAssumption, IInv, NEW f \in AfterSend
  PROVE  f.rd \in SUBSET Bits /\ f.wr \in SUBSET Bits
BY DEF AfterSend, IInv, TypeOK

\* The socket to the DoH server is closed and another one opened, perhaps with
\* the same number.
LEMMA SwitchFamilyKeeps ==
  ASSUME ProxyAssumption, IInv, SwitchFamily, current.client_socket # 0
  PROVE  IInv'
PROOF
<1>1. pc # "accept"
  BY DEF SwitchFamily, Answered, AwaitingDoH, Resolving, Proceeding
<1>2. /\ current \in Connection /\ Staged(current)
      /\ current.client_socket \in Fds
      /\ current.server_socket \in {0} \cup Fds
      /\ OpenFor(current, sockets)
      /\ sockets \in [Fds -> Kinds] /\ maxSocket \in 0 .. MaxFd
  BY <1>1, CurrentFacts
<1> DEFINE tab == Close(sockets, {current.doh_socket})
<1>3. PICK f \in AfterSend, o \in connectToDoH(tab) :
       /\ sockets' = o.sockets
       /\ maxSocket' = Larger(maxSocket, o.socket)
       /\ Leave([current EXCEPT !.familyFlag = 1, !.doh_socket = o.socket],
                f.rd \ {Bit(o.socket)}, f.wr \cup {Bit(o.socket)})
  BY DEF SwitchFamily
<1>4. /\ tab \in [Fds -> Kinds]
      /\ \A fd \in Fds : fd # current.doh_socket => tab[fd] = sockets[fd]
  BY <1>2, CloseType DEF Close
<1> HIDE DEF tab
<1>5. /\ o.sockets \in [Fds -> Kinds]
      /\ \/ o.socket = -1
         \/ /\ o.socket \in Fds /\ tab[o.socket] = "closed"
            /\ o.sockets[o.socket] = "doh"
      /\ \A fd \in Fds : tab[fd] = "closed" \/ o.sockets[fd] = tab[fd]
  BY <1>4, ConnectFacts
<1> DEFINE c == [current EXCEPT !.familyFlag = 1, !.doh_socket = o.socket]
<1>6. o.socket \in -1 .. MaxFd
  BY <1>5 DEF Fds, ProxyAssumption
<1>7. /\ c \in Connection
      /\ c.client_socket = current.client_socket
      /\ c.server_socket = current.server_socket
      /\ c.doh_socket = o.socket
      /\ c.connected = current.connected
      /\ c.connection_informed = current.connection_informed
      /\ c.stay_connected = current.stay_connected
      /\ c.stay_connected_setted_up = current.stay_connected_setted_up
  BY <1>2, <1>6 DEF Connection
<1>8. Staged(c)
  BY <1>2, <1>7 DEF Staged, Fds
<1>9. sockets' \in [Fds -> Kinds] /\ maxSocket' \in 0 .. MaxFd
  BY <1>2, <1>3, <1>5, <1>6 DEF Larger, ProxyAssumption
<1>10. \A fd \in Fds : sockets[fd] = "closed" \/ fd \in Held(current)
                         \/ sockets'[fd] = sockets[fd]
  BY <1>3, <1>4, <1>5 DEF Held
<1>11. current.client_socket # current.doh_socket
  BY <1>2 DEF OpenFor, Fds
<1>12. current.server_socket # 0 => current.server_socket # current.doh_socket
  BY <1>2 DEF OpenFor, Fds
<1>13. OpenFor(c, sockets')
  <2>1. c.client_socket # 0 => sockets'[c.client_socket] = "client"
    BY <1>2, <1>3, <1>4, <1>5, <1>7, <1>11 DEF OpenFor
  <2>2. c.server_socket # 0 => sockets'[c.server_socket] = "server"
    BY <1>2, <1>3, <1>4, <1>5, <1>7, <1>12 DEF OpenFor
  <2>3. c.doh_socket > 0 => sockets'[c.doh_socket] = "doh"
    BY <1>3, <1>5, <1>7
  <2> QED BY <2>1, <2>2, <2>3 DEF OpenFor
<1>14. \A fd \in Held(c) :
         fd <= 0 \/ fd \in Held(current) \/ sockets[fd] = "closed"
  BY <1>4, <1>5, <1>7 DEF Held
<1>15. f.rd \ {Bit(o.socket)} \in SUBSET Bits /\ f.wr \cup {Bit(o.socket)} \in SUBSET Bits
  BY <1>5, AfterSendType DEF Bit, Bits
<1>16. Leave(c, f.rd \ {Bit(o.socket)}, f.wr \cup {Bit(o.socket)})
  BY <1>3
<1> HIDE DEF c
<1> QED BY <1>1, <1>7, <1>8, <1>9, <1>10, <1>13, <1>14, <1>15, <1>16, LeaveKeeps

\* DoHHandlingZone.
LEMMA ZoneKeeps ==
  ASSUME ProxyAssumption, IInv, DoHHandlingZone
  PROVE  IInv'
PROOF
<1>1. pc = "proceed" /\ ~current.connected
  BY DEF DoHHandlingZone, ConnectDirect, StartDoH, QuerySent, DoHPending,
         SwitchFamily, AnswerReachesServer, AnswerGivesUp, Answered,
         AwaitingDoH, Resolving, Proceeding
<1>2. pc # "accept" /\ current.client_socket # 0
  BY <1>1 DEF IInv, InUse
<1>3. /\ current \in Connection /\ Staged(current)
      /\ currentfds \in SUBSET Bits /\ current_write_fds \in SUBSET Bits
      /\ writefds \in SUBSET Bits
  BY <1>2, CurrentFacts
<1>4. CASE ConnectDirect
  BY <1>1, <1>2, <1>3, <1>4, ReachedKeeps, UnreachableKeeps DEF ConnectDirect
<1>5. CASE StartDoH
  BY <1>2, <1>5, StartDoHKeeps
<1>6. CASE QuerySent
  <2>1. /\ currentfds \cup {current.doh_socket} \in SUBSET Bits
        /\ current_write_fds \ {current.doh_socket} \in SUBSET Bits
    BY <1>3, <1>6 DEF QuerySent
  <2> QED BY <1>2, <1>3, <1>6, <2>1, LeaveOpenKeeps DEF QuerySent
<1>7. CASE DoHPending
  BY <1>2, <1>3, <1>7, LeaveOpenKeeps DEF DoHPending
<1>8. CASE SwitchFamily
  BY <1>2, <1>8, SwitchFamilyKeeps
<1>9. CASE AnswerReachesServer
  BY <1>1, <1>2, <1>9, AfterSendType, ReachedKeeps DEF AnswerReachesServer
<1>10. CASE AnswerGivesUp
  BY <1>2, <1>10, AfterSendType, UnreachableKeeps DEF AnswerGivesUp
<1> QED BY <1>4, <1>5, <1>6, <1>7, <1>8, <1>9, <1>10 DEF DoHHandlingZone

\* The other cases of the second half of a visit.
LEMMA SecondHalfKeeps ==
  ASSUME ProxyAssumption, IInv,
         NoHostYet \/ ConnectionInformed \/ InformPending \/ StayConnected
  PROVE  IInv'
PROOF
<1>1. pc = "proceed"
  BY DEF NoHostYet, ConnectionInformed, InformPending, StayConnected,
         Informing, Proceeding
<1>2. pc # "accept" /\ current.client_socket # 0
  BY <1>1 DEF IInv, InUse
<1>3. /\ current \in Connection /\ Staged(current)
      /\ current.client_socket \in Fds
      /\ currentfds \in SUBSET Bits /\ current_write_fds \in SUBSET Bits
  BY <1>2, CurrentFacts
<1>4. CASE NoHostYet \/ InformPending
  BY <1>2, <1>3, <1>4, LeaveOpenKeeps DEF NoHostYet, InformPending
<1>5. CASE ConnectionInformed
  <2> DEFINE c == [current EXCEPT !.connection_informed = TRUE,
                                  !.stay_connected = TRUE]
  <2>1. /\ c \in Connection
        /\ c.client_socket = current.client_socket
        /\ c.server_socket = current.server_socket
        /\ c.doh_socket = current.doh_socket
        /\ c.connected = current.connected
        /\ c.connection_informed /\ c.stay_connected
    BY <1>3 DEF Connection
  <2>2. Staged(c)
    BY <1>2, <1>3, <1>5, <2>1 DEF Staged, ConnectionInformed, Informing
  <2>3. /\ currentfds \cup {current.client_socket} \in SUBSET Bits
        /\ current_write_fds \ {current.client_socket} \in SUBSET Bits
    BY <1>3 DEF Bits
  <2>4. LeaveOpen(c, currentfds \cup {current.client_socket},
                  current_write_fds \ {current.client_socket})
    BY <1>5 DEF ConnectionInformed
  <2> HIDE DEF c
  <2> QED BY <1>2, <2>1, <2>2, <2>3, <2>4, LeaveOpenKeeps
<1>6. CASE StayConnected
  <2> DEFINE c == [current EXCEPT !.stay_connected = TRUE]
  <2>1. /\ c \in Connection
        /\ c.client_socket = current.client_socket
        /\ c.server_socket = current.server_socket
        /\ c.doh_socket = current.doh_socket
        /\ c.connected = current.connected
        /\ c.connection_informed = current.connection_informed
    BY <1>3 DEF Connection
  <2>2. Staged(c)
    BY <1>2, <1>3, <1>6, <2>1 DEF Staged, StayConnected
  <2>3. LeaveOpen(c, currentfds, current_write_fds)
    BY <1>6 DEF StayConnected
  <2> HIDE DEF c
  <2> QED BY <1>2, <1>3, <2>1, <2>2, <2>3, LeaveOpenKeeps
<1> QED BY <1>4, <1>5, <1>6

\* One turn of the relay.
LEMMA TransferKeeps ==
  ASSUME ProxyAssumption, IInv, Relaying, NEW cr, NEW sr, NEW sw, NEW cw,
         Transfer(cr, sr, sw, cw)
  PROVE  IInv'
PROOF
<1> DEFINE rq == (current.request \/ cr = "data") /\ sw # "all"
           rs == (current.response \/ sr = "data") /\ cw # "all"
           sc == current.server_read_closed \/ sr = "eof"
           c == [current EXCEPT !.request = rq, !.response = rs,
                                !.server_read_closed = sc]
           rd == currentfds \ {x \in {c.server_socket} : sr = "eof"}
           wr == (current_write_fds
                    \cup {x \in {c.server_socket} : cr = "data"}
                    \cup {x \in {c.client_socket} : sr \in {"data", "eof"}})
                  \ ({x \in {c.server_socket} : sw = "all"}
                       \cup {x \in {c.client_socket} : cw = "all"})
<1>1. closeAll \/ LeaveOpen(c, rd, wr)
  BY DEF Transfer
<1>2. pc # "accept" /\ current.client_socket # 0 /\ current.stay_connected
  BY DEF Relaying, Staying, Serving
<1>3. /\ current \in Connection /\ Staged(current)
      /\ current.client_socket \in Fds
      /\ current.server_socket \in {0} \cup Fds
      /\ currentfds \in SUBSET Bits /\ current_write_fds \in SUBSET Bits
  BY <1>2, CurrentFacts
<1>4. rq \in BOOLEAN /\ rs \in BOOLEAN /\ sc \in BOOLEAN
  OBVIOUS
<1> HIDE DEF rq, rs, sc
<1>5. /\ c \in Connection
      /\ c.client_socket = current.client_socket
      /\ c.server_socket = current.server_socket
      /\ c.doh_socket = current.doh_socket
      /\ c.connected = current.connected
      /\ c.connection_informed = current.connection_informed
      /\ c.stay_connected = current.stay_connected
      /\ c.stay_connected_setted_up = current.stay_connected_setted_up
  <2>1. c \in Connection
    BY <1>3, <1>4 DEF Connection
  <2>2. /\ c.client_socket = current.client_socket
        /\ c.server_socket = current.server_socket
        /\ c.doh_socket = current.doh_socket
    BY <1>3 DEF Connection
  <2>3. /\ c.connected = current.connected
        /\ c.connection_informed = current.connection_informed
        /\ c.stay_connected = current.stay_connected
        /\ c.stay_connected_setted_up = current.stay_connected_setted_up
    BY <1>3 DEF Connection
  <2> QED
    BY <2>1, <2>2, <2>3
<1>6. Staged(c) /\ c.client_socket \in Fds /\ c.server_socket \in Fds
  BY <1>2, <1>3, <1>5 DEF Staged
<1> HIDE DEF c
<1>7. rd \in SUBSET Bits /\ wr \in SUBSET Bits
  BY <1>3, <1>6 DEF Bits
<1> HIDE DEF rd, wr
<1> QED BY <1>1, <1>2, <1>5, <1>6, <1>7, CloseAllKeeps, LeaveOpenKeeps

\* handleStayConnected.
LEMMA StayConnectedKeeps ==
  ASSUME ProxyAssumption, IInv, HandleStayConnected
  PROVE  IInv'
PROOF
<1>1. /\ pc # "accept" /\ current.client_socket # 0 /\ current.stay_connected
  BY DEF HandleStayConnected, CloseFinished, SetUpRelay, Relay, Relaying,
         Staying, Serving
<1>2. /\ current \in Connection /\ Staged(current)
      /\ current.server_socket \in {0} \cup Fds
      /\ currentfds \in SUBSET Bits /\ current_write_fds \in SUBSET Bits
  BY <1>1, CurrentFacts
<1>3. current.server_socket \in Fds
  BY <1>1, <1>2 DEF Staged
<1>4. CASE CloseFinished
  BY <1>1, <1>4, CloseAllKeeps DEF CloseFinished
<1>5. CASE SetUpRelay
  <2> DEFINE pending == current.request /\ ~current.connect
             c == [current EXCEPT !.stay_connected_setted_up = TRUE,
                                  !.request = pending, !.response = FALSE]
             wr == IF pending THEN current_write_fds \cup {current.server_socket}
                              ELSE current_write_fds
  <2>1. LeaveOpen(c, currentfds \cup {current.server_socket}, wr)
    BY <1>5 DEF SetUpRelay
  <2>2. pending \in BOOLEAN
    OBVIOUS
  <2> HIDE DEF pending
  <2>3. /\ c \in Connection
        /\ c.client_socket = current.client_socket
        /\ c.server_socket = current.server_socket
        /\ c.doh_socket = current.doh_socket
        /\ c.connected = current.connected
        /\ c.connection_informed = current.connection_informed
        /\ c.stay_connected = current.stay_connected
    BY <1>2, <2>2 DEF Connection
  <2>4. Staged(c)
    BY <1>1, <1>2, <2>3 DEF Staged
  <2>5. currentfds \cup {current.server_socket} \in SUBSET Bits /\ wr \in SUBSET Bits
    BY <1>2, <1>3 DEF Bits
  <2> HIDE DEF c, wr
  <2> QED BY <1>1, <2>1, <2>3, <2>4, <2>5, LeaveOpenKeeps
<1>6. CASE Relay
  BY <1>6, TransferKeeps DEF Relay
<1> QED BY <1>4, <1>5, <1>6 DEF HandleStayConnected

-----------------------------------------------------------------------------
(* The theorems *)

\* The invariant is inductive.
LEMMA NextKeeps == ASSUME ProxyAssumption, IInv, [Next]_vars PROVE IInv'
PROOF
<1>1. CASE UNCHANGED vars
  BY <1>1 DEF vars, table, ready, loop, IInv, TypeOK, OwnsOpen, OwnersDiffer,
              AllStaged, Staged, InUse, current
<1>2. CASE Next
  BY <1>2, LoopKeeps, HandleConnectionKeeps, FinalMessageKeeps,
     ReadRequestKeeps, ZoneKeeps, SecondHalfKeeps, StayConnectedKeeps DEF Next
<1> QED BY <1>1, <1>2

\* The invariant holds of every behaviour.
LEMMA Invariance == Spec => []IInv
PROOF
<1>1. Init => IInv
  BY ProxyAssumption, InitInv
<1>2. IInv /\ [Next]_vars => IInv'
  BY ProxyAssumption, NextKeeps
<1> QED BY <1>1, <1>2, PTL DEF Spec

\* Every variable always has its type, whatever descriptors select() reports and
\* whatever the system calls answer.
THEOREM TypeCorrect == Spec => []TypeOK
PROOF
<1>1. IInv => TypeOK
  BY DEF IInv
<1> QED BY <1>1, Invariance, PTL

\* No two connections ever hold the same descriptor, every descriptor held is
\* open for what it is used, and a free entry holds nothing of its last
\* connection (the handlers of proxyHandlerHelper.c, handleConnection and
\* closeAll together).
THEOREM DescriptorOwnership == Spec => []Ownership
PROOF
<1>1. IInv => Ownership
  BY DEF IInv, Ownership, AllStaged, Staged, FreeIsClean
<1> QED BY <1>1, Invariance, PTL

-----------------------------------------------------------------------------
(* The counter of concurrent connections *)

Clients(tab) == {fd \in Fds : tab[fd] = "client"}

\* The descriptors of clients are finitely many.
LEMMA ClientsFinite ==
  ASSUME ProxyAssumption, NEW tab
  PROVE  IsFiniteSet(Clients(tab)) /\ Cardinality(Clients(tab)) \in Nat
PROOF
<1>1. IsFiniteSet(Fds)
  BY FS_Interval DEF Fds, ProxyAssumption
<1>2. IsFiniteSet(Clients(tab))
  BY <1>1, FS_Subset DEF Clients
<1> QED BY <1>2, FS_CardinalityType

\* A step of the loop that neither accepts a client nor closes an entry keeps
\* the descriptors of clients and the counter.
LEMMA OthersKeepClients ==
  ASSUME ProxyAssumption, IInv, Next,
         ~HandleConnection, ~(pc # "accept" /\ current.client_socket # 0 /\ closeAll)
  PROVE  Clients(sockets') = Clients(sockets) /\ concurrent' = concurrent
PROOF
<1>1. CASE Select \/ SelectFails \/ NoNewConnection \/ SkipConnection
  BY <1>1 DEF Select, SelectFails, NoNewConnection, SkipConnection, table, vars
<1>2. CASE FinalMessageSent \/ FinalMessagePending
  BY <1>2 DEF FinalMessageSent, FinalMessagePending, Serving, LeaveOpen, Leave
<1>3. CASE ReadRequest
  BY <1>3 DEF ReadRequest, ClientSilent, ClientReadError, ClientEof, ClientData,
              ClientBadRequest, Proceed
<1>4. ASSUME Resolving
      PROVE  /\ pc # "accept" /\ current.client_socket # 0
             /\ OpenFor(current, sockets) /\ sockets \in [Fds -> Kinds]
             /\ current.doh_socket \in Fds => sockets[current.doh_socket] = "doh"
  <2>1. pc # "accept" /\ current.client_socket # 0
    BY <1>4 DEF Resolving, Proceeding, IInv, InUse
  <2> QED BY <2>1, CurrentFacts DEF OpenFor, Fds
<1>5. ASSUME Resolving, NEW rd, NEW wr, ServerReached(current, rd, wr)
      PROVE  Clients(sockets') = Clients(sockets) /\ concurrent' = concurrent
  <2>1. PICK fd \in LowestFree(sockets) :
          sockets' = [Close(sockets, {current.doh_socket}) EXCEPT ![fd] = "server"]
    BY <1>5 DEF ServerReached
  <2>2. fd \in Fds /\ sockets[fd] = "closed"
    BY LowestFreeClosed
  <2>3. \A g \in Fds : sockets'[g] = "client" <=> sockets[g] = "client"
    BY <1>4, <1>5, <2>1, <2>2 DEF Close
  <2> QED BY <1>5, <2>3 DEF Clients, ServerReached, Leave
<1>6. ASSUME NEW rd, NEW wr, ServerUnreachable(current, rd, wr)
      PROVE  Clients(sockets') = Clients(sockets) /\ concurrent' = concurrent
  BY <1>6 DEF ServerUnreachable, InternalServerError, Leave
<1>7. CASE StartDoH
  <2>1. PICK o \in connectToDoH(sockets) : sockets' = o.sockets
    BY <1>7 DEF StartDoH
  <2>2. \A g \in Fds : sockets'[g] = "client" <=> sockets[g] = "client"
    BY <1>4, <1>7, <2>1, ConnectFacts DEF StartDoH
  <2>3. concurrent' = concurrent
    BY <1>7 DEF StartDoH, InternalServerError, Leave
  <2> QED BY <2>2, <2>3 DEF Clients
<1>8. CASE SwitchFamily
  <2>1. Resolving
    BY <1>8 DEF SwitchFamily, Answered, AwaitingDoH
  <2> DEFINE tab == Close(sockets, {current.doh_socket})
  <2>2. PICK o \in connectToDoH(tab) : sockets' = o.sockets
    BY <1>8 DEF SwitchFamily
  <2>3. tab \in [Fds -> Kinds]
    BY <1>4, <2>1, CloseType
  <2>4. \A g \in Fds : tab[g] = "client" <=> sockets[g] = "client"
    BY <1>4, <2>1 DEF Close
  <2> HIDE DEF tab
  <2>5. \A g \in Fds : sockets'[g] = "client" <=> tab[g] = "client"
    BY <2>2, <2>3, ConnectFacts
  <2>6. concurrent' = concurrent
    BY <1>8 DEF SwitchFamily, Leave
  <2> QED BY <2>4, <2>5, <2>6 DEF Clients
<1>9. CASE DoHHandlingZone
  <2>1. CASE QuerySent \/ DoHPending
    BY <2>1 DEF QuerySent, DoHPending, LeaveOpen, Leave
  <2>2. CASE ConnectDirect
    BY <1>5, <1>6, <2>2 DEF ConnectDirect
  <2>3. CASE AnswerReachesServer
    BY <1>5, <2>3 DEF AnswerReachesServer, Answered, AwaitingDoH
  <2>4. CASE AnswerGivesUp
    BY <1>6, <2>4 DEF AnswerGivesUp
  <2> QED BY <1>7, <1>8, <1>9, <2>1, <2>2, <2>3, <2>4 DEF DoHHandlingZone
<1>10. CASE NoHostYet \/ ConnectionInformed \/ InformPending \/ StayConnected
  BY <1>10 DEF NoHostYet, ConnectionInformed, InformPending, StayConnected,
               LeaveOpen, Leave
<1>11. CASE HandleStayConnected
  <2>1. CASE CloseFinished
    BY <2>1 DEF CloseFinished, Staying, Serving
  <2>2. CASE SetUpRelay
    BY <2>2 DEF SetUpRelay, LeaveOpen, Leave
  <2>3. CASE Relay
    BY <2>3 DEF Relay, Transfer, Relaying, Staying, Serving, LeaveOpen, Leave
  <2> QED BY <1>11, <2>1, <2>2, <2>3 DEF HandleStayConnected
<1> QED BY <1>1, <1>2, <1>3, <1>9, <1>10, <1>11 DEF Next

\* The counter is the number of client sockets before and after every step.
LEMMA ConcurrentKeeps ==
  ASSUME ProxyAssumption, IInv, ConcurrentCounts, [Next]_vars
  PROVE  ConcurrentCounts'
PROOF
<1>1. concurrent = Cardinality(Clients(sockets))
  BY DEF ConcurrentCounts, Clients
<1>2. CASE UNCHANGED vars
  BY <1>1, <1>2 DEF vars, table, ConcurrentCounts, Clients
<1>3. CASE HandleConnection
  <2>1. PICK fd \in LowestFree(sockets) :
          sockets' = [sockets EXCEPT ![fd] = "client"]
    BY <1>3 DEF HandleConnection
  <2>2. fd \in Fds /\ sockets[fd] = "closed" /\ sockets \in [Fds -> Kinds]
    BY LowestFreeClosed DEF IInv, TypeOK
  <2>3. Clients(sockets') = Clients(sockets) \cup {fd} /\ fd \notin Clients(sockets)
    BY <2>1, <2>2 DEF Clients
  <2>4. Cardinality(Clients(sockets')) = Cardinality(Clients(sockets)) + 1
    BY <2>3, ClientsFinite, FS_AddElement
  <2> QED BY <1>1, <1>3, <2>4 DEF HandleConnection, ConcurrentCounts, Clients
<1>4. CASE pc # "accept" /\ current.client_socket # 0 /\ closeAll
  <2>1. /\ OpenFor(current, sockets) /\ sockets \in [Fds -> Kinds]
        /\ current.client_socket \in Fds
        /\ current.server_socket \in {0} \cup Fds
        /\ current.doh_socket \in {-1, 0} \cup Fds
    BY <1>4, CurrentFacts
  <2>2. Clients(sockets') = Clients(sockets) \ {current.client_socket}
    BY <1>4, <2>1 DEF closeAll, Close, Clients, OpenFor, Fds
  <2>3. current.client_socket \in Clients(sockets)
    BY <2>1 DEF OpenFor, Clients, Fds
  <2>4. Cardinality(Clients(sockets')) = Cardinality(Clients(sockets)) - 1
    BY <2>2, <2>3, ClientsFinite, FS_RemoveElement
  <2>5. Cardinality(Clients(sockets)) # 0
    BY <2>3, ClientsFinite, FS_EmptySet
  <2> QED BY <1>1, <1>4, <2>4, <2>5 DEF closeAll, ConcurrentCounts, Clients
<1>5. CASE Next /\ ~HandleConnection
           /\ ~(pc # "accept" /\ current.client_socket # 0 /\ closeAll)
  <2>1. Clients(sockets') = Clients(sockets) /\ concurrent' = concurrent
    BY <1>5, OthersKeepClients
  <2> QED BY <1>1, <2>1 DEF ConcurrentCounts, Clients
<1> QED BY <1>2, <1>3, <1>4, <1>5

\* What the management protocol reports as concurrent connections is always the
\* number of client sockets that are open: no close is counted twice and the
\* guard of substractMetric against 0 never hides one (metrics.c).
THEOREM ConcurrentIsExact == Spec => []ConcurrentCounts
PROOF
<1>1. Init => ConcurrentCounts
  <2> SUFFICES ASSUME Init PROVE ConcurrentCounts
    OBVIOUS
  <2>1. {fd \in Fds : sockets[fd] = "client"} = {}
    BY DEF Init
  <2> QED BY <2>1, FS_EmptySet DEF Init, ConcurrentCounts
<1>2. IInv /\ ConcurrentCounts /\ [Next]_vars => ConcurrentCounts'
  BY ProxyAssumption, ConcurrentKeeps
<1> QED BY <1>1, <1>2, Invariance, PTL DEF Spec

-----------------------------------------------------------------------------
(* What the loop keeps: every watched descriptor is one that select() looks  *)
(* at, every entry follows the life cycle, and the descriptors of a relayed  *)
(* connection are watched for what is left to do.                            *)
(*                                                                           *)
(* The three have the same shape: a visit replaces the entry visited and     *)
(* touches no bits but those of its descriptors.  Visit says so once, the    *)
(* lemma of each handler shows that it is such a visit, and the three        *)
(* invariants are then kept by every visit alike.                            *)

\* A connected entry knows its host.
Known(c) == c.connected => c.host # "none"

AllKnown == \A s \in Slots : Known(connections[s])

\* Every descriptor that is held is one select() looks at.
AllBelow == \A s \in Slots : \A fd \in Held(connections[s]) : fd <= maxSocket

\* What the interest sets rd and wr say of the descriptors of c: the client is
\* watched for reading until it closes; nothing is known of the server before the
\* relay is set up and everything of both ends after it; and the client is
\* watched for writing only to get its 200 or bytes of the server.
Watches(c, rd, wr) ==
  c.client_socket # 0 /\ ~c.send_final_message =>
    /\ c.client_read_closed \/ c.client_socket \in rd
    /\ IF c.stay_connected_setted_up
         THEN /\ ~c.client_read_closed
              /\ c.server_read_closed \/ c.server_socket \in rd
              /\ c.request => c.server_socket \in wr
              /\ c.response \/ c.server_read_closed => c.client_socket \in wr
              /\ c.client_socket \in wr => c.response
         ELSE /\ ~c.server_read_closed
              /\ c.client_socket \in wr => c.connected /\ ~c.connection_informed

AllWatched ==
  \A s \in Slots : Watches(connections[s], currentfds, current_write_fds)

\* When clients are accepted no closed descriptor is watched for writing:
\* select() would have failed.
NoneClosed ==
  pc = "accept" => \A fd \in current_write_fds : fd \in Fds => sockets[fd] # "closed"

\* The bit FD_SET(-1, .) touches is nobody's descriptor.
Tame == WildFd \notin Fds

LInv == IInv /\ AllKnown /\ AllBelow /\ MaxSocketCovers

WInv == LInv /\ Tame /\ AllWatched /\ NoneClosed

-----------------------------------------------------------------------------
(* Visits *)

\* The entry a moves on to b as Lifecycle allows, or stays where it is.
Advances(a, b) ==
  \/ Phase(b) = Phase(a) /\ IsTunnel(b) = IsTunnel(a)
  \/ Phase(a) = "request" /\ Phase(b) = "resolve"
  \/ /\ Phase(a) = "resolve"
     /\ Phase(b) = IF IsTunnel(a) THEN "inform" ELSE "handover"
     /\ IsTunnel(b) = IsTunnel(a)
  \/ Phase(a) = "inform" /\ Phase(b) = "handover" /\ IsTunnel(b) = IsTunnel(a)
  \/ Phase(a) = "handover" /\ Phase(b) = "relay" /\ IsTunnel(b) = IsTunnel(a)
  \/ Phase(a) \in {"request", "resolve", "inform", "handover"} /\ Phase(b) = "error"
  \/ Phase(a) \in {"handover", "relay", "error"} /\ Phase(b) = "free"

\* Only the bits of descriptors of current and c may change, and the wild one.
Touches(c, rd, wr) ==
  \A fd \in Bits :
    \/ fd \in Held(current) \cup Held(c) \cup {WildFd}
    \/ (fd \in rd <=> fd \in currentfds) /\ (fd \in wr <=> fd \in current_write_fds)

\* c holds what current held or descriptors that were closed.
Takes(c) ==
  \A fd \in Held(c) : fd <= 0 \/ fd \in Held(current) \/ sockets[fd] = "closed"

\* A visit leaves the entry as c and the interest sets as rd and wr.
Visit(c, rd, wr) ==
  /\ pc # "accept" /\ pc' # "accept"
  /\ c \in Connection
  /\ connections' = [connections EXCEPT ![n] = c]
  /\ currentfds' = rd /\ current_write_fds' = wr
  /\ maxSocket <= maxSocket' /\ \A fd \in Held(c) : fd <= maxSocket'
  /\ Known(c) /\ Advances(current, c)
  /\ Touches(c, rd, wr) /\ Takes(c)
  /\ Tame /\ Watches(current, currentfds, current_write_fds) => Watches(c, rd, wr)

-----------------------------------------------------------------------------
(* Facts about entries *)

\* The phase of an entry in use, from its flags.
LEMMA PhaseFacts ==
  ASSUME NEW c \in Connection, c.client_socket # 0
  PROVE  /\ c.send_final_message => Phase(c) = "error"
         /\ ~c.send_final_message =>
              /\ ~c.connected /\ c.host = "none" => Phase(c) = "request"
              /\ ~c.connected /\ c.host # "none" => Phase(c) = "resolve"
              /\ c.connected /\ ~c.connection_informed => Phase(c) = "inform"
              /\ c.connected /\ c.connection_informed =>
                   Phase(c) = IF c.stay_connected_setted_up THEN "relay" ELSE "handover"
         /\ IsTunnel(c) = (c.connect /\ ~c.send_final_message)
BY DEF Phase, IsTunnel, Connection

\* The phase of a free entry.
LEMMA PhaseFree ==
  ASSUME NEW c, c.client_socket = 0
  PROVE  Phase(c) = "free" /\ IsTunnel(c) = FALSE
BY DEF Phase, IsTunnel

\* What is known when an entry in use is visited, besides CurrentFacts: its
\* descriptors are different bits.
LEMMA CurrentApart ==
  ASSUME ProxyAssumption, LInv, pc # "accept", current.client_socket # 0
  PROVE  /\ Known(current)
         /\ \A fd \in Held(current) : fd <= maxSocket
         /\ current.client_socket # current.server_socket
         /\ current.client_socket # current.doh_socket
         /\ current.server_socket # 0 =>
              current.server_socket # current.doh_socket
         /\ Tame => Bit(current.doh_socket) # current.client_socket
PROOF
<1>1. IInv
  BY DEF LInv
<1>2. n \in Slots
  BY <1>1, CurrentType DEF IInv
<1>3. Known(current) /\ \A fd \in Held(current) : fd <= maxSocket
  BY <1>2 DEF LInv, AllKnown, AllBelow, current
<1>4. /\ current.client_socket \in Fds
      /\ current.server_socket \in {0} \cup Fds
      /\ current.doh_socket \in {-1, 0} \cup Fds
      /\ OpenFor(current, sockets)
  BY <1>1, CurrentFacts
<1>5. /\ current.client_socket # current.server_socket
      /\ current.client_socket # current.doh_socket
      /\ current.server_socket # 0 =>
           current.server_socket # current.doh_socket
  BY <1>4 DEF OpenFor, Fds
<1>6. Tame => Bit(current.doh_socket) # current.client_socket
  BY <1>4, <1>5 DEF Bit, Tame
<1> QED BY <1>3, <1>5, <1>6

\* Where the loop goes after a visit.
LEMMA AfterVisit ==
  ASSUME NextConnection PROVE pc' # "accept"
BY DEF NextConnection

-----------------------------------------------------------------------------
(* A visit keeps the invariants *)

\* The descriptors of the other entries are not those of the entry visited, nor
\* any that the visit opens.
LEMMA OthersApart ==
  ASSUME ProxyAssumption, IInv, pc # "accept",
         NEW c \in Connection, Takes(c),
         NEW t \in Slots \ {n}, NEW fd \in Held(connections[t]), fd > 0
  PROVE  fd \in Fds /\ fd \notin Held(current) \cup Held(c)
PROOF
<1>1. n \in Slots /\ current \in Connection
  BY CurrentType DEF IInv
<1>2. /\ connections[t] \in Connection
      /\ OpenFor(connections[t], sockets) /\ OpenFor(current, sockets)
  BY <1>1 DEF IInv, TypeOK, OwnsOpen, OpenFor, current
<1>3. fd \in Fds /\ sockets[fd] # "closed"
  BY <1>2, ProxyAssumption DEF Held, OpenFor, Fds, Connection, ProxyAssumption
<1>4. fd \notin Held(current)
  BY <1>1, <1>2
     DEF IInv, OwnersDiffer, Held, OpenFor, current, Connection
<1>5. ~(fd <= 0)
  BY <1>3 DEF Fds
<1> QED BY <1>3, <1>4, <1>5 DEF Takes

\* Every descriptor held is below maxSocket after the visit, and so is every
\* descriptor watched.
LEMMA VisitCovers ==
  ASSUME ProxyAssumption, LInv, NEW c, NEW rd, NEW wr, Visit(c, rd, wr), IInv'
  PROVE  AllBelow' /\ MaxSocketCovers'
PROOF
<1>1. n \in Slots
  BY CurrentType DEF Visit, LInv, IInv
<1>2. connections \in [Slots -> Connection]
      /\ maxSocket \in Nat /\ maxSocket' \in Nat /\ maxSocket <= maxSocket'
  BY ProxyAssumption DEF LInv, IInv, TypeOK, Visit, ProxyAssumption
<1>3. connections'[n] = c /\ \A t \in Slots \ {n} : connections'[t] = connections[t]
  BY <1>1, <1>2 DEF Visit
<1>4. AllBelow'
  <2> SUFFICES ASSUME NEW s \in Slots, NEW fd \in Held(connections'[s])
      PROVE  fd <= maxSocket'
    BY DEF AllBelow, Held
  <2>1. CASE s = n
    BY <1>3, <2>1 DEF Visit
  <2>2. CASE s # n
    <3>1. fd \in Held(connections[s]) /\ connections[s] \in Connection
      BY <1>2, <1>3, <2>2
    <3>2. fd <= maxSocket /\ fd \in Int
      BY <3>1, ProxyAssumption DEF LInv, AllBelow, Held, Connection, ProxyAssumption
    <3> QED BY <1>2, <3>2
  <2> QED BY <2>1, <2>2
<1>5. MaxSocketCovers'
  <2> SUFFICES ASSUME NEW fd \in rd \cup wr PROVE fd <= maxSocket' \/ fd = WildFd
    BY DEF MaxSocketCovers, Watched, Visit
  <2>1. fd \in Bits /\ fd \in Int
    BY ProxyAssumption DEF Visit, IInv, TypeOK, Bits, Fds, ProxyAssumption
  <2>2. CASE fd \in Watched
    <3>1. fd <= maxSocket \/ fd = WildFd
      BY <2>2 DEF LInv, MaxSocketCovers
    <3> QED BY <1>2, <2>1, <3>1
  <2>3. CASE fd \notin Watched
    <3>1. fd \in Held(current) \cup Held(c) \cup {WildFd}
      BY <2>1, <2>3 DEF Visit, Touches, Watched
    <3>2. fd \in Held(current) => fd <= maxSocket
      BY <1>1 DEF LInv, AllBelow, current
    <3>3. fd \in Held(c) => fd <= maxSocket'
      BY DEF Visit
    <3> QED BY <1>2, <2>1, <3>1, <3>2, <3>3
  <2> QED BY <2>2, <2>3
<1> QED BY <1>4, <1>5

\* A visit keeps what is known of the hosts.
LEMMA VisitKnown ==
  ASSUME ProxyAssumption, LInv, NEW c, NEW rd, NEW wr, Visit(c, rd, wr)
  PROVE  AllKnown'
PROOF
<1>1. n \in Slots /\ connections \in [Slots -> Connection]
  BY CurrentType DEF Visit, LInv, IInv, TypeOK
<1>2. connections'[n] = c /\ \A t \in Slots \ {n} : connections'[t] = connections[t]
  BY <1>1 DEF Visit
<1> QED BY <1>2 DEF Visit, LInv, AllKnown, Known

\* The entries that are not visited are watched as before: none of their bits
\* changes.
LEMMA VisitWatches ==
  ASSUME ProxyAssumption, WInv, NEW c, NEW rd, NEW wr, Visit(c, rd, wr)
  PROVE  AllWatched' /\ NoneClosed'
PROOF
<1>1. LInv /\ IInv /\ Tame
  BY DEF WInv, LInv
<1>2. n \in Slots /\ connections \in [Slots -> Connection] /\ pc # "accept"
  BY <1>1, CurrentType DEF Visit, IInv, TypeOK
<1>3. connections'[n] = c /\ \A t \in Slots \ {n} : connections'[t] = connections[t]
  BY <1>2 DEF Visit
<1>4. currentfds' = rd /\ current_write_fds' = wr
  BY DEF Visit
<1>5. Watches(c, rd, wr)
  BY <1>1, <1>2 DEF Visit, WInv, AllWatched, current
<1>6. ASSUME NEW t \in Slots \ {n} PROVE Watches(connections[t], rd, wr)
  <2> DEFINE d == connections[t]
  <2>1. d \in Connection /\ Staged(d) /\ Watches(d, currentfds, current_write_fds)
    BY <1>1, <1>2 DEF IInv, AllStaged, WInv, AllWatched
  <2>2. ASSUME NEW fd \in Held(d), fd > 0
        PROVE  /\ fd \in rd <=> fd \in currentfds
               /\ fd \in wr <=> fd \in current_write_fds
    <3>1. fd \in Fds /\ fd \notin Held(current) \cup Held(c)
      BY <1>1, <1>2, <2>2, OthersApart DEF Visit
    <3>2. fd \in Bits /\ fd # WildFd
      BY <1>1, <3>1 DEF Bits, Tame
    <3> QED BY <3>1, <3>2 DEF Visit, Touches
  <2>3. d.client_socket \in Held(d) /\ d.server_socket \in Held(d)
    BY DEF Held
  <2>4. d.client_socket # 0 => d.client_socket > 0
    BY <2>1, ProxyAssumption DEF Connection, ProxyAssumption
  <2>5. d.stay_connected_setted_up => d.server_socket > 0
    BY <2>1, ProxyAssumption DEF Connection, Staged, ProxyAssumption
  <2> HIDE DEF d
  <2>6. Watches(d, rd, wr)
    BY <2>1, <2>2, <2>3, <2>4, <2>5 DEF Watches
  <2> QED BY <2>6 DEF d
<1>7. AllWatched'
  <2> SUFFICES ASSUME NEW s \in Slots
      PROVE  Watches(connections'[s], currentfds', current_write_fds')
    BY DEF AllWatched, Watches
  <2> QED BY <1>3, <1>4, <1>5, <1>6
<1>8. NoneClosed'
  BY DEF NoneClosed, Visit
<1> QED BY <1>7, <1>8

-----------------------------------------------------------------------------
(* The handlers that open and close no descriptor *)

\* A visit that leaves the entry with the descriptors it had.
LEMMA VisitOpen ==
  ASSUME ProxyAssumption, LInv, pc # "accept", current.client_socket # 0,
         NEW c \in Connection, NEW rd, NEW wr,
         c.client_socket = current.client_socket,
         c.server_socket = current.server_socket,
         c.doh_socket = current.doh_socket,
         Proceed(c, rd, wr) \/ LeaveOpen(c, rd, wr),
         Known(c), Advances(current, c), Touches(c, rd, wr),
         Tame /\ Watches(current, currentfds, current_write_fds)
           => Watches(c, rd, wr)
  PROVE  Visit(c, rd, wr)
PROOF
<1>1. /\ connections' = [connections EXCEPT ![n] = c]
      /\ currentfds' = rd /\ current_write_fds' = wr
      /\ maxSocket' = maxSocket /\ pc' # "accept"
  BY AfterVisit DEF Proceed, LeaveOpen, Leave
<1>2. Held(c) = Held(current)
  BY DEF Held
<1>3. maxSocket <= maxSocket' /\ \A fd \in Held(c) : fd <= maxSocket'
  <2>1. maxSocket \in Nat
    BY ProxyAssumption DEF LInv, IInv, TypeOK, ProxyAssumption
  <2> QED BY <1>1, <1>2, <2>1, CurrentApart
<1>4. Takes(c)
  BY <1>2 DEF Takes
<1> QED BY <1>1, <1>3, <1>4 DEF Visit

\* A handler that has nothing to do.
LEMMA VisitSame ==
  ASSUME ProxyAssumption, LInv, pc # "accept", current.client_socket # 0,
         \/ Proceed(current, currentfds, current_write_fds)
         \/ LeaveOpen(current, currentfds, current_write_fds)
  PROVE  Visit(current, currentfds, current_write_fds)
PROOF
<1>1. current \in Connection
  BY CurrentType DEF LInv, IInv
<1>2. Known(current)
  BY CurrentApart
<1>3. /\ Advances(current, current)
      /\ Touches(current, currentfds, current_write_fds)
  BY DEF Advances, Touches
<1> QED BY <1>1, <1>2, <1>3, VisitOpen

\* What the parser learns may identify the host of an entry that had none, which
\* is not connected.
LEMMA ParsedAdvances ==
  ASSUME NEW c \in Connection, Staged(c), Known(c), c.client_socket # 0,
         NEW d \in Parsed(c)
  PROVE  /\ Known(d)
         /\ d.send_final_message = c.send_final_message
         /\ Advances(c, d)
         /\ \A rd, wr : Watches(c, rd, wr) => Watches(d, rd, wr)
PROOF
<1>1. CASE d = c
  BY <1>1 DEF Advances
<1>2. ASSUME NEW h \in {"ip", "name"}, NEW b \in BOOLEAN, c.host = "none",
             d = [c EXCEPT !.request = TRUE, !.host = h, !.connect = b]
      PROVE  /\ Known(d)
             /\ d.send_final_message = c.send_final_message
             /\ Advances(c, d)
             /\ \A rd, wr : Watches(c, rd, wr) => Watches(d, rd, wr)
  <2>1. ~c.connected /\ ~c.stay_connected_setted_up
    BY <1>2 DEF Known, Staged
  <2>2. /\ d \in Connection /\ d.host # "none"
        /\ d.client_socket = c.client_socket
        /\ d.server_socket = c.server_socket
        /\ d.connected = c.connected
        /\ d.connection_informed = c.connection_informed
        /\ d.stay_connected_setted_up = c.stay_connected_setted_up
        /\ d.send_final_message = c.send_final_message
        /\ d.client_read_closed = c.client_read_closed
        /\ d.server_read_closed = c.server_read_closed
    BY <1>2 DEF Connection
  <2>3. Advances(c, d)
    <3>1. CASE c.send_final_message
      <4>1. Phase(d) = Phase(c) /\ IsTunnel(c) = FALSE /\ IsTunnel(d) = FALSE
        BY <2>2, <3>1, PhaseFacts
      <4> QED BY <4>1 DEF Advances
    <3>2. CASE ~c.send_final_message
      <4>1. Phase(c) = "request" /\ Phase(d) = "resolve"
        BY <1>2, <2>1, <2>2, <3>2, PhaseFacts
      <4> QED BY <4>1 DEF Advances
    <3> QED BY <3>1, <3>2
  <2>4. ASSUME NEW rd, NEW wr, Watches(c, rd, wr) PROVE Watches(d, rd, wr)
    BY <2>1, <2>2, <2>4 DEF Watches
  <2> QED BY <2>2, <2>3, <2>4 DEF Known
<1>3. \/ d = c
      \/ \E h \in {"ip", "name"}, b \in BOOLEAN :
           c.host = "none" /\ d = Found(c, h, b)
  BY DEF Parsed
<1> QED BY <1>1, <1>2, <1>3 DEF Found

\* The final message may be due in every phase in which the request is read or
\* the server is looked for.
LEMMA FinalAdvances ==
  ASSUME NEW c \in Connection, Staged(c), Known(c), c.client_socket # 0,
         ~c.stay_connected_setted_up,
         NEW d, d = [c EXCEPT !.send_final_message = TRUE]
  PROVE  /\ Known(d) /\ Advances(c, d)
         /\ \A rd, wr : Watches(d, rd, wr)
PROOF
<1>1. /\ d \in Connection /\ d.send_final_message
      /\ d.client_socket = c.client_socket
      /\ d.connected = c.connected /\ d.host = c.host
  BY DEF Connection
<1>2. Phase(d) = "error" /\ IsTunnel(d) = FALSE
  BY <1>1, PhaseFacts
<1>3. Phase(c) \in {"request", "resolve", "inform", "handover", "error"}
  BY PhaseFacts
<1>4. Phase(c) = "error" => IsTunnel(c) = FALSE
  BY PhaseFacts
<1>5. Advances(c, d)
  BY <1>2, <1>3, <1>4 DEF Advances
<1>6. Known(d)
  BY <1>1 DEF Known
<1> QED BY <1>1, <1>5, <1>6 DEF Watches

\* prepareFinalMessage touches the bits of the entry, and the wild one.
LEMMA FinalTouches ==
  ASSUME NEW c, NEW rd, NEW wr, Touches(c, rd, wr),
         NEW d, Held(d) = Held(c)
  PROVE  Touches(d, FinalReadFds(c, rd), FinalWriteFds(c, wr))
PROOF
<1>1. \A fd \in BitsOf(c) : fd \in Held(c) \cup {WildFd}
  BY DEF BitsOf, Bit, Held
<1>2. {Bit(c.doh_socket), c.server_socket, c.client_socket} = BitsOf(c)
  BY DEF BitsOf
<1> QED BY <1>1, <1>2 DEF Touches, FinalReadFds, FinalWriteFds

\* handleReadHttpFromUser.
LEMMA ReadRequestVisits ==
  ASSUME ProxyAssumption, LInv, ReadRequest
  PROVE  \E c, rd, wr : Visit(c, rd, wr)
PROOF
<1>1. /\ pc # "accept" /\ current.client_socket # 0
      /\ ~current.stay_connected /\ ~current.send_final_message
  BY DEF ReadRequest, ClientSilent, ClientReadError, ClientEof, ClientData,
         ClientBadRequest, Requesting, Serving
<1>2. /\ current \in Connection /\ Staged(current) /\ Known(current)
      /\ ~current.stay_connected_setted_up
  BY <1>1, CurrentFacts, CurrentApart DEF LInv, Staged
<1>3. Touches(current, currentfds, current_write_fds)
  BY DEF Touches
<1>4. CASE ClientSilent
  BY <1>1, <1>4, VisitSame DEF ClientSilent
<1>5. CASE ClientReadError
  <2> DEFINE d == [current EXCEPT !.send_final_message = TRUE]
             rd == FinalWriteFds(current, FinalReadFds(current, currentfds))
  <2>1. /\ d \in Connection
        /\ d.client_socket = current.client_socket
        /\ d.server_socket = current.server_socket
        /\ d.doh_socket = current.doh_socket
    BY <1>1, <1>2, FinalFlag
  <2>2. Known(d) /\ Advances(current, d) /\ Watches(d, rd, current_write_fds)
    BY <1>1, <1>2, FinalAdvances
  <2>3. Proceed(d, rd, current_write_fds)
    BY <1>5 DEF ClientReadError
  <2> HIDE DEF d
  <2>4. Touches(d, rd, current_write_fds)
    <3>1. {Bit(current.doh_socket), current.server_socket,
           current.client_socket} \subseteq Held(current) \cup {WildFd}
      BY DEF Bit, Held
    <3> QED BY <3>1 DEF Touches, FinalReadFds, FinalWriteFds, BitsOf
  <2> HIDE DEF rd
  <2>5. Visit(d, rd, current_write_fds)
    BY <1>1, <2>1, <2>2, <2>3, <2>4, VisitOpen
  <2> QED BY <2>5
<1>6. CASE ClientEof
  <2> DEFINE d == [current EXCEPT !.client_read_closed = TRUE]
             rd == currentfds \ {current.client_socket}
  <2>1. /\ d \in Connection /\ d.client_read_closed
        /\ d.client_socket = current.client_socket
        /\ d.server_socket = current.server_socket
        /\ d.doh_socket = current.doh_socket
        /\ d.host = current.host /\ d.connect = current.connect
        /\ d.connected = current.connected
        /\ d.connection_informed = current.connection_informed
        /\ d.stay_connected_setted_up = current.stay_connected_setted_up
        /\ d.server_read_closed = current.server_read_closed
        /\ d.send_final_message = current.send_final_message
    BY <1>2 DEF Connection
  <2>2. Proceed(d, rd, current_write_fds)
    BY <1>6 DEF ClientEof
  <2> HIDE DEF d
  <2>3. Known(d)
    BY <1>2, <2>1 DEF Known
  <2>4. Phase(d) = Phase(current) /\ IsTunnel(d) = IsTunnel(current)
    BY <2>1 DEF Phase, IsTunnel
  <2>5. Advances(current, d)
    BY <2>4 DEF Advances
  <2>6. Touches(d, rd, current_write_fds)
    BY DEF Touches, Held
  <2>7. Watches(current, currentfds, current_write_fds)
          => Watches(d, rd, current_write_fds)
    BY <1>1, <1>2, <2>1 DEF Watches
  <2> HIDE DEF rd
  <2>8. Visit(d, rd, current_write_fds)
    BY <1>1, <2>1, <2>2, <2>3, <2>5, <2>6, <2>7, VisitOpen
  <2> QED BY <2>8
<1>7. CASE ClientData
  <2>1. PICK d \in Parsed(current) : Proceed(d, currentfds, current_write_fds)
    BY <1>7 DEF ClientData
  <2>2. /\ d \in Connection
        /\ d.client_socket = current.client_socket
        /\ d.server_socket = current.server_socket
        /\ d.doh_socket = current.doh_socket
    BY <1>1, <1>2, ParsedFacts
  <2>3. /\ Known(d) /\ Advances(current, d)
        /\ Watches(current, currentfds, current_write_fds)
             => Watches(d, currentfds, current_write_fds)
    BY <1>1, <1>2, ParsedAdvances
  <2>4. Touches(d, currentfds, current_write_fds)
    BY DEF Touches
  <2>5. Visit(d, currentfds, current_write_fds)
    BY <1>1, <2>1, <2>2, <2>3, <2>4, VisitOpen
  <2> QED BY <2>5
<1>8. CASE ClientBadRequest
  <2>1. PICK c \in Parsed(current) :
          Proceed([c EXCEPT !.send_final_message = TRUE],
                  FinalReadFds(c, currentfds),
                  FinalWriteFds(c, current_write_fds))
    BY <1>8 DEF ClientBadRequest
  <2> DEFINE d == [c EXCEPT !.send_final_message = TRUE]
             rd == FinalReadFds(c, currentfds)
             wr == FinalWriteFds(c, current_write_fds)
  <2>2. /\ c \in Connection /\ Staged(c)
        /\ c.client_socket = current.client_socket
        /\ c.server_socket = current.server_socket
        /\ c.doh_socket = current.doh_socket
    BY <1>1, <1>2, ParsedFacts
  <2>3. Known(c) /\ c.send_final_message = current.send_final_message
    BY <1>1, <1>2, ParsedAdvances
  <2>4. /\ d \in Connection /\ d.send_final_message
        /\ d.client_socket = c.client_socket
        /\ d.server_socket = c.server_socket
        /\ d.doh_socket = c.doh_socket
        /\ d.connected = c.connected /\ d.host = c.host
    BY <1>1, <2>2 DEF Connection
  <2>5. Proceed(d, rd, wr)
    BY <2>1
  <2> HIDE DEF d
  <2>6. Known(d) /\ Watches(d, rd, wr)
    BY <2>3, <2>4 DEF Known, Watches
  <2>7. Phase(d) = "error"
    BY <1>1, <2>2, <2>4, PhaseFacts
  <2>8. Phase(current) \in {"request", "resolve", "inform", "handover"}
    BY <1>1, <1>2, PhaseFacts
  <2>9. Advances(current, d)
    BY <2>7, <2>8 DEF Advances
  <2>10. Touches(d, rd, wr)
    <3>1. Held(d) = Held(c)
      BY <2>2, <2>4 DEF Held
    <3>2. Touches(c, currentfds, current_write_fds)
      BY DEF Touches
    <3> QED BY <3>1, <3>2, FinalTouches
  <2> HIDE DEF rd, wr
  <2>11. Visit(d, rd, wr)
    BY <1>1, <2>2, <2>4, <2>5, <2>6, <2>9, <2>10, VisitOpen
  <2> QED BY <2>11
<1> QED BY <1>4, <1>5, <1>6, <1>7, <1>8 DEF ReadRequest

\* closeAll, of a connection that got its error reply or is at least handed over.
LEMMA CloseAllVisits ==
  ASSUME ProxyAssumption, LInv, pc # "accept", current.client_socket # 0,
         current.send_final_message \/ current.stay_connected, closeAll
  PROVE  \E c, rd, wr : Visit(c, rd, wr)
PROOF
<1> DEFINE rd == currentfds \ BitsOf(current)
           wr == current_write_fds \ BitsOf(current)
<1>1. /\ connections' = [connections EXCEPT ![n] = NoConnection]
      /\ currentfds' = rd /\ current_write_fds' = wr
      /\ pc' # "accept" /\ maxSocket' = maxSocket
  BY AfterVisit DEF closeAll
<1>2. /\ NoConnection \in Connection /\ NoConnection.client_socket = 0
      /\ ~NoConnection.connected /\ Held(NoConnection) = {0}
  BY DEF NoConnection, Connection, Held, ProxyAssumption
<1>3. current \in Connection /\ Staged(current) /\ maxSocket \in Nat
  BY CurrentFacts, ProxyAssumption DEF LInv, ProxyAssumption
<1>4. Phase(current) \in {"handover", "relay", "error"}
  BY <1>3, PhaseFacts DEF Staged
<1>5. Phase(NoConnection) = "free"
  BY <1>2, PhaseFree
<1>6. Advances(current, NoConnection)
  BY <1>4, <1>5 DEF Advances
<1>7. Touches(NoConnection, rd, wr)
  <2>1. BitsOf(current) \subseteq Held(current) \cup {WildFd}
    BY DEF BitsOf, Bit, Held
  <2> QED BY <2>1 DEF Touches
<1>8. Takes(NoConnection) /\ Known(NoConnection) /\ Watches(NoConnection, rd, wr)
  BY <1>2 DEF Takes, Known, Watches
<1>9. maxSocket <= maxSocket' /\ \A fd \in Held(NoConnection) : fd <= maxSocket'
  BY <1>1, <1>2, <1>3
<1> HIDE DEF rd, wr
<1>10. Visit(NoConnection, rd, wr)
  BY <1>1, <1>2, <1>6, <1>7, <1>8, <1>9 DEF Visit
<1> QED BY <1>10

\* handleFinalMessage.
LEMMA FinalMessageVisits ==
  ASSUME ProxyAssumption, LInv, FinalMessageSent \/ FinalMessagePending
  PROVE  \E c, rd, wr : Visit(c, rd, wr)
PROOF
<1>1. pc # "accept" /\ current.client_socket # 0 /\ current.send_final_message
  <2>1. n \in Slots /\ current \in Connection
    BY CurrentType
       DEF LInv, IInv, FinalMessageSent, FinalMessagePending, Serving
  <2> QED BY <2>1 DEF FinalMessageSent, FinalMessagePending, Serving
<1>2. CASE FinalMessageSent
  BY <1>1, <1>2, CloseAllVisits DEF FinalMessageSent
<1>3. CASE FinalMessagePending
  <2>1. Visit(current, currentfds, current_write_fds)
    BY <1>1, <1>3, VisitSame DEF FinalMessagePending
  <2> QED BY <2>1
<1> QED BY <1>2, <1>3

\* The other cases of the second half of a visit.
LEMMA SecondHalfVisits ==
  ASSUME ProxyAssumption, LInv,
         NoHostYet \/ ConnectionInformed \/ InformPending \/ StayConnected
  PROVE  \E c, rd, wr : Visit(c, rd, wr)
PROOF
<1>1. pc # "accept" /\ current.client_socket # 0
  BY DEF NoHostYet, ConnectionInformed, InformPending, StayConnected,
         Informing, Proceeding, LInv, IInv, InUse
<1>2. current \in Connection /\ Staged(current) /\ Known(current)
  BY <1>1, CurrentFacts, CurrentApart DEF LInv
<1>3. CASE NoHostYet \/ InformPending
  <2>1. Visit(current, currentfds, current_write_fds)
    BY <1>1, <1>3, VisitSame DEF NoHostYet, InformPending
  <2> QED BY <2>1
<1>4. CASE ConnectionInformed
  <2> DEFINE c == [current EXCEPT !.connection_informed = TRUE,
                                  !.stay_connected = TRUE]
             rd == currentfds \cup {current.client_socket}
             wr == current_write_fds \ {current.client_socket}
  <2>1. /\ c \in Connection
        /\ c.client_socket = current.client_socket
        /\ c.server_socket = current.server_socket
        /\ c.doh_socket = current.doh_socket
        /\ c.host = current.host /\ c.connect = current.connect
        /\ c.connected = current.connected
        /\ c.connection_informed
        /\ c.stay_connected_setted_up = current.stay_connected_setted_up
        /\ c.client_read_closed = current.client_read_closed
        /\ c.server_read_closed = current.server_read_closed
        /\ c.send_final_message = current.send_final_message
    BY <1>2 DEF Connection
  <2>2. LeaveOpen(c, rd, wr)
    BY <1>4 DEF ConnectionInformed
  <2> HIDE DEF c
  <2>3. /\ current.connected /\ ~current.connection_informed
        /\ ~current.stay_connected_setted_up
    BY <1>2, <1>4 DEF ConnectionInformed, Informing, Staged
  <2>4. Known(c)
    BY <1>2, <2>1 DEF Known
  <2>5. Advances(current, c)
    <3>1. IsTunnel(c) = IsTunnel(current)
      BY <1>1, <1>2, <2>1, PhaseFacts
    <3>2. CASE current.send_final_message
      <4>1. Phase(current) = "error"
        BY <1>1, <1>2, <3>2, PhaseFacts
      <4>2. Phase(c) = "error"
        BY <1>1, <2>1, <3>2, PhaseFacts
      <4> QED BY <3>1, <4>1, <4>2 DEF Advances
    <3>3. CASE ~current.send_final_message
      <4>1. Phase(current) = "inform" /\ Phase(c) = "handover"
        BY <1>1, <1>2, <2>1, <2>3, <3>3, PhaseFacts
      <4> QED BY <3>1, <4>1 DEF Advances
    <3> QED BY <3>2, <3>3
  <2>6. Touches(c, rd, wr)
    BY DEF Touches, Held
  <2>7. Watches(current, currentfds, current_write_fds) => Watches(c, rd, wr)
    BY <2>1, <2>3 DEF Watches
  <2> HIDE DEF rd, wr
  <2>8. Visit(c, rd, wr)
    BY <1>1, <2>1, <2>2, <2>4, <2>5, <2>6, <2>7, VisitOpen
  <2> QED BY <2>8
<1>5. CASE StayConnected
  <2> DEFINE c == [current EXCEPT !.stay_connected = TRUE]
  <2>1. /\ c \in Connection
        /\ c.client_socket = current.client_socket
        /\ c.server_socket = current.server_socket
        /\ c.doh_socket = current.doh_socket
        /\ c.host = current.host /\ c.connect = current.connect
        /\ c.connected = current.connected
        /\ c.connection_informed = current.connection_informed
        /\ c.stay_connected_setted_up = current.stay_connected_setted_up
        /\ c.client_read_closed = current.client_read_closed
        /\ c.server_read_closed = current.server_read_closed
        /\ c.send_final_message = current.send_final_message
        /\ c.request = current.request /\ c.response = current.response
    BY <1>2 DEF Connection
  <2>2. LeaveOpen(c, currentfds, current_write_fds)
    BY <1>5 DEF StayConnected
  <2> HIDE DEF c
  <2>3. Known(c)
    BY <1>2, <2>1 DEF Known
  <2>4. Phase(c) = Phase(current) /\ IsTunnel(c) = IsTunnel(current)
    BY <2>1 DEF Phase, IsTunnel
  <2>5. Advances(current, c)
    BY <2>4 DEF Advances
  <2>6. Touches(c, currentfds, current_write_fds)
    BY DEF Touches
  <2>7. Watches(current, currentfds, current_write_fds)
          => Watches(c, currentfds, current_write_fds)
    BY <2>1 DEF Watches
  <2>8. Visit(c, currentfds, current_write_fds)
    BY <1>1, <2>1, <2>2, <2>3, <2>5, <2>6, <2>7, VisitOpen
  <2> QED BY <2>8
<1> QED BY <1>3, <1>4, <1>5

-----------------------------------------------------------------------------
(* Finding the server *)

\* What is known of the entry whose server is looked for.
LEMMA ResolvingFacts ==
  ASSUME ProxyAssumption, LInv, Resolving
  PROVE  /\ pc # "accept" /\ current.client_socket # 0
         /\ current \in Connection /\ Staged(current) /\ Known(current)
         /\ ~current.connected /\ current.host # "none"
         /\ ~current.connection_informed /\ ~current.stay_connected_setted_up
         /\ maxSocket \in Nat
PROOF
<1>1. pc # "accept" /\ current.client_socket # 0
  BY DEF Resolving, Proceeding, LInv, IInv, InUse
<1>2. current \in Connection /\ Staged(current) /\ Known(current) /\ maxSocket \in Nat
  BY <1>1, CurrentFacts, CurrentApart, ProxyAssumption DEF LInv, ProxyAssumption
<1> QED BY <1>1, <1>2 DEF Resolving, Staged

\* The interest sets after the query may just have been sent.
LEMMA AfterSendWatches ==
  ASSUME ProxyAssumption, LInv, Resolving, NEW f \in AfterSend
  PROVE  /\ Touches(current, f.rd, f.wr)
         /\ Watches(current, currentfds, current_write_fds)
              => Watches(current, f.rd, f.wr)
PROOF
<1>1. /\ current.client_socket # current.doh_socket
      /\ ~current.stay_connected_setted_up
  BY ResolvingFacts, CurrentApart
<1>2. CASE f = [rd |-> currentfds, wr |-> current_write_fds]
  BY <1>2 DEF Touches
<1>3. ASSUME NEW fd \in writefds \cap {current.doh_socket},
             f = [rd |-> currentfds \cup {fd}, wr |-> current_write_fds \ {fd}]
      PROVE  /\ Touches(current, f.rd, f.wr)
             /\ Watches(current, currentfds, current_write_fds)
                  => Watches(current, f.rd, f.wr)
  <2>1. fd = current.doh_socket
    BY <1>3
  <2>2. f.rd = currentfds \cup {fd} /\ f.wr = current_write_fds \ {fd}
    BY <1>3
  <2>3. Touches(current, f.rd, f.wr)
    BY <2>1, <2>2 DEF Touches, Held
  <2>4. /\ current.client_socket \in f.rd <=> current.client_socket \in currentfds
        /\ current.client_socket \in f.wr <=> current.client_socket \in current_write_fds
    BY <1>1, <2>1, <2>2
  <2>5. Watches(current, currentfds, current_write_fds)
          => Watches(current, f.rd, f.wr)
    BY <1>1, <2>4 DEF Watches
  <2> QED BY <2>3, <2>5
<1> QED BY <1>2, <1>3 DEF AfterSend

\* The interest sets as the visit finds them.
LEMMA NotSentWatches ==
  /\ Touches(current, currentfds, current_write_fds)
  /\ Watches(current, currentfds, current_write_fds)
       => Watches(current, currentfds, current_write_fds)
BY DEF Touches

\* A server is reached: a CONNECT is to be informed, anything else is handed over.
LEMMA ReachedVisits ==
  ASSUME ProxyAssumption, LInv, Resolving, NEW rd, NEW wr,
         Touches(current, rd, wr),
         Watches(current, currentfds, current_write_fds) => Watches(current, rd, wr),
         ServerReached(current, rd, wr)
  PROVE  \E c, rd2, wr2 : Visit(c, rd2, wr2)
PROOF
<1>1. PICK fd \in LowestFree(sockets) :
    /\ maxSocket' = Larger(maxSocket, fd)
    /\ Leave([current EXCEPT !.server_socket = fd, !.connected = TRUE,
                             !.connection_informed = ~current.connect,
                             !.doh_socket = 0],
             rd \ {Bit(current.doh_socket)},
             wr \cup {IF current.connect THEN current.client_socket ELSE fd})
  BY DEF ServerReached
<1> DEFINE informed == ~current.connect
           c == [current EXCEPT !.server_socket = fd, !.connected = TRUE,
                   !.connection_informed = informed, !.doh_socket = 0]
           rd2 == rd \ {Bit(current.doh_socket)}
           wr2 == wr \cup {IF current.connect THEN current.client_socket ELSE fd}
<1>2. fd \in Fds /\ sockets[fd] = "closed"
  BY LowestFreeClosed
<1>3. /\ pc # "accept" /\ current.client_socket # 0
      /\ current \in Connection /\ Staged(current) /\ Known(current)
      /\ ~current.connected /\ current.host # "none"
      /\ ~current.connection_informed /\ ~current.stay_connected_setted_up
      /\ maxSocket \in Nat
  BY ResolvingFacts
<1>4. current.connect \in BOOLEAN
  BY <1>3 DEF Connection
<1>5. Leave(c, rd2, wr2)
  BY <1>1
<1>6. informed \in BOOLEAN /\ (informed <=> ~current.connect)
  OBVIOUS
<1> HIDE DEF informed
<1>7. /\ c \in Connection
      /\ c.client_socket = current.client_socket
      /\ c.server_socket = fd /\ c.doh_socket = 0
      /\ c.host = current.host /\ c.connect = current.connect
      /\ c.connected /\ c.connection_informed = informed
      /\ c.stay_connected_setted_up = current.stay_connected_setted_up
      /\ c.client_read_closed = current.client_read_closed
      /\ c.server_read_closed = current.server_read_closed
      /\ c.send_final_message = current.send_final_message
  <2>1. fd \in 0 .. MaxFd /\ 0 \in -1 .. MaxFd
    BY <1>2, ProxyAssumption DEF Fds, ProxyAssumption
  <2> QED BY <1>3, <1>6, <2>1 DEF Connection
<1> HIDE DEF c
<1>8. /\ \A g \in Held(current) : g <= maxSocket
      /\ current.client_socket # current.doh_socket
      /\ Tame => Bit(current.doh_socket) # current.client_socket
  BY <1>3, CurrentApart
<1>9. current.client_socket # fd
  BY <1>2, <1>3, CurrentFacts DEF LInv, OpenFor
<1>10. maxSocket' \in Nat /\ maxSocket <= maxSocket' /\ fd <= maxSocket'
  BY <1>1, <1>2, <1>3 DEF Larger, Fds
<1>11. maxSocket <= maxSocket' /\ \A g \in Held(c) : g <= maxSocket'
  <2>1. current.client_socket <= maxSocket /\ current.client_socket \in Int
    BY <1>3, <1>8, ProxyAssumption DEF Held, Connection, ProxyAssumption
  <2>2. current.client_socket <= maxSocket'
    BY <1>3, <1>10, <2>1
  <2> QED BY <1>7, <1>10, <2>2 DEF Held
<1>12. Known(c)
  BY <1>3, <1>7 DEF Known
<1>13. Advances(current, c)
  <2>1. IsTunnel(c) = IsTunnel(current)
    BY <1>3, <1>7, PhaseFacts
  <2>2. CASE current.send_final_message
    <3>1. Phase(current) = "error"
      BY <1>3, <2>2, PhaseFacts
    <3>2. Phase(c) = "error"
      BY <1>3, <1>7, <2>2, PhaseFacts
    <3> QED BY <2>1, <3>1, <3>2 DEF Advances
  <2>3. CASE ~current.send_final_message
    <3>1. Phase(current) = "resolve" /\ IsTunnel(current) = current.connect
      BY <1>3, <1>4, <2>3, PhaseFacts
    <3>2. Phase(c) = IF current.connect THEN "inform" ELSE "handover"
      BY <1>3, <1>6, <1>7, <2>3, PhaseFacts
    <3> QED BY <2>1, <3>1, <3>2 DEF Advances
  <2> QED BY <2>2, <2>3
<1>14. Touches(c, rd2, wr2)
  <2>1. Bit(current.doh_socket) \in Held(current) \cup {WildFd}
    BY DEF Bit, Held
  <2>2. current.client_socket \in Held(current) /\ fd \in Held(c)
    BY <1>7 DEF Held
  <2> QED BY <2>1, <2>2 DEF Touches
<1>15. Takes(c)
  BY <1>2, <1>7 DEF Takes, Held
<1>16. Tame /\ Watches(current, currentfds, current_write_fds) => Watches(c, rd2, wr2)
  <2> SUFFICES ASSUME Tame, Watches(current, rd, wr) PROVE Watches(c, rd2, wr2)
    OBVIOUS
  <2>1. current.client_socket \in rd => current.client_socket \in rd2
    BY <1>8
  <2>2. current.client_socket \in wr2
          <=> current.client_socket \in wr \/ current.connect
    BY <1>9
  <2> HIDE DEF rd2, wr2
  <2> QED BY <1>3, <1>6, <1>7, <2>1, <2>2 DEF Watches
<1>17. /\ connections' = [connections EXCEPT ![n] = c]
       /\ currentfds' = rd2 /\ current_write_fds' = wr2 /\ pc' # "accept"
  BY <1>5, AfterVisit DEF Leave
<1> HIDE DEF rd2, wr2
<1>18. Visit(c, rd2, wr2)
  BY <1>3, <1>7, <1>11, <1>12, <1>13, <1>14, <1>15, <1>16, <1>17 DEF Visit
<1> QED BY <1>18

\* prepareFinalMessage with a 500, after the DoH socket may have been replaced.
LEMMA ErrorVisits ==
  ASSUME ProxyAssumption, LInv, Resolving,
         NEW c \in Connection, NEW rd, NEW wr,
         c.client_socket = current.client_socket,
         c.connected = current.connected, c.host = current.host,
         Touches(c, rd, wr), Takes(c),
         maxSocket' = maxSocket, \A fd \in Held(c) : fd <= maxSocket,
         InternalServerError(c, rd, wr)
  PROVE  \E d, rd2, wr2 : Visit(d, rd2, wr2)
PROOF
<1> DEFINE d == [c EXCEPT !.send_final_message = TRUE]
           rd2 == FinalReadFds(c, rd)
           wr2 == FinalWriteFds(c, wr)
<1>1. /\ pc # "accept" /\ current.client_socket # 0
      /\ current \in Connection
      /\ ~current.connected /\ current.host # "none"
      /\ maxSocket \in Nat
  BY ResolvingFacts
<1>2. /\ d \in Connection /\ d.send_final_message
      /\ d.client_socket = c.client_socket
      /\ d.server_socket = c.server_socket
      /\ d.doh_socket = c.doh_socket
      /\ d.connected = c.connected /\ d.host = c.host
  BY DEF Connection
<1>3. Leave(d, rd2, wr2)
  BY DEF InternalServerError
<1> HIDE DEF d
<1>4. Held(d) = Held(c)
  BY <1>2 DEF Held
<1>5. Touches(d, rd2, wr2)
  BY <1>4, FinalTouches
<1> HIDE DEF rd2, wr2
<1>6. Takes(d) /\ \A fd \in Held(d) : fd <= maxSocket'
  BY <1>4 DEF Takes
<1>7. Known(d) /\ Watches(d, rd2, wr2)
  BY <1>1, <1>2 DEF Known, Watches
<1>8. Advances(current, d)
  <2>1. Phase(d) = "error" /\ IsTunnel(d) = FALSE
    BY <1>1, <1>2, PhaseFacts
  <2>2. CASE current.send_final_message
    <3>1. Phase(current) = "error" /\ IsTunnel(current) = FALSE
      BY <1>1, <2>2, PhaseFacts
    <3> QED BY <2>1, <3>1 DEF Advances
  <2>3. CASE ~current.send_final_message
    <3>1. Phase(current) = "resolve"
      BY <1>1, <2>3, PhaseFacts
    <3> QED BY <2>1, <3>1 DEF Advances
  <2> QED BY <2>2, <2>3
<1>9. /\ connections' = [connections EXCEPT ![n] = d]
      /\ currentfds' = rd2 /\ current_write_fds' = wr2 /\ pc' # "accept"
  BY <1>3, AfterVisit DEF Leave
<1>10. maxSocket <= maxSocket'
  BY <1>1
<1>11. Visit(d, rd2, wr2)
  BY <1>1, <1>2, <1>5, <1>6, <1>7, <1>8, <1>9, <1>10 DEF Visit
<1> QED BY <1>11

\* No address, or none that answers.
LEMMA UnreachableVisits ==
  ASSUME ProxyAssumption, LInv, Resolving, NEW rd, NEW wr,
         Touches(current, rd, wr), ServerUnreachable(current, rd, wr)
  PROVE  \E c, rd2, wr2 : Visit(c, rd2, wr2)
PROOF
<1>1. current \in Connection /\ \A fd \in Held(current) : fd <= maxSocket
  BY ResolvingFacts, CurrentApart
<1>2. Takes(current) /\ maxSocket' = maxSocket
      /\ InternalServerError(current, rd, wr)
  BY DEF Takes, ServerUnreachable
<1> QED BY <1>1, <1>2, ErrorVisits

\* An entry that waits for the DoH server on another socket is in the phase it
\* was in and its client is watched as before.
LEMMA DoHVisits ==
  ASSUME ProxyAssumption, LInv, Resolving,
         NEW c \in Connection, NEW rd, NEW wr,
         c.client_socket = current.client_socket,
         c.server_socket = current.server_socket,
         c.host = current.host, c.connect = current.connect,
         c.connected = current.connected,
         c.connection_informed = current.connection_informed,
         c.stay_connected_setted_up = current.stay_connected_setted_up,
         c.client_read_closed = current.client_read_closed,
         c.server_read_closed = current.server_read_closed,
         c.send_final_message = current.send_final_message,
         maxSocket <= maxSocket', c.doh_socket <= maxSocket', maxSocket' \in Nat,
         \/ c.doh_socket \in {-1, current.doh_socket}
         \/ c.doh_socket \in Fds /\ sockets[c.doh_socket] = "closed",
         Touches(c, rd, wr),
         Tame /\ Watches(current, currentfds, current_write_fds) =>
           /\ current.client_socket \in currentfds => current.client_socket \in rd
           /\ current.client_socket \in wr => current.client_socket \in current_write_fds,
         Leave(c, rd, wr)
  PROVE  Visit(c, rd, wr)
PROOF
<1>1. /\ pc # "accept" /\ current.client_socket # 0
      /\ current \in Connection /\ Known(current)
      /\ ~current.stay_connected_setted_up
      /\ maxSocket \in Nat
  BY ResolvingFacts
<1>2. \A fd \in Held(c) : fd <= maxSocket'
  <2>1. /\ current.client_socket <= maxSocket /\ current.client_socket \in Int
        /\ current.server_socket <= maxSocket /\ current.server_socket \in Int
    BY <1>1, CurrentApart, ProxyAssumption DEF Held, Connection, ProxyAssumption
  <2>2. /\ current.client_socket <= maxSocket'
        /\ current.server_socket <= maxSocket'
    BY <1>1, <2>1
  <2> QED BY <2>2 DEF Held
<1>3. Known(c)
  BY <1>1 DEF Known
<1>4. Phase(c) = Phase(current) /\ IsTunnel(c) = IsTunnel(current)
  BY DEF Phase, IsTunnel
<1>5. Advances(current, c)
  BY <1>4 DEF Advances
<1>6. Takes(c)
  BY DEF Takes, Held
<1>7. Tame /\ Watches(current, currentfds, current_write_fds) => Watches(c, rd, wr)
  BY <1>1 DEF Watches
<1>8. /\ connections' = [connections EXCEPT ![n] = c]
      /\ currentfds' = rd /\ current_write_fds' = wr /\ pc' # "accept"
  BY AfterVisit DEF Leave
<1> QED BY <1>1, <1>2, <1>3, <1>5, <1>6, <1>7, <1>8 DEF Visit

\* The socket to the DoH server is opened, or cannot be.
LEMMA StartDoHVisits ==
  ASSUME ProxyAssumption, LInv, StartDoH
  PROVE  \E c, rd, wr : Visit(c, rd, wr)
PROOF
<1>1. Resolving /\ current.doh_socket = 0
  BY DEF StartDoH
<1>2. /\ pc # "accept" /\ current.client_socket # 0
      /\ current \in Connection /\ maxSocket \in Nat
  BY <1>1, ResolvingFacts
<1>3. /\ sockets \in [Fds -> Kinds]
      /\ \A fd \in Held(current) : fd <= maxSocket
      /\ current.client_socket \in Fds /\ OpenFor(current, sockets)
  BY <1>2, CurrentFacts, CurrentApart DEF LInv
<1>4. PICK o \in connectToDoH(sockets) :
        LET c == [current EXCEPT !.tried_direct = TRUE, !.doh_socket = o.socket]
        IN  /\ sockets' = o.sockets
            /\ \/ /\ o.socket > 0
                  /\ maxSocket' = Larger(maxSocket, o.socket)
                  /\ Leave(c, currentfds, current_write_fds \cup {o.socket})
               \/ /\ o.socket = -1
                  /\ InternalServerError(c, currentfds, current_write_fds)
                  /\ UNCHANGED maxSocket
  BY DEF StartDoH
<1>5. \/ o.socket = -1
      \/ o.socket \in Fds /\ sockets[o.socket] = "closed"
  BY <1>3, ConnectFacts
<1> DEFINE c == [current EXCEPT !.tried_direct = TRUE, !.doh_socket = o.socket]
<1>6. o.socket \in -1 .. MaxFd
  BY <1>5, ProxyAssumption DEF Fds, ProxyAssumption
<1>7. /\ c \in Connection
      /\ c.client_socket = current.client_socket
      /\ c.server_socket = current.server_socket
      /\ c.doh_socket = o.socket
      /\ c.host = current.host /\ c.connect = current.connect
      /\ c.connected = current.connected
      /\ c.connection_informed = current.connection_informed
      /\ c.stay_connected_setted_up = current.stay_connected_setted_up
      /\ c.client_read_closed = current.client_read_closed
      /\ c.server_read_closed = current.server_read_closed
      /\ c.send_final_message = current.send_final_message
  BY <1>2, <1>6 DEF Connection
<1>8. CASE /\ o.socket > 0
           /\ maxSocket' = Larger(maxSocket, o.socket)
           /\ Leave(c, currentfds, current_write_fds \cup {o.socket})
  <2> DEFINE wr == current_write_fds \cup {o.socket}
  <2>1. o.socket \in Fds /\ sockets[o.socket] = "closed"
    BY <1>5, <1>8
  <2>2. /\ maxSocket' \in Nat /\ maxSocket <= maxSocket'
        /\ o.socket <= maxSocket'
    BY <1>2, <1>8, <2>1 DEF Larger, Fds
  <2>3. Leave(c, currentfds, wr)
    BY <1>8
  <2>4. current.client_socket # o.socket
    BY <1>2, <1>3, <2>1 DEF OpenFor
  <2> HIDE DEF c
  <2>5. Touches(c, currentfds, wr)
    BY <1>7 DEF Touches, Held
  <2>6. current.client_socket \in wr => current.client_socket \in current_write_fds
    BY <2>4
  <2> HIDE DEF wr
  <2>7. Visit(c, currentfds, wr)
    BY <1>1, <1>7, <2>1, <2>2, <2>3, <2>5, <2>6, DoHVisits
  <2> QED BY <2>7
<1>9. CASE /\ o.socket = -1
           /\ InternalServerError(c, currentfds, current_write_fds)
           /\ UNCHANGED maxSocket
  <2>1. Touches(c, currentfds, current_write_fds)
    BY DEF Touches
  <2>2. InternalServerError(c, currentfds, current_write_fds)
    BY <1>9
  <2> HIDE DEF c
  <2>3. Held(c) \subseteq Held(current) \cup {-1}
    BY <1>7, <1>9 DEF Held
  <2>4. \A fd \in Held(c) : fd <= maxSocket
    BY <1>2, <1>3, <2>3
  <2>5. Takes(c)
    BY <2>3 DEF Takes
  <2> QED BY <1>1, <1>7, <1>9, <2>1, <2>2, <2>4, <2>5, ErrorVisits
<1> QED BY <1>4, <1>8, <1>9

\* The A query is answered: another socket for the AAAA query, perhaps -1.
LEMMA SwitchFamilyVisits ==
  ASSUME ProxyAssumption, LInv, SwitchFamily
  PROVE  \E c, rd, wr : Visit(c, rd, wr)
PROOF
<1>1. Resolving
  BY DEF SwitchFamily, Answered, AwaitingDoH
<1>2. /\ pc # "accept" /\ current.client_socket # 0
      /\ current \in Connection /\ maxSocket \in Nat
  BY <1>1, ResolvingFacts
<1>3. /\ sockets \in [Fds -> Kinds]
      /\ current.client_socket # current.doh_socket
      /\ current.client_socket \in Fds /\ OpenFor(current, sockets)
  BY <1>2, CurrentFacts, CurrentApart DEF LInv
<1> DEFINE tab == Close(sockets, {current.doh_socket})
<1>4. PICK f \in AfterSend, o \in connectToDoH(tab) :
       /\ maxSocket' = Larger(maxSocket, o.socket)
       /\ Leave([current EXCEPT !.familyFlag = 1, !.doh_socket = o.socket],
                f.rd \ {Bit(o.socket)}, f.wr \cup {Bit(o.socket)})
  BY DEF SwitchFamily
<1>5. /\ tab \in [Fds -> Kinds]
      /\ \A fd \in Fds : fd # current.doh_socket => tab[fd] = sockets[fd]
  BY <1>3, CloseType DEF Close
<1> HIDE DEF tab
<1>6. \/ o.socket = -1
      \/ o.socket \in Fds /\ tab[o.socket] = "closed"
  BY <1>5, ConnectFacts
<1>7. \/ o.socket \in {-1, current.doh_socket}
      \/ o.socket \in Fds /\ sockets[o.socket] = "closed"
  BY <1>5, <1>6
<1> DEFINE c == [current EXCEPT !.familyFlag = 1, !.doh_socket = o.socket]
           rd == f.rd \ {Bit(o.socket)}
           wr == f.wr \cup {Bit(o.socket)}
<1>8. o.socket \in -1 .. MaxFd
  BY <1>6, ProxyAssumption DEF Fds, ProxyAssumption
<1>9. /\ c \in Connection
      /\ c.client_socket = current.client_socket
      /\ c.server_socket = current.server_socket
      /\ c.doh_socket = o.socket
      /\ c.host = current.host /\ c.connect = current.connect
      /\ c.connected = current.connected
      /\ c.connection_informed = current.connection_informed
      /\ c.stay_connected_setted_up = current.stay_connected_setted_up
      /\ c.client_read_closed = current.client_read_closed
      /\ c.server_read_closed = current.server_read_closed
      /\ c.send_final_message = current.send_final_message
  BY <1>2, <1>8 DEF Connection
<1>10. Leave(c, rd, wr)
  BY <1>4
<1> HIDE DEF c
<1>11. /\ maxSocket' \in Nat /\ maxSocket <= maxSocket'
       /\ o.socket <= maxSocket'
  BY <1>2, <1>4, <1>6 DEF Larger, Fds
<1>12. Touches(current, f.rd, f.wr)
  BY <1>1, AfterSendWatches
<1>13. Touches(c, rd, wr)
  <2>1. Bit(o.socket) \in Held(c) \cup {WildFd}
    BY <1>9 DEF Bit, Held
  <2> QED BY <1>12, <2>1 DEF Touches
<1>14. Tame => Bit(o.socket) # current.client_socket
  BY <1>3, <1>6, <1>7 DEF Bit, Tame, OpenFor, Fds
<1>15. /\ current.client_socket \in currentfds => current.client_socket \in f.rd
       /\ current.client_socket \in f.wr => current.client_socket \in current_write_fds
  BY <1>3 DEF AfterSend
<1>16. Tame =>
         /\ current.client_socket \in currentfds => current.client_socket \in rd
         /\ current.client_socket \in wr => current.client_socket \in current_write_fds
  BY <1>14, <1>15
<1> HIDE DEF rd, wr
<1>17. Visit(c, rd, wr)
  BY <1>1, <1>7, <1>9, <1>10, <1>11, <1>13, <1>16, DoHVisits
<1> QED BY <1>17

\* DoHHandlingZone.
LEMMA ZoneVisits ==
  ASSUME ProxyAssumption, LInv, DoHHandlingZone
  PROVE  \E c, rd, wr : Visit(c, rd, wr)
PROOF
<1>1. Resolving
  BY DEF DoHHandlingZone, ConnectDirect, StartDoH, QuerySent, DoHPending,
         SwitchFamily, AnswerReachesServer, AnswerGivesUp, Answered, AwaitingDoH
<1>2. /\ pc # "accept" /\ current.client_socket # 0
      /\ current \in Connection /\ Known(current)
      /\ ~current.stay_connected_setted_up
      /\ current.client_socket # current.doh_socket
  BY <1>1, ResolvingFacts, CurrentApart
<1>3. CASE ConnectDirect
  BY <1>1, <1>3, NotSentWatches, ReachedVisits, UnreachableVisits
     DEF ConnectDirect
<1>4. CASE StartDoH
  BY <1>4, StartDoHVisits
<1>5. CASE QuerySent
  <2> DEFINE rd == currentfds \cup {current.doh_socket}
             wr == current_write_fds \ {current.doh_socket}
  <2>1. LeaveOpen(current, rd, wr)
    BY <1>5 DEF QuerySent
  <2>2. Touches(current, rd, wr)
    BY DEF Touches, Held
  <2>3. Watches(current, currentfds, current_write_fds) => Watches(current, rd, wr)
    BY <1>2 DEF Watches
  <2>4. Advances(current, current)
    BY DEF Advances
  <2> HIDE DEF rd, wr
  <2>5. Visit(current, rd, wr)
    BY <1>2, <2>1, <2>2, <2>3, <2>4, VisitOpen
  <2> QED BY <2>5
<1>6. CASE DoHPending
  <2>1. Visit(current, currentfds, current_write_fds)
    BY <1>2, <1>6, VisitSame DEF DoHPending
  <2> QED BY <2>1
<1>7. CASE SwitchFamily
  BY <1>7, SwitchFamilyVisits
<1>8. CASE AnswerReachesServer
  BY <1>1, <1>8, AfterSendWatches, ReachedVisits DEF AnswerReachesServer
<1>9. CASE AnswerGivesUp
  BY <1>1, <1>9, AfterSendWatches, UnreachableVisits DEF AnswerGivesUp
<1> QED BY <1>3, <1>4, <1>5, <1>6, <1>7, <1>8, <1>9 DEF DoHHandlingZone

-----------------------------------------------------------------------------
(* Relaying *)

\* What is known of an entry that is handed over or relayed.
LEMMA StayingFacts ==
  ASSUME ProxyAssumption, LInv, Staying
  PROVE  /\ pc # "accept" /\ current.client_socket # 0
         /\ current \in Connection /\ Staged(current) /\ Known(current)
         /\ current.stay_connected /\ ~current.send_final_message
         /\ current.connected /\ current.connection_informed
         /\ current.server_socket # 0
         /\ current.client_socket # current.server_socket
PROOF
<1>1. pc # "accept" /\ n \in Slots /\ current \in Connection
  BY CurrentType DEF Staying, Serving, LInv, IInv
<1>2. current.client_socket # 0 /\ current.stay_connected /\ ~current.send_final_message
  BY <1>1 DEF Staying, Serving
<1>3. Staged(current) /\ Known(current) /\ current.client_socket # current.server_socket
  BY <1>1, <1>2, CurrentFacts, CurrentApart DEF LInv
<1> QED BY <1>1, <1>2, <1>3 DEF Staged

\* The first visit of an entry that is handed over: the client has been watched
\* for reading all along, and the server is watched from now on.
LEMMA SetUpVisits ==
  ASSUME ProxyAssumption, LInv, SetUpRelay
  PROVE  \E c, rd, wr : Visit(c, rd, wr)
PROOF
<1> DEFINE pending == current.request /\ ~current.connect
           c == [current EXCEPT !.stay_connected_setted_up = TRUE,
                                !.request = pending, !.response = FALSE]
           rd == currentfds \cup {current.server_socket}
           wr == IF pending THEN current_write_fds \cup {current.server_socket}
                            ELSE current_write_fds
<1>1. LeaveOpen(c, rd, wr)
  BY DEF SetUpRelay
<1>2. pending \in BOOLEAN
  OBVIOUS
<1>3. /\ Staying /\ ~current.stay_connected_setted_up
      /\ ~current.client_read_closed
  BY DEF SetUpRelay, MustClose
<1>4. /\ pc # "accept" /\ current.client_socket # 0
      /\ current \in Connection /\ Known(current)
      /\ current.stay_connected /\ ~current.send_final_message
      /\ current.connected /\ current.connection_informed
      /\ current.client_socket # current.server_socket
  BY <1>3, StayingFacts
<1> HIDE DEF pending
<1>5. /\ c \in Connection
      /\ c.client_socket = current.client_socket
      /\ c.server_socket = current.server_socket
      /\ c.doh_socket = current.doh_socket
      /\ c.host = current.host /\ c.connect = current.connect
      /\ c.connected = current.connected
      /\ c.connection_informed = current.connection_informed
      /\ c.stay_connected_setted_up
      /\ c.client_read_closed = current.client_read_closed
      /\ c.server_read_closed = current.server_read_closed
      /\ c.send_final_message = current.send_final_message
      /\ c.request = pending /\ c.response = FALSE
  BY <1>2, <1>4 DEF Connection
<1> HIDE DEF c
<1>6. Known(c)
  BY <1>4, <1>5 DEF Known
<1>7. Advances(current, c)
  <2>1. Phase(current) = "handover"
    BY <1>3, <1>4, PhaseFacts
  <2>2. Phase(c) = "relay"
    BY <1>4, <1>5, PhaseFacts
  <2>3. IsTunnel(c) = IsTunnel(current)
    BY <1>4, <1>5, PhaseFacts
  <2> QED BY <2>1, <2>2, <2>3 DEF Advances
<1>8. Touches(c, rd, wr)
  BY DEF Touches, Held
<1>9. Watches(current, currentfds, current_write_fds) => Watches(c, rd, wr)
  BY <1>3, <1>4, <1>5 DEF Watches
<1> HIDE DEF rd, wr
<1>10. Visit(c, rd, wr)
  BY <1>1, <1>4, <1>5, <1>6, <1>7, <1>8, <1>9, VisitOpen
<1> QED BY <1>10

\* One turn of the relay that does not close: what each end is watched for is
\* what the four transfers have left to do.
LEMMA TransferVisits ==
  ASSUME ProxyAssumption, LInv, Relaying, NEW cr, NEW sr, NEW sw, NEW cw,
         Transfer(cr, sr, sw, cw)
  PROVE  \E c, rd, wr : Visit(c, rd, wr)
PROOF
<1> DEFINE rq == (current.request \/ cr = "data") /\ sw # "all"
           rs == (current.response \/ sr = "data") /\ cw # "all"
           sc == current.server_read_closed \/ sr = "eof"
           c == [current EXCEPT !.request = rq, !.response = rs,
                                !.server_read_closed = sc]
           rd == currentfds \ {x \in {c.server_socket} : sr = "eof"}
           wr == (current_write_fds
                    \cup {x \in {c.server_socket} : cr = "data"}
                    \cup {x \in {c.client_socket} : sr \in {"data", "eof"}})
                  \ ({x \in {c.server_socket} : sw = "all"}
                       \cup {x \in {c.client_socket} : cw = "all"})
<1>1. closeAll \/ (LeaveOpen(c, rd, wr) /\ ~MustClose(c))
  BY DEF Transfer
<1>2. Staying /\ current.stay_connected_setted_up
  BY DEF Relaying
<1>3. /\ pc # "accept" /\ current.client_socket # 0
      /\ current \in Connection /\ Known(current)
      /\ current.stay_connected /\ ~current.send_final_message
      /\ current.client_socket # current.server_socket
  BY <1>2, StayingFacts
<1>4. rq \in BOOLEAN /\ rs \in BOOLEAN /\ sc \in BOOLEAN
  OBVIOUS
<1>5. /\ rq <=> (current.request \/ cr = "data") /\ sw # "all"
      /\ rs <=> (current.response \/ sr = "data") /\ cw # "all"
      /\ sc <=> current.server_read_closed \/ sr = "eof"
  OBVIOUS
<1> HIDE DEF rq, rs, sc
<1>6. /\ c \in Connection
      /\ c.server_read_closed = sc /\ c.request = rq /\ c.response = rs
  <2>1. c \in Connection
    BY <1>3, <1>4 DEF Connection
  <2>2. c.server_read_closed = sc
    BY <1>3, <1>4 DEF Connection
  <2>3. c.request = rq
    BY <1>3, <1>4 DEF Connection
  <2>4. c.response = rs
    BY <1>3, <1>4 DEF Connection
  <2> QED BY <2>1, <2>2, <2>3, <2>4
<1>7. /\ c.client_socket = current.client_socket
      /\ c.server_socket = current.server_socket
      /\ c.doh_socket = current.doh_socket
      /\ c.host = current.host /\ c.connect = current.connect
      /\ c.connected = current.connected
      /\ c.connection_informed = current.connection_informed
      /\ c.stay_connected_setted_up = current.stay_connected_setted_up
      /\ c.client_read_closed = current.client_read_closed
      /\ c.send_final_message = current.send_final_message
  BY <1>3 DEF Connection
<1> HIDE DEF c
<1>8. CASE closeAll
  BY <1>3, <1>8, CloseAllVisits
<1>9. CASE LeaveOpen(c, rd, wr) /\ ~MustClose(c)
  <2>1. Known(c)
    BY <1>3, <1>6, <1>7 DEF Known
  <2>2. Phase(c) = Phase(current) /\ IsTunnel(c) = IsTunnel(current)
    BY <1>6, <1>7 DEF Phase, IsTunnel
  <2>3. Advances(current, c)
    BY <2>2 DEF Advances
  <2>4. c.server_socket \in Held(current) /\ c.client_socket \in Held(current)
    BY <1>6, <1>7 DEF Held
  <2>5. Touches(c, rd, wr)
    BY <2>4 DEF Touches
  <2>6. ~c.client_read_closed /\ (sc => rs)
    BY <1>6, <1>7, <1>9 DEF MustClose
  <2>7. c.server_socket \in rd <=> c.server_socket \in currentfds /\ sr # "eof"
    OBVIOUS
  <2>8. c.client_socket \in rd <=> c.client_socket \in currentfds
    BY <1>3, <1>6, <1>7
  <2>9. c.server_socket \in wr <=>
          (c.server_socket \in current_write_fds \/ cr = "data") /\ sw # "all"
    BY <1>3, <1>6, <1>7
  <2>10. c.client_socket \in wr <=>
           (c.client_socket \in current_write_fds \/ sr \in {"data", "eof"})
             /\ cw # "all"
    BY <1>3, <1>6, <1>7
  <2> HIDE DEF rd, wr
  <2>11. Watches(current, currentfds, current_write_fds) => Watches(c, rd, wr)
    BY <1>2, <1>3, <1>5, <1>6, <1>7, <2>6, <2>7, <2>8, <2>9, <2>10 DEF Watches
  <2>12. Visit(c, rd, wr)
    BY <1>3, <1>6, <1>7, <1>9, <2>1, <2>3, <2>5, <2>11, VisitOpen
  <2> QED BY <2>12
<1> QED BY <1>1, <1>8, <1>9

\* handleStayConnected.
LEMMA StayVisits ==
  ASSUME ProxyAssumption, LInv, HandleStayConnected
  PROVE  \E c, rd, wr : Visit(c, rd, wr)
PROOF
<1>1. CASE CloseFinished
  BY <1>1, StayingFacts, CloseAllVisits DEF CloseFinished
<1>2. CASE SetUpRelay
  BY <1>2, SetUpVisits
<1>3. CASE Relay
  BY <1>3, TransferVisits DEF Relay
<1> QED BY <1>1, <1>2, <1>3 DEF HandleStayConnected

-----------------------------------------------------------------------------
(* Every step *)

\* A step is a visit, or it accepts a client, or it leaves the table and what is
\* watched as they are.
LEMMA StepShape ==
  ASSUME ProxyAssumption, LInv, [Next]_vars
  PROVE  \/ \E c, rd, wr : Visit(c, rd, wr)
         \/ HandleConnection
         \/ UNCHANGED <<connections, sockets, currentfds, current_write_fds, maxSocket>>
              /\ (Select \/ UNCHANGED pc \/ pc' # "accept" \/ pc = "accept")
PROOF
<1>1. CASE UNCHANGED vars
  BY <1>1 DEF vars, table, loop
<1>2. CASE Select \/ SelectFails \/ NoNewConnection \/ SkipConnection
  BY <1>2, AfterVisit
     DEF Select, SelectFails, NoNewConnection, SkipConnection, table, vars, loop
<1>3. CASE HandleConnection
  BY <1>3
<1>4. CASE \/ FinalMessageSent \/ FinalMessagePending \/ ReadRequest
           \/ DoHHandlingZone \/ NoHostYet \/ ConnectionInformed
           \/ InformPending \/ StayConnected \/ HandleStayConnected
  BY <1>4, FinalMessageVisits, ReadRequestVisits, ZoneVisits, SecondHalfVisits,
     StayVisits
<1> QED BY <1>1, <1>2, <1>3, <1>4 DEF Next

\* A client is accepted: its descriptor was closed, so that nobody held it and
\* nobody watched it for writing, and select() looks at it from now on.
LEMMA AcceptFacts ==
  ASSUME ProxyAssumption, LInv, HandleConnection
  PROVE  \E fd \in Fds :
           /\ sockets[fd] = "closed"
           /\ sockets' = [sockets EXCEPT ![fd] = "client"]
           /\ currentfds' = currentfds \cup {fd}
           /\ current_write_fds' = current_write_fds
           /\ maxSocket \in Nat /\ maxSocket' \in Nat
           /\ maxSocket <= maxSocket' /\ fd <= maxSocket'
           /\ \A s \in Slots :
                \/ connections'[s] = connections[s] /\ s \notin FirstFreeSlot
                \/ /\ s \in FirstFreeSlot
                   /\ connections[s].client_socket = 0
                   /\ connections'[s] = [NoConnection EXCEPT !.client_socket = fd]
PROOF
<1>1. PICK fd \in LowestFree(sockets) :
        /\ sockets' = [sockets EXCEPT ![fd] = "client"]
        /\ connections' = [s \in Slots |->
             IF s \in FirstFreeSlot
               THEN [NoConnection EXCEPT !.client_socket = fd]
               ELSE connections[s]]
        /\ currentfds' = currentfds \cup {fd}
        /\ maxSocket' = Larger(maxSocket, fd)
  BY DEF HandleConnection
<1>2. fd \in Fds /\ sockets[fd] = "closed"
  BY LowestFreeClosed
<1>3. maxSocket \in Nat
  BY ProxyAssumption DEF LInv, IInv, TypeOK, ProxyAssumption
<1>4. /\ maxSocket' \in Nat /\ maxSocket <= maxSocket' /\ fd <= maxSocket'
  BY <1>1, <1>2, <1>3 DEF Larger, Fds
<1>5. \A s \in Slots :
        \/ connections'[s] = connections[s] /\ s \notin FirstFreeSlot
        \/ /\ s \in FirstFreeSlot
           /\ connections[s].client_socket = 0
           /\ connections'[s] = [NoConnection EXCEPT !.client_socket = fd]
  BY <1>1 DEF FirstFreeSlot
<1> QED BY <1>1, <1>2, <1>3, <1>4, <1>5 DEF HandleConnection

\* The entry of a client that was just accepted.
LEMMA NewConnection ==
  ASSUME NEW fd
  PROVE  LET c == [NoConnection EXCEPT !.client_socket = fd]
         IN  /\ c.client_socket = fd /\ Held(c) = {fd, 0}
             /\ ~c.connected /\ ~c.stay_connected_setted_up
             /\ ~c.send_final_message /\ ~c.server_read_closed
             /\ c.host = "none" /\ ~c.connect /\ c.server_socket = 0
BY DEF NoConnection, Held

\* What holds of the hosts and of maxSocket holds at first.
LEMMA LoopInvInit == ASSUME ProxyAssumption, Init PROVE LInv
PROOF
<1>1. IInv
  BY InitInv
<1>2. AllKnown /\ AllBelow /\ MaxSocketCovers
  BY DEF Init, AllKnown, Known, AllBelow, Held, NoConnection, MaxSocketCovers,
         Watched
<1> QED BY <1>1, <1>2 DEF LInv

\* Every step keeps it.
LEMMA LoopInvKeeps == ASSUME ProxyAssumption, LInv, [Next]_vars PROVE LInv'
PROOF
<1>1. IInv'
  BY NextKeeps DEF LInv
<1>2. CASE \E c, rd, wr : Visit(c, rd, wr)
  BY <1>1, <1>2, VisitCovers, VisitKnown DEF LInv
<1>3. CASE HandleConnection
  <2>1. PICK fd \in Fds :
           /\ currentfds' = currentfds \cup {fd}
           /\ current_write_fds' = current_write_fds
           /\ maxSocket \in Nat /\ maxSocket' \in Nat
           /\ maxSocket <= maxSocket' /\ fd <= maxSocket'
           /\ \A s \in Slots :
                \/ connections'[s] = connections[s]
                \/ connections'[s] = [NoConnection EXCEPT !.client_socket = fd]
    BY <1>3, AcceptFacts
  <2> DEFINE new == [NoConnection EXCEPT !.client_socket = fd]
  <2>2. Held(new) = {fd, 0} /\ ~new.connected
    BY NewConnection
  <2> HIDE DEF new
  <2>3. AllKnown'
    BY <2>1, <2>2 DEF AllKnown, Known, LInv, new
  <2>4. AllBelow'
    <3> SUFFICES ASSUME NEW s \in Slots, NEW g \in Held(connections'[s])
        PROVE  g <= maxSocket'
      BY DEF AllBelow, Held
    <3>1. CASE connections'[s] = new
      BY <2>1, <2>2, <3>1
    <3>2. CASE connections'[s] = connections[s]
      <4>1. g <= maxSocket /\ connections[s] \in Connection
        BY <3>2 DEF LInv, AllBelow, IInv, TypeOK
      <4>2. g \in Int
        BY <3>2, <4>1, ProxyAssumption DEF Held, Connection, ProxyAssumption
      <4> QED BY <2>1, <4>1, <4>2
    <3> QED BY <2>1, <3>1, <3>2 DEF new
  <2>5. MaxSocketCovers'
    <3> SUFFICES ASSUME NEW g \in Watched' PROVE g <= maxSocket' \/ g = WildFd
      BY DEF MaxSocketCovers
    <3>1. CASE g \in Watched
      <4>1. g <= maxSocket \/ g = WildFd
        BY <3>1 DEF LInv, MaxSocketCovers
      <4>2. g \in Int
        BY <3>1, ProxyAssumption
           DEF LInv, IInv, TypeOK, Watched, Bits, Fds, ProxyAssumption
      <4> QED BY <2>1, <4>1, <4>2
    <3>2. CASE g = fd
      BY <2>1, <3>2
    <3> QED BY <2>1, <3>1, <3>2 DEF Watched
  <2> QED BY <1>1, <2>3, <2>4, <2>5 DEF LInv
<1>4. CASE UNCHANGED <<connections, sockets, currentfds, current_write_fds, maxSocket>>
  <2>1. AllKnown' /\ AllBelow' /\ MaxSocketCovers'
    BY <1>4 DEF LInv, AllKnown, Known, AllBelow, Held, MaxSocketCovers, Watched
  <2> QED BY <1>1, <2>1 DEF LInv
<1> QED BY <1>2, <1>3, <1>4, StepShape

\* It holds of every behaviour.
LEMMA LoopInvariance == Spec => []LInv
PROOF
<1>1. Init => LInv
  BY ProxyAssumption, LoopInvInit
<1>2. LInv /\ [Next]_vars => LInv'
  BY ProxyAssumption, LoopInvKeeps
<1> QED BY <1>1, <1>2, PTL DEF Spec

-----------------------------------------------------------------------------
(* The theorems *)

\* select() always looks at every descriptor that is watched: maxSocket is
\* raised by every handler that opens a descriptor (handleConnection, the
\* connections to the DoH server and to the server).  Only the bit that
\* FD_SET(-1, .) sets may be beyond it.
THEOREM MaxSocketIsEnough == Spec => []MaxSocketCovers
PROOF
<1>1. LInv => MaxSocketCovers
  BY DEF LInv
<1> QED BY <1>1, LoopInvariance, PTL
-----------------------------------------------------------------------------
(* The life cycle *)

phases  == [s \in Slots |-> Phase(connections[s])]
tunnels == [s \in Slots |-> IsTunnel(connections[s])]

\* At first every entry is free.
LEMMA InitIsLife == ASSUME Init PROVE Life!Init
PROOF
<1>1. NoConnection.client_socket = 0
  BY DEF NoConnection
<1>2. \A s \in Slots : connections[s].client_socket = 0
  BY <1>1 DEF Init
<1>3. \A s \in Slots : Phase(connections[s]) = "free" /\ IsTunnel(connections[s]) = FALSE
  BY <1>2, PhaseFree
<1> QED BY <1>3 DEF Life!Init

\* An error reply and a free entry are no tunnel.
LEMMA NoTunnel ==
  ASSUME NEW c, Phase(c) \in {"free", "error"}
  PROVE  IsTunnel(c) = FALSE
BY DEF IsTunnel

\* A visit moves the entry visited on, or nothing moves.
LEMMA VisitIsLife ==
  ASSUME ProxyAssumption, LInv, NEW c, NEW rd, NEW wr, Visit(c, rd, wr)
  PROVE  Life!Next \/ (phases' = phases /\ tunnels' = tunnels)
PROOF
<1>1. n \in Slots /\ connections \in [Slots -> Connection]
  BY CurrentType DEF Visit, LInv, IInv, TypeOK
<1>2. connections'[n] = c /\ \A t \in Slots \ {n} : connections'[t] = connections[t]
  BY <1>1 DEF Visit
<1> DEFINE p == Phase(c)
           b == IsTunnel(c)
<1>3. phases' = [phases EXCEPT ![n] = p]
  BY <1>1, <1>2 DEF phases
<1>4. tunnels' = [tunnels EXCEPT ![n] = b]
  BY <1>1, <1>2 DEF tunnels
<1>5. phases[n] = Phase(current) /\ tunnels[n] = IsTunnel(current)
  BY <1>1 DEF phases, tunnels, current
<1>6. b \in BOOLEAN /\ (p \in {"free", "error"} => b = FALSE)
  BY NoTunnel DEF IsTunnel
<1>7. Advances(current, c)
  BY DEF Visit
<1> HIDE DEF p, b
<1>8. CASE p = phases[n] /\ b = tunnels[n]
  BY <1>1, <1>3, <1>4, <1>8 DEF phases, tunnels
<1>9. ASSUME tunnels[n] = b PROVE tunnels' = tunnels
  BY <1>1, <1>4, <1>9 DEF tunnels
<1>10. CASE phases[n] = "request" /\ p = "resolve"
  BY <1>1, <1>3, <1>4, <1>6, <1>10
     DEF Life!Next, Life!Identify, Life!Move, phases, tunnels
<1>11. CASE /\ phases[n] = "resolve" /\ tunnels[n] = b
            /\ p = IF tunnels[n] THEN "inform" ELSE "handover"
  BY <1>1, <1>3, <1>9, <1>11 DEF Life!Next, Life!Reach, Life!Move, phases, tunnels
<1>12. CASE phases[n] = "inform" /\ p = "handover" /\ tunnels[n] = b
  BY <1>1, <1>3, <1>9, <1>12 DEF Life!Next, Life!Inform, Life!Move, phases, tunnels
<1>13. CASE phases[n] = "handover" /\ p = "relay" /\ tunnels[n] = b
  BY <1>1, <1>3, <1>9, <1>13 DEF Life!Next, Life!StartRelay, Life!Move, phases, tunnels
<1>14. CASE phases[n] \in {"request", "resolve", "inform", "handover"} /\ p = "error"
  BY <1>1, <1>3, <1>4, <1>6, <1>14
     DEF Life!Next, Life!Fail, Life!Move, Life!Forget, phases, tunnels
<1>15. CASE phases[n] \in {"handover", "relay", "error"} /\ p = "free"
  BY <1>1, <1>3, <1>4, <1>6, <1>15
     DEF Life!Next, Life!End, Life!Move, Life!Forget, phases, tunnels
<1> QED
  BY <1>5, <1>7, <1>8, <1>10, <1>11, <1>12, <1>13, <1>14, <1>15
     DEF Advances, p, b

\* A client that finds a free entry starts its life; one that finds none moves
\* nothing.
LEMMA AcceptIsLife ==
  ASSUME ProxyAssumption, LInv, HandleConnection
  PROVE  Life!Next \/ (phases' = phases /\ tunnels' = tunnels)
PROOF
<1>1. PICK fd \in Fds :
        \A s \in Slots :
          \/ connections'[s] = connections[s] /\ s \notin FirstFreeSlot
          \/ /\ s \in FirstFreeSlot
             /\ connections[s].client_socket = 0
             /\ connections'[s] = [NoConnection EXCEPT !.client_socket = fd]
  BY AcceptFacts
<1> DEFINE new == [NoConnection EXCEPT !.client_socket = fd]
<1>2. /\ new.client_socket = fd /\ ~new.connected
      /\ ~new.send_final_message /\ new.host = "none" /\ ~new.connect
  BY NewConnection
<1>3. fd # 0
  BY DEF Fds
<1>4. Phase(new) = "request" /\ IsTunnel(new) = FALSE
  <2> HIDE DEF new
  <2> QED BY <1>2, <1>3 DEF Phase, IsTunnel
<1> HIDE DEF new
<1>5. CASE FirstFreeSlot = {}
  BY <1>1, <1>5 DEF phases, tunnels
<1>6. ASSUME NEW f \in FirstFreeSlot
      PROVE  Life!Next
  <2>1. f \in Slots /\ \A s \in FirstFreeSlot : s = f
    BY <1>6 DEF FirstFreeSlot, Slots
  <2>2. connections'[f] = new /\ connections[f].client_socket = 0
    BY <1>1, <1>6, <2>1 DEF new
  <2>3. \A s \in Slots \ {f} : connections'[s] = connections[s]
    BY <1>1, <2>1
  <2>4. phases[f] = "free" /\ tunnels[f] = FALSE
    BY <2>1, <2>2, PhaseFree DEF phases, tunnels
  <2>5. phases' = [phases EXCEPT ![f] = "request"]
    BY <1>4, <2>1, <2>2, <2>3 DEF phases
  <2>6. tunnels' = tunnels
    <3>1. \A s \in Slots : IsTunnel(connections'[s]) = IsTunnel(connections[s])
      BY <1>4, <2>1, <2>2, <2>3, PhaseFree
    <3> QED BY <3>1 DEF tunnels
  <2> QED BY <2>1, <2>4, <2>5, <2>6
       DEF Life!Next, Life!Accept, Life!Move, phases, tunnels
<1> QED BY <1>5, <1>6

\* Every step of the loop is a step of Lifecycle or moves nothing.
LEMMA StepIsLife ==
  ASSUME ProxyAssumption, LInv, [Next]_vars
  PROVE  Life!Next \/ (phases' = phases /\ tunnels' = tunnels)
PROOF
<1>1. CASE connections' = connections
  BY <1>1 DEF phases, tunnels
<1> QED BY <1>1, StepShape, VisitIsLife, AcceptIsLife

\* The table of connections implements the life cycle of Lifecycle: whatever
\* select() reports and whatever the system calls answer, a connection is
\* accepted, its request read, its server found, a CONNECT informed and only then
\* relayed; it fails before it is relayed or never, and ends in closeAll.
THEOREM LifecycleIsImplemented == Spec => ImplementsLifecycle
PROOF
<1>1. Init => Life!Init
  BY InitIsLife
<1>2. LInv /\ [Next]_vars => [Life!Next]_<<phases, tunnels>>
  BY ProxyAssumption, StepIsLife
<1>3. LInv /\ [Next]_vars => [Life!Next]_<<[s \in Slots |-> Phase(connections[s])],
                                         [s \in Slots |-> IsTunnel(connections[s])]>>
  BY <1>2 DEF phases, tunnels
<1> QED BY <1>1, <1>3, LoopInvariance, PTL DEF Spec, ImplementsLifecycle, Life!Spec
-----------------------------------------------------------------------------
(* What is watched *)

\* At first nothing is watched and no entry is in use.
LEMMA WatchInit == ASSUME ProxyAssumption, Tame, Init PROVE WInv
PROOF
<1>1. LInv
  BY LoopInvInit
<1>2. AllWatched /\ NoneClosed
  BY DEF Init, AllWatched, Watches, NoConnection, NoneClosed
<1> QED BY <1>1, <1>2 DEF WInv

\* select() returned, so that no descriptor it looks at is closed, and it looks
\* at every one that is watched.
LEMMA SelectWatches ==
  ASSUME ProxyAssumption, WInv, Select
  PROVE  NoneClosed'
PROOF
<1>1. sockets' = sockets /\ current_write_fds' = current_write_fds /\ ~EBADF
  BY DEF Select, table
<1>2. ASSUME NEW fd \in current_write_fds, fd \in Fds
      PROVE  sockets[fd] # "closed"
  <2>1. fd <= maxSocket
    BY <1>2 DEF WInv, LInv, MaxSocketCovers, Watched, Tame
  <2> QED BY <1>1, <1>2, <2>1 DEF EBADF, Watched
<1> QED BY <1>1, <1>2 DEF NoneClosed

\* The entry of a client that was just accepted is watched for reading, and not
\* for writing: nobody had left the bit of its descriptor.
LEMMA AcceptWatches ==
  ASSUME ProxyAssumption, WInv, HandleConnection
  PROVE  AllWatched' /\ NoneClosed'
PROOF
<1>1. pc = "accept" /\ LInv /\ IInv
  BY DEF HandleConnection, WInv, LInv
<1>2. PICK fd \in Fds :
        /\ sockets[fd] = "closed"
        /\ sockets' = [sockets EXCEPT ![fd] = "client"]
        /\ currentfds' = currentfds \cup {fd}
        /\ current_write_fds' = current_write_fds
        /\ \A s \in Slots :
             \/ connections'[s] = connections[s]
             \/ connections'[s] = [NoConnection EXCEPT !.client_socket = fd]
  BY <1>1, AcceptFacts
<1>3. fd \notin current_write_fds
  BY <1>1, <1>2 DEF WInv, NoneClosed
<1> DEFINE new == [NoConnection EXCEPT !.client_socket = fd]
<1>4. new.client_socket = fd /\ ~new.stay_connected_setted_up /\ ~new.server_read_closed
  BY NewConnection
<1> HIDE DEF new
<1>5. Watches(new, currentfds', current_write_fds')
  BY <1>2, <1>3, <1>4 DEF Watches
<1>6. ASSUME NEW c, Watches(c, currentfds, current_write_fds)
      PROVE  Watches(c, currentfds', current_write_fds')
  BY <1>2, <1>6 DEF Watches
<1>7. AllWatched'
  <2> SUFFICES ASSUME NEW s \in Slots
      PROVE  Watches(connections'[s], currentfds', current_write_fds')
    BY DEF AllWatched, Watches
  <2>1. Watches(connections[s], currentfds, current_write_fds)
    BY DEF WInv, AllWatched
  <2> QED BY <1>2, <1>5, <1>6, <2>1 DEF new
<1>8. NoneClosed'
  <2>1. sockets \in [Fds -> Kinds]
    BY <1>1 DEF IInv, TypeOK
  <2> QED BY <1>1, <1>2, <2>1 DEF WInv, NoneClosed
<1> QED BY <1>7, <1>8

\* Every step keeps what is watched.
LEMMA WatchKeeps == ASSUME ProxyAssumption, WInv, [Next]_vars PROVE WInv'
PROOF
<1>1. LInv /\ LInv' /\ Tame'
  BY LoopInvKeeps DEF WInv, Tame, Fds
<1>2. CASE \E c, rd, wr : Visit(c, rd, wr)
  BY <1>1, <1>2, VisitWatches DEF WInv
<1>3. CASE HandleConnection
  BY <1>1, <1>3, AcceptWatches DEF WInv
<1>4. CASE /\ UNCHANGED <<connections, sockets, currentfds, current_write_fds, maxSocket>>
           /\ Select \/ UNCHANGED pc \/ pc' # "accept" \/ pc = "accept"
  <2>1. AllWatched'
    BY <1>4 DEF WInv, AllWatched, Watches
  <2>2. NoneClosed'
    BY <1>4, SelectWatches DEF WInv, NoneClosed
  <2> QED BY <1>1, <2>1, <2>2 DEF WInv
<1> QED BY <1>1, <1>2, <1>3, <1>4, StepShape

\* As long as the process has no descriptor with the number of the wild bit.
LEMMA WatchInvariance == Spec /\ Tame => []WInv
PROOF
<1>1. Init /\ Tame => WInv
  BY ProxyAssumption, WatchInit
<1>2. WInv /\ [Next]_vars => WInv'
  BY ProxyAssumption, WatchKeeps
<1> QED BY <1>1, <1>2, PTL DEF Spec

\* No relayed connection waits for a wake-up that cannot come: whoever has bytes
\* to be sent is watched for writing and whoever may still send is watched for
\* reading (handleStayConnected and everything before it that touches the
\* interest sets, in every order in which descriptors become ready).  The
\* hypothesis is needed: where WildFd is a descriptor, a failed connection to the
\* DoH server takes the bit of whoever holds it.
THEOREM RelayKeepsMoving == Spec /\ Tame => []RelayNeverStalls
PROOF
<1>1. WInv => RelayNeverStalls
  <2> SUFFICES ASSUME WInv, NEW s \in Slots,
                      connections[s].stay_connected_setted_up,
                      ~connections[s].send_final_message
      PROVE  LET c == connections[s]
             IN  /\ c.client_socket \in currentfds
                 /\ ~c.server_read_closed => c.server_socket \in currentfds
                 /\ c.request => c.server_socket \in current_write_fds
                 /\ c.response \/ c.server_read_closed =>
                      c.client_socket \in current_write_fds
    BY DEF RelayNeverStalls
  <2>1. Watches(connections[s], currentfds, current_write_fds)
    BY DEF WInv, AllWatched
  <2>2. connections[s].client_socket # 0
    BY DEF WInv, LInv, IInv, AllStaged, Staged, NoConnection
  <2> QED BY <2>1, <2>2 DEF Watches
<1> QED BY <1>1, WatchInvariance, PTL

\* A turn of the relay stops watching whoever has nothing left to get, so that
\* select() does not return at once for ever (the same code, under the same
\* hypothesis).
THEOREM RelayDoesNotSpin == Spec /\ Tame => RelayNeverSpins
PROOF
<1>1. ASSUME WInv, WInv', Relay, connections'[n].client_socket # 0
      PROVE  LET c == connections'[n]
             IN  /\ c.client_socket \in current_write_fds' => c.response
                 /\ c.server_socket \in writefds \cap current_write_fds' => c.request
  <2>1. Staying /\ current.stay_connected_setted_up
    BY <1>1 DEF Relay, Relaying
  <2>2. /\ n \in Slots /\ connections \in [Slots -> Connection]
        /\ current \in Connection
        /\ ~current.send_final_message
        /\ current.client_socket # current.server_socket
    BY <1>1, <2>1, StayingFacts, CurrentType, ProxyAssumption
       DEF WInv, LInv, IInv, TypeOK
  <2>3. PICK cr, sr, sw, cw :
          /\ sw \in WriteOutcomes(current.server_socket,
                                 current.request \/ cr = "data", "serverReset")
          /\ Transfer(cr, sr, sw, cw)
    BY <1>1 DEF Relay
  <2> DEFINE rq == (current.request \/ cr = "data") /\ sw # "all"
             rs == (current.response \/ sr = "data") /\ cw # "all"
             sc == current.server_read_closed \/ sr = "eof"
             c == [current EXCEPT !.request = rq, !.response = rs,
                                  !.server_read_closed = sc]
             rd == currentfds \ {x \in {c.server_socket} : sr = "eof"}
             wr == (current_write_fds
                      \cup {x \in {c.server_socket} : cr = "data"}
                      \cup {x \in {c.client_socket} : sr \in {"data", "eof"}})
                    \ ({x \in {c.server_socket} : sw = "all"}
                         \cup {x \in {c.client_socket} : cw = "all"})
  <2>4. closeAll \/ (LeaveOpen(c, rd, wr) /\ sw # "error")
    BY <2>3 DEF Transfer
  <2>5. ~closeAll
    BY <1>1, <2>2 DEF closeAll, NoConnection
  <2>6. connections'[n] = c /\ current_write_fds' = wr
    BY <2>2, <2>4, <2>5 DEF LeaveOpen, Leave
  <2>7. /\ c.stay_connected_setted_up = current.stay_connected_setted_up
        /\ c.send_final_message = current.send_final_message
        /\ c.server_socket = current.server_socket
    BY <2>2 DEF Connection
  <2>8. rq \in BOOLEAN /\ c.request = rq
    BY <2>2 DEF Connection
  <2>9. c.server_socket \in wr => sw # "all"
    OBVIOUS
  <2>10. current.server_socket \in writefds /\ sw \notin {"all", "error"} => rq
    BY <2>3 DEF WriteOutcomes
  <2> HIDE DEF c, rq, wr
  <2>11. Watches(c, currentfds', current_write_fds')
    BY <1>1, <2>2, <2>6 DEF WInv, AllWatched, Slots
  <2>12. c.client_socket \in current_write_fds' => c.response
    BY <1>1, <2>1, <2>2, <2>6, <2>7, <2>11 DEF Watches
  <2> QED BY <2>4, <2>5, <2>6, <2>7, <2>8, <2>9, <2>10, <2>12
<1>2. WInv /\ WInv' /\ [Next]_vars =>
        [\A s \in Slots :
           LET c == connections'[s]
           IN  Relay /\ n = s /\ c.client_socket # 0 =>
                 /\ c.client_socket \in current_write_fds' => c.response
                 /\ c.server_socket \in writefds \cap current_write_fds' =>
                      c.request]_vars
  BY <1>1
<1> QED BY <1>2, WatchInvariance, PTL DEF Spec, RelayNeverSpins

-----------------------------------------------------------------------------
(* Final messages *)

\* An entry with a final message is watched for writing, unless it is a CONNECT
\* that has got its 200; and only a CONNECT is connected and not informed, so
\* only its visits take the client out of the write set.
Answers(c, wr) ==
  /\ c.send_final_message /\ ~(c.connect /\ c.connection_informed) =>
       c.client_socket \in wr
  /\ c.connected /\ ~c.connection_informed => c.connect

AllAnswered == \A s \in Slots : Answers(connections[s], current_write_fds)

\* No client resets its connection.
NoReset == "clientReset" \notin Faults

AInv == WInv /\ NoReset /\ AllAnswered

\* What a handler leaves, and where.
LEMMA Left ==
  ASSUME TypeOK, n \in Slots, NEW c, NEW rd, NEW wr,
         Proceed(c, rd, wr) \/ Leave(c, rd, wr) \/ LeaveOpen(c, rd, wr)
  PROVE  /\ connections'[n] = c /\ currentfds' = rd /\ current_write_fds' = wr
         /\ \A t \in Slots \ {n} : connections'[t] = connections[t]
BY DEF TypeOK, Proceed, Leave, LeaveOpen

\* closeAll frees the entry.
LEMMA ClosedLeft ==
  ASSUME TypeOK, n \in Slots, closeAll
  PROVE  /\ connections'[n] = NoConnection
         /\ \A t \in Slots \ {n} : connections'[t] = connections[t]
BY DEF TypeOK, closeAll

\* What the parser learns is no final message and no attempt to connect, and the
\* method is learnt with the host.
LEMMA ParsedFlag ==
  ASSUME NEW c \in Connection, NEW d \in Parsed(c)
  PROVE  /\ d \in Connection
         /\ d.send_final_message = c.send_final_message
         /\ d.tried_direct = c.tried_direct
         /\ d.connected = c.connected
         /\ d.connection_informed = c.connection_informed
         /\ c.host # "none" => d.connect = c.connect
PROOF
<1>1. CASE d = c
  BY <1>1
<1>2. CASE \E h \in {"ip", "name"}, b \in BOOLEAN : d = Found(c, h, b)
  <2>1. PICK h \in {"ip", "name"}, b \in BOOLEAN : d = Found(c, h, b)
    BY <1>2
  <2>2. /\ d \in Connection
        /\ d.send_final_message = c.send_final_message
        /\ d.tried_direct = c.tried_direct
        /\ d.connected = c.connected
        /\ d.connection_informed = c.connection_informed
    BY <2>1 DEF Found, Connection
  <2>3. c.host # "none" => d = c
    BY DEF Parsed
  <2> QED BY <2>2, <2>3
<1> QED BY <1>1, <1>2 DEF Parsed

\* handleReadHttpFromUser: only a bad request makes a final message, and the client
\* is watched for it; a client that was read from had none.
LEMMA ReadRequestAnswers ==
  ASSUME ProxyAssumption, AInv, ReadRequest
  PROVE  Answers(connections'[n], current_write_fds')
PROOF
<1>1. pc # "accept" /\ ~current.send_final_message /\ current.client_socket # 0
  BY DEF ReadRequest, ClientSilent, ClientReadError, ClientEof, ClientData,
         ClientBadRequest, Requesting, Serving
<1>2. TypeOK /\ n \in Slots /\ current \in Connection
  BY <1>1, CurrentType DEF AInv, WInv, LInv, IInv
<1> DEFINE Uninformed(c) == c.connected /\ ~c.connection_informed => c.connect
<1>8. Uninformed(current) /\ Known(current)
  BY <1>2 DEF AInv, WInv, LInv, AllAnswered, Answers, AllKnown, current
<1>9. ASSUME NEW c \in Parsed(current) PROVE Uninformed(c)
  <2>1. /\ c.connected = current.connected
        /\ c.connection_informed = current.connection_informed
        /\ current.host # "none" => c.connect = current.connect
    BY <1>2, ParsedFlag
  <2> QED BY <1>8, <2>1 DEF Known
<1>3. CASE ClientSilent
  BY <1>1, <1>2, <1>3, <1>8, Left DEF ClientSilent, Answers
<1>4. ~ClientReadError
  BY DEF ClientReadError, AInv, NoReset
<1>5. CASE ClientEof
  <2> DEFINE c == [current EXCEPT !.client_read_closed = TRUE]
  <2>1. connections'[n] = c
    BY <1>2, <1>5, Left DEF ClientEof
  <2>2. ~c.send_final_message
    BY <1>1, <1>2 DEF Connection
  <2>3. Uninformed(c)
    BY <1>2, <1>8 DEF Connection
  <2> HIDE DEF c
  <2> QED BY <2>1, <2>2, <2>3 DEF Answers
<1>6. CASE ClientData
  <2>1. PICK c \in Parsed(current) : Proceed(c, currentfds, current_write_fds)
    BY <1>6 DEF ClientData
  <2>2. connections'[n] = c
    BY <1>2, <2>1, Left
  <2>3. ~c.send_final_message
    BY <1>1, <1>2, <2>1, ParsedFlag
  <2>4. Uninformed(c)
    BY <1>9, <2>1
  <2> QED BY <2>2, <2>3, <2>4 DEF Answers
<1>7. CASE ClientBadRequest
  <2>1. PICK c \in Parsed(current) :
          Proceed([c EXCEPT !.send_final_message = TRUE],
                  FinalReadFds(c, currentfds), FinalWriteFds(c, current_write_fds))
    BY <1>7 DEF ClientBadRequest
  <2>2. /\ connections'[n] = [c EXCEPT !.send_final_message = TRUE]
        /\ current_write_fds' = FinalWriteFds(c, current_write_fds)
    BY <1>2, <2>1, Left
  <2>3. c \in Connection
    BY <1>2, <2>1, ParsedFlag
  <2>4. connections'[n].client_socket = c.client_socket
    BY <2>2, <2>3 DEF Connection
  <2>5. /\ connections'[n].connected = c.connected
        /\ connections'[n].connection_informed = c.connection_informed
        /\ connections'[n].connect = c.connect
    BY <2>2, <2>3 DEF Connection
  <2>6. Uninformed(c)
    BY <1>9, <2>1
  <2> QED BY <2>2, <2>4, <2>5, <2>6 DEF Answers, FinalWriteFds
<1> QED BY <1>3, <1>4, <1>5, <1>6, <1>7 DEF ReadRequest

\* prepareFinalMessage watches the client.
LEMMA ErrorAnswers ==
  ASSUME TypeOK, n \in Slots, NEW c \in Connection, NEW rd, NEW wr,
         ~c.connected, InternalServerError(c, rd, wr)
  PROVE  Answers(connections'[n], current_write_fds')
PROOF
<1> DEFINE d == [c EXCEPT !.send_final_message = TRUE]
<1>1. connections'[n] = d /\ current_write_fds' = FinalWriteFds(c, wr)
  BY Left DEF InternalServerError
<1>2. d.client_socket = c.client_socket /\ ~d.connected
  BY DEF Connection
<1> QED BY <1>1, <1>2 DEF Answers, FinalWriteFds

\* Reaching a server takes no bit from the write set.
LEMMA ReachedAnswers ==
  ASSUME TypeOK, n \in Slots, current \in Connection, NEW rd, NEW wr,
         ~current.connection_informed,
         ServerReached(current, rd, wr), Answers(current, wr)
  PROVE  Answers(connections'[n], current_write_fds')
PROOF
<1>1. PICK fd \in LowestFree(sockets) :
        Leave([current EXCEPT !.server_socket = fd, !.connected = TRUE,
                              !.connection_informed = ~current.connect, !.doh_socket = 0],
              rd \ {Bit(current.doh_socket)},
              wr \cup {IF current.connect THEN current.client_socket ELSE fd})
  BY DEF ServerReached
<1> DEFINE c == [current EXCEPT !.server_socket = fd, !.connected = TRUE,
                              !.connection_informed = ~current.connect, !.doh_socket = 0]
<1>2. /\ connections'[n] = c
      /\ current_write_fds' = wr \cup {IF current.connect THEN current.client_socket ELSE fd}
  BY <1>1, Left
<1>3. /\ c.client_socket = current.client_socket
      /\ c.send_final_message = current.send_final_message
      /\ c.connection_informed = ~current.connect
      /\ c.connect = current.connect /\ current.connect \in BOOLEAN
  BY DEF Connection
<1> HIDE DEF c
<1>4. c.send_final_message => c.client_socket \in current_write_fds'
  BY <1>2, <1>3 DEF Answers
<1>5. ~c.connection_informed => c.connect
  BY <1>3
<1> QED BY <1>2, <1>4, <1>5 DEF Answers

\* Sending the query takes the bit of the DoH socket only, which is not the client's.
LEMMA SentAnswers ==
  ASSUME ProxyAssumption, AInv, pc # "accept", current.client_socket # 0,
         NEW f \in AfterSend
  PROVE  Answers(current, f.wr)
PROOF
<1>1. n \in Slots /\ current.client_socket # current.doh_socket
  BY CurrentType, CurrentApart DEF AInv, WInv, LInv, IInv
<1>2. Answers(current, current_write_fds)
  BY <1>1 DEF AInv, AllAnswered, current
<1>3. CASE f = [rd |-> currentfds, wr |-> current_write_fds]
  BY <1>2, <1>3
<1>4. CASE \E fd \in writefds \cap {current.doh_socket} :
             f = [rd |-> currentfds \cup {fd}, wr |-> current_write_fds \ {fd}]
  BY <1>1, <1>2, <1>4 DEF Answers
<1> QED BY <1>3, <1>4 DEF AfterSend

\* DoHHandlingZone.
LEMMA ZoneAnswers ==
  ASSUME ProxyAssumption, AInv, DoHHandlingZone
  PROVE  Answers(connections'[n], current_write_fds')
PROOF
<1>1. Resolving
  BY DEF DoHHandlingZone, ConnectDirect, StartDoH, QuerySent, DoHPending,
         SwitchFamily, AnswerReachesServer, AnswerGivesUp, Answered, AwaitingDoH
<1>2. LInv /\ TypeOK
  BY DEF AInv, WInv, LInv, IInv
<1>3. pc # "accept" /\ current.client_socket # 0 /\ current \in Connection
  BY <1>1, <1>2, ResolvingFacts
<1>4. n \in Slots /\ current.client_socket # current.doh_socket
  BY <1>2, <1>3, CurrentType, CurrentApart
<1>5. Answers(current, current_write_fds)
  BY <1>4 DEF AInv, AllAnswered, current
<1>13. ~current.connected /\ ~current.connection_informed
  BY <1>1, <1>2, ResolvingFacts
<1>6. CASE ConnectDirect
  BY <1>2, <1>3, <1>4, <1>5, <1>6, <1>13, ReachedAnswers, ErrorAnswers
     DEF ConnectDirect, ServerUnreachable
<1>7. CASE StartDoH
  <2>1. PICK o \in connectToDoH(sockets) :
          LET c == [current EXCEPT !.tried_direct = TRUE, !.doh_socket = o.socket]
          IN  \/ Leave(c, currentfds, current_write_fds \cup {o.socket})
              \/ /\ o.socket = -1
                 /\ InternalServerError(c, currentfds, current_write_fds)
    BY <1>7 DEF StartDoH
  <2> DEFINE c == [current EXCEPT !.tried_direct = TRUE, !.doh_socket = o.socket]
  <2>2. CASE Leave(c, currentfds, current_write_fds \cup {o.socket})
    <3>1. connections'[n] = c /\ current_write_fds' = current_write_fds \cup {o.socket}
      BY <1>2, <1>4, <2>2, Left
    <3>2. /\ c.client_socket = current.client_socket
          /\ c.send_final_message = current.send_final_message
          /\ c.connection_informed = current.connection_informed
          /\ c.connect = current.connect /\ c.connected = current.connected
      BY <1>3 DEF Connection
    <3> HIDE DEF c
    <3> QED BY <1>5, <3>1, <3>2 DEF Answers
  <2>3. CASE o.socket = -1 /\ InternalServerError(c, currentfds, current_write_fds)
    <3>1. o.socket \in -1 .. MaxFd
      BY <2>3, ProxyAssumption DEF ProxyAssumption
    <3>2. c \in Connection /\ ~c.connected
      BY <1>3, <1>13, <3>1 DEF Connection
    <3> HIDE DEF c
    <3> QED BY <1>2, <1>4, <2>3, <3>2, ErrorAnswers
  <2> QED BY <2>1, <2>2, <2>3
<1>8. CASE QuerySent
  <2>1. /\ connections'[n] = current
        /\ current_write_fds' = current_write_fds \ {current.doh_socket}
    BY <1>2, <1>4, <1>8, Left DEF QuerySent
  <2> QED BY <1>4, <1>5, <2>1 DEF Answers
<1>9. CASE DoHPending
  BY <1>2, <1>4, <1>5, <1>9, Left DEF DoHPending
<1>10. CASE SwitchFamily
  <2>1. PICK f \in AfterSend, o \in connectToDoH(Close(sockets, {current.doh_socket})) :
          Leave([current EXCEPT !.familyFlag = 1, !.doh_socket = o.socket],
                f.rd \ {Bit(o.socket)}, f.wr \cup {Bit(o.socket)})
    BY <1>10 DEF SwitchFamily
  <2> DEFINE c == [current EXCEPT !.familyFlag = 1, !.doh_socket = o.socket]
  <2>2. connections'[n] = c /\ current_write_fds' = f.wr \cup {Bit(o.socket)}
    BY <1>2, <1>4, <2>1, Left
  <2>3. Answers(current, f.wr)
    BY <1>3, <2>1, SentAnswers
  <2>4. /\ c.client_socket = current.client_socket
        /\ c.send_final_message = current.send_final_message
        /\ c.connection_informed = current.connection_informed
        /\ c.connect = current.connect /\ c.connected = current.connected
    BY <1>3 DEF Connection
  <2> HIDE DEF c
  <2> QED BY <2>2, <2>3, <2>4 DEF Answers
<1>11. CASE AnswerReachesServer
  <2>1. PICK f \in AfterSend : ServerReached(current, f.rd, f.wr)
    BY <1>11 DEF AnswerReachesServer
  <2>2. Answers(current, f.wr)
    BY <1>3, <2>1, SentAnswers
  <2> QED BY <1>2, <1>3, <1>4, <1>13, <2>1, <2>2, ReachedAnswers
<1>12. CASE AnswerGivesUp
  <2>1. PICK f \in AfterSend : InternalServerError(current, f.rd, f.wr)
    BY <1>12 DEF AnswerGivesUp, ServerUnreachable
  <2> QED BY <1>2, <1>3, <1>4, <1>13, <2>1, ErrorAnswers
<1> QED BY <1>6, <1>7, <1>8, <1>9, <1>10, <1>11, <1>12 DEF DoHHandlingZone

\* The rest of the second half: only a client that got the 200 of its CONNECT is
\* taken out.
LEMMA SecondHalfAnswers ==
  ASSUME ProxyAssumption, AInv,
         NoHostYet \/ ConnectionInformed \/ InformPending \/ StayConnected
  PROVE  Answers(connections'[n], current_write_fds')
PROOF
<1>1. pc # "accept"
  BY DEF NoHostYet, ConnectionInformed, InformPending, StayConnected, Informing, Proceeding
<1>2. TypeOK /\ n \in Slots /\ current \in Connection
  BY <1>1, CurrentType DEF AInv, WInv, LInv, IInv
<1>3. Answers(current, current_write_fds)
  BY <1>2 DEF AInv, AllAnswered, current
<1>4. CASE NoHostYet \/ InformPending
  BY <1>2, <1>3, <1>4, Left DEF NoHostYet, InformPending
<1>5. CASE ConnectionInformed
  <2> DEFINE c == [current EXCEPT !.connection_informed = TRUE, !.stay_connected = TRUE]
  <2>1. connections'[n] = c
    BY <1>2, <1>5, Left DEF ConnectionInformed
  <2>2. c.connection_informed /\ c.connect = current.connect
    BY <1>2 DEF Connection
  <2>3. current.connect
    BY <1>3, <1>5 DEF ConnectionInformed, Informing, Answers
  <2> HIDE DEF c
  <2> QED BY <2>1, <2>2, <2>3 DEF Answers
<1>6. CASE StayConnected
  <2> DEFINE c == [current EXCEPT !.stay_connected = TRUE]
  <2>1. connections'[n] = c /\ current_write_fds' = current_write_fds
    BY <1>2, <1>6, Left DEF StayConnected
  <2>2. /\ c.client_socket = current.client_socket
        /\ c.send_final_message = current.send_final_message
        /\ c.connection_informed = current.connection_informed
        /\ c.connect = current.connect /\ c.connected = current.connected
    BY <1>2 DEF Connection
  <2> HIDE DEF c
  <2> QED BY <1>3, <2>1, <2>2 DEF Answers
<1> QED BY <1>4, <1>5, <1>6

\* handleFinalMessage and handleStayConnected: the first closes the connection or
\* leaves it, the second is for entries without a final message and makes none.
LEMMA OtherAnswers ==
  ASSUME ProxyAssumption, AInv,
         FinalMessageSent \/ FinalMessagePending \/ HandleStayConnected
  PROVE  Answers(connections'[n], current_write_fds')
PROOF
<1>1. pc # "accept"
  BY DEF FinalMessageSent, FinalMessagePending, HandleStayConnected, CloseFinished,
         SetUpRelay, Relay, Relaying, Staying, Serving
<1>2. TypeOK /\ n \in Slots /\ current \in Connection
  BY <1>1, CurrentType DEF AInv, WInv, LInv, IInv
<1>3. Answers(current, current_write_fds)
  BY <1>2 DEF AInv, AllAnswered, current
<1>4. CASE closeAll
  BY <1>2, <1>4, ClosedLeft DEF Answers, NoConnection
<1>5. CASE FinalMessagePending
  BY <1>2, <1>3, <1>5, Left DEF FinalMessagePending
<1>6. ASSUME NEW c, NEW rd, NEW wr, LeaveOpen(c, rd, wr), ~c.send_final_message,
             c.connected /\ ~c.connection_informed => c.connect
      PROVE  Answers(connections'[n], current_write_fds')
  <2>1. connections'[n] = c
    BY <1>2, <1>6, Left
  <2> QED BY <1>6, <2>1 DEF Answers
<1>7. CASE SetUpRelay
  <2> DEFINE pending == current.request /\ ~current.connect
             c == [current EXCEPT !.stay_connected_setted_up = TRUE,
                                  !.request = pending, !.response = FALSE]
             wr == IF pending THEN current_write_fds \cup {current.server_socket}
                              ELSE current_write_fds
  <2>1. LeaveOpen(c, currentfds \cup {current.server_socket}, wr) /\ ~current.send_final_message
    BY <1>7 DEF SetUpRelay, Staying
  <2>2. ~c.send_final_message
    BY <1>2, <2>1 DEF Connection
  <2>3. c.connected /\ ~c.connection_informed => c.connect
    BY <1>2, <1>3 DEF Connection, Answers
  <2> HIDE DEF c, wr
  <2> QED BY <1>6, <2>1, <2>2, <2>3
<1>8. CASE Relay
  <2>1. PICK cr, sr, sw, cw : Transfer(cr, sr, sw, cw)
    BY <1>8 DEF Relay
  <2> DEFINE rq == (current.request \/ cr = "data") /\ sw # "all"
             rs == (current.response \/ sr = "data") /\ cw # "all"
             sc == current.server_read_closed \/ sr = "eof"
             c == [current EXCEPT !.request = rq, !.response = rs,
                                  !.server_read_closed = sc]
             rd == currentfds \ {x \in {c.server_socket} : sr = "eof"}
             wr == (current_write_fds
                      \cup {x \in {c.server_socket} : cr = "data"}
                      \cup {x \in {c.client_socket} : sr \in {"data", "eof"}})
                    \ ({x \in {c.server_socket} : sw = "all"}
                         \cup {x \in {c.client_socket} : cw = "all"})
  <2>2. closeAll \/ LeaveOpen(c, rd, wr)
    BY <2>1 DEF Transfer
  <2>3. ~c.send_final_message
    BY <1>2, <1>8 DEF Connection, Relay, Relaying, Staying
  <2>4. c.connected /\ ~c.connection_informed => c.connect
    BY <1>2, <1>3 DEF Connection, Answers
  <2> HIDE DEF c, rd, wr
  <2> QED BY <1>4, <1>6, <2>2, <2>3, <2>4
<1> QED BY <1>4, <1>5, <1>7, <1>8
        DEF FinalMessageSent, HandleStayConnected, CloseFinished
\* Every step keeps it: the entries that are not visited keep their bits.
LEMMA AnswersKeep == ASSUME ProxyAssumption, AInv, [Next]_vars PROVE AInv'
PROOF
<1>1. WInv' /\ NoReset'
  BY WatchKeeps DEF AInv, NoReset
<1>2. LInv /\ IInv /\ TypeOK /\ Tame /\ AllStaged /\ AllAnswered
  BY DEF AInv, WInv, LInv, IInv
<1>3. CASE \/ FinalMessageSent \/ FinalMessagePending \/ ReadRequest
           \/ DoHHandlingZone \/ NoHostYet \/ ConnectionInformed
           \/ InformPending \/ StayConnected \/ HandleStayConnected
  <2>1. Answers(connections'[n], current_write_fds')
    BY <1>3, ReadRequestAnswers, ZoneAnswers, SecondHalfAnswers, OtherAnswers
  <2>2. PICK c, rd, wr : Visit(c, rd, wr)
    BY <1>2, <1>3, FinalMessageVisits, ReadRequestVisits, ZoneVisits,
       SecondHalfVisits, StayVisits
  <2>3. n \in Slots /\ connections \in [Slots -> Connection] /\ pc # "accept"
    BY <1>2, <2>2, CurrentType DEF Visit, TypeOK
  <2>4. /\ \A t \in Slots \ {n} : connections'[t] = connections[t]
        /\ current_write_fds' = wr
    BY <2>2, <2>3 DEF Visit
  <2>5. ASSUME NEW t \in Slots \ {n} PROVE Answers(connections[t], wr)
    <3> DEFINE d == connections[t]
    <3>1. d \in Connection /\ Staged(d) /\ Answers(d, current_write_fds)
      BY <1>2, <2>3 DEF AllStaged, AllAnswered
    <3>2. CASE d.client_socket = 0
      BY <3>1, <3>2 DEF Staged, NoConnection, Answers
    <3>3. CASE d.client_socket # 0
      <4>1. d.client_socket \in Held(d) /\ d.client_socket > 0
        BY <3>1, <3>3, ProxyAssumption DEF Held, Connection, ProxyAssumption
      <4>2. d.client_socket \in Fds /\ d.client_socket \notin Held(current) \cup Held(c)
        BY <1>2, <2>2, <2>3, <4>1, OthersApart DEF Visit
      <4>3. d.client_socket \in Bits /\ d.client_socket # WildFd
        BY <1>2, <4>2 DEF Bits, Tame
      <4>4. d.client_socket \in wr <=> d.client_socket \in current_write_fds
        BY <2>2, <4>2, <4>3 DEF Visit, Touches
      <4> HIDE DEF d
      <4>5. Answers(d, wr)
        BY <3>1, <4>4 DEF Answers
      <4> QED BY <4>5 DEF d
    <3> QED BY <3>2, <3>3
  <2>6. AllAnswered'
    <3> SUFFICES ASSUME NEW s \in Slots
        PROVE  Answers(connections'[s], current_write_fds')
      BY DEF AllAnswered, Answers
    <3> QED BY <2>1, <2>4, <2>5
  <2> QED BY <1>1, <2>6 DEF AInv
<1>4. CASE HandleConnection
  <2>1. PICK fd \in Fds :
           /\ current_write_fds' = current_write_fds
           /\ \A s \in Slots :
                \/ connections'[s] = connections[s]
                \/ connections'[s] = [NoConnection EXCEPT !.client_socket = fd]
    BY <1>2, <1>4, AcceptFacts
  <2>2. /\ ~[NoConnection EXCEPT !.client_socket = fd].send_final_message
        /\ ~[NoConnection EXCEPT !.client_socket = fd].connected
    BY NewConnection
  <2>3. AllAnswered'
    BY <1>2, <2>1, <2>2 DEF AllAnswered, Answers
  <2> QED BY <1>1, <2>3 DEF AInv
<1>5. CASE Select \/ SelectFails \/ NoNewConnection \/ SkipConnection \/ UNCHANGED vars
  <2>1. AllAnswered'
    BY <1>2, <1>5 DEF AllAnswered, Answers, Select, SelectFails, NoNewConnection,
       SkipConnection, table, vars
  <2> QED BY <1>1, <2>1 DEF AInv
<1> QED BY <1>3, <1>4, <1>5 DEF Next

\* The client of an entry that has a final message is watched for writing at every
\* select(), whatever the message comes from (prepareFinalMessage in
\* handleReadHttpFromUser and in DoHHandlingZone) and whatever else the visit did to
\* the write set, except for a CONNECT whose 200 is sent: there
\* handleInformConnection may take the bit away again in the same visit, and the
\* entry waits for ever.  That no client resets its connection is needed: the
\* handler of a failed read takes the client out of the sets; and so is Tame, as the
\* bit may be taken away.
THEOREM FinalMessageIsAwaited == Spec /\ Tame /\ NoReset => []FinalMessageAwaitsHttpClient
PROOF
<1>1. Init /\ Tame /\ NoReset => AInv
  <2> SUFFICES ASSUME Init, Tame, NoReset PROVE AInv
    OBVIOUS
  <2>1. WInv
    BY ProxyAssumption, WatchInit
  <2>2. AllAnswered
    BY DEF Init, AllAnswered, Answers, NoConnection
  <2> QED BY <2>1, <2>2 DEF AInv
<1>2. AInv /\ [Next]_vars => AInv'
  BY ProxyAssumption, AnswersKeep
<1>3. AInv => FinalMessageAwaitsHttpClient
  BY DEF AInv, AllAnswered, Answers, FinalMessageAwaitsHttpClient
<1> QED BY <1>1, <1>2, <1>3, PTL DEF Spec


-----------------------------------------------------------------------------
(* Descriptors that are watched and closed *)

\* A change to the AAAA query gets back the number of the socket it closed.
NumberKept ==
  SwitchFamily /\ current.doh_socket > 0 => sockets'[current.doh_socket] # "closed"

NoneWatchedClosed == \A fd \in Watched \cap Fds : sockets[fd] # "closed"

\* The entry of s is still to be visited in this turn.
Awaits(s) == pc = "accept" \/ (pc \in {"serve", "proceed"} /\ s >= n)

\* The DoH socket of an entry that waits for the answer, or was reported to have
\* one, is not watched for writing.
SentOnce ==
  \A s \in Slots :
    LET fd == connections[s].doh_socket
    IN  fd > 0 /\ (fd \in currentfds \/ (Awaits(s) /\ fd \in readfds))
          => fd \notin current_write_fds

\* An entry has no DoH socket before it has asked for one.
DirectFirst ==
  \A s \in Slots : ~connections[s].tried_direct => connections[s].doh_socket = 0

\* A table of one entry closes no descriptor below the DoH socket of that entry.
LowerOpen ==
  CLIENTS = 1 =>
    \A s \in Slots : \A fd \in Fds :
      fd < connections[s].doh_socket => sockets[fd] # "closed"

OInv == LInv /\ Tame /\ NoneWatchedClosed /\ SentOnce /\ DirectFirst /\ LowerOpen

\* What a visit leaves as c, rd and wr, with descriptors open as tab says, is
\* in order: what is watched is open, the socket of a query that was sent is watched
\* for reading only, and the DoH socket is what it should be.
Orderly(c, rd, wr, tab) ==
  /\ \A fd \in Fds : fd \in rd \cup wr => tab[fd] # "closed"
  /\ c.doh_socket > 0 /\ c.doh_socket \in rd => c.doh_socket \notin wr
  /\ ~c.tried_direct => c.doh_socket = 0
  /\ CLIENTS = 1 => \A fd \in Fds : fd < c.doh_socket => tab[fd] # "closed"

\* The same in the middle of a visit, when what select() reported is still used.
StillOrderly(c, wr) ==
  c.doh_socket > 0 /\ c.doh_socket \in readfds => c.doh_socket \notin wr

\* What is known of the entry visited.
LEMMA CurrentOrderly ==
  ASSUME ProxyAssumption, OInv, pc # "accept", current.client_socket # 0
  PROVE  /\ n \in Slots /\ current \in Connection
         /\ Orderly(current, currentfds, current_write_fds, sockets)
         /\ pc \in {"serve", "proceed"} => StillOrderly(current, current_write_fds)
         /\ sockets[current.client_socket] # "closed"
         /\ current.server_socket # 0 => sockets[current.server_socket] # "closed"
         /\ current.client_socket # current.doh_socket
         /\ current.server_socket # 0 => current.server_socket # current.doh_socket
PROOF
<1>1. LInv /\ IInv /\ TypeOK
  BY DEF OInv, LInv, IInv
<1>2. n \in Slots /\ current \in Connection /\ n \in Nat
  BY <1>1, CurrentType, ProxyAssumption DEF Slots
<1>3. /\ current.client_socket # current.doh_socket
      /\ current.server_socket # 0 => current.server_socket # current.doh_socket
  BY <1>1, CurrentApart
<1>4. OpenFor(current, sockets)
  BY <1>1, CurrentFacts
<1>5. Orderly(current, currentfds, current_write_fds, sockets)
  BY <1>2 DEF OInv, NoneWatchedClosed, Watched, SentOnce, DirectFirst, LowerOpen, current, Orderly
<1>6. pc \in {"serve", "proceed"} => StillOrderly(current, current_write_fds)
  BY <1>2 DEF OInv, SentOnce, Awaits, current, StillOrderly
<1> QED BY <1>2, <1>3, <1>4, <1>5, <1>6 DEF OpenFor

\* A handler that opens and closes nothing and adds no more than its client and its
\* server to what is watched.
LEMMA SameOrderly ==
  ASSUME ProxyAssumption, OInv, pc # "accept", current.client_socket # 0,
         NEW c, NEW rd, NEW wr,
         c.doh_socket = current.doh_socket, c.tried_direct = current.tried_direct,
         rd \ {current.client_socket, current.server_socket} \subseteq currentfds,
         wr \ {current.client_socket, current.server_socket} \subseteq current_write_fds
  PROVE  /\ Orderly(c, rd, wr, sockets)
         /\ pc \in {"serve", "proceed"} => StillOrderly(c, wr)
PROOF
<1>1. /\ Orderly(current, currentfds, current_write_fds, sockets)
      /\ pc \in {"serve", "proceed"} => StillOrderly(current, current_write_fds)
      /\ sockets[current.client_socket] # "closed"
      /\ current.server_socket # 0 => sockets[current.server_socket] # "closed"
      /\ current.client_socket # current.doh_socket
      /\ current.server_socket # 0 => current.server_socket # current.doh_socket
  BY CurrentOrderly
<1>2. 0 \notin Fds
  BY DEF Fds
<1>3. \A fd \in Fds : fd \in rd \cup wr => sockets[fd] # "closed"
  BY <1>1, <1>2 DEF Orderly
<1>4. c.doh_socket > 0 =>
        /\ c.doh_socket \in rd => c.doh_socket \in currentfds
        /\ c.doh_socket \in wr => c.doh_socket \in current_write_fds
  BY <1>1
<1> QED BY <1>1, <1>3, <1>4 DEF Orderly, StillOrderly

\* prepareFinalMessage watches the client only, which is open.
LEMMA FinalOrderly ==
  ASSUME ProxyAssumption, OInv, pc # "accept", current.client_socket # 0,
         NEW c \in Connection, NEW d, NEW rd, NEW wr, NEW tab,
         c.client_socket = current.client_socket, c.client_socket # c.doh_socket,
         d = [c EXCEPT !.send_final_message = TRUE],
         tab[c.client_socket] # "closed",
         \A fd \in Fds : fd \in rd \cup wr => tab[fd] # "closed",
         ~c.tried_direct => c.doh_socket = 0,
         CLIENTS = 1 => \A fd \in Fds : fd < c.doh_socket => tab[fd] # "closed"
  PROVE  /\ Orderly(d, FinalReadFds(c, rd), FinalWriteFds(c, wr), tab)
         /\ StillOrderly(d, FinalWriteFds(c, wr))
PROOF
<1>1. d.doh_socket = c.doh_socket /\ d.tried_direct = c.tried_direct
  BY DEF Connection
<1>2. c.doh_socket > 0 => Bit(c.doh_socket) = c.doh_socket
  BY DEF Bit
<1> QED BY <1>1, <1>2 DEF Orderly, StillOrderly, FinalReadFds, FinalWriteFds, BitsOf

\* closeAll takes out of what is watched all that it closes.
LEMMA ClosedOrderly ==
  ASSUME ProxyAssumption, OInv, pc # "accept", current.client_socket # 0, closeAll
  PROVE  Orderly(NoConnection, currentfds', current_write_fds', sockets')
PROOF
<1>1. /\ currentfds' = currentfds \ BitsOf(current)
      /\ current_write_fds' = current_write_fds \ BitsOf(current)
      /\ sockets' = Close(sockets, {current.doh_socket, current.client_socket,
                                    current.server_socket})
  BY DEF closeAll
<1>2. Orderly(current, currentfds, current_write_fds, sockets)
  BY CurrentOrderly
<1>3. ASSUME NEW fd \in Fds, fd \in currentfds' \cup current_write_fds'
      PROVE  sockets'[fd] # "closed"
  <2>1. fd # -1
    BY DEF Fds
  <2>2. fd \notin {current.doh_socket, current.client_socket, current.server_socket}
    BY <1>1, <1>3, <2>1 DEF BitsOf, Bit
  <2>3. sockets[fd] # "closed"
    BY <1>1, <1>2, <1>3 DEF Orderly
  <2> QED BY <1>1, <2>2, <2>3 DEF Close
<1>4. \A fd \in Fds : ~(fd < 0)
  BY DEF Fds
<1> QED BY <1>3, <1>4 DEF Orderly, NoConnection

-----------------------------------------------------------------------------
(* The handlers *)

\* handleReadHttpFromUser.
LEMMA ReadRequestOrderly ==
  ASSUME ProxyAssumption, OInv, ReadRequest
  PROVE  /\ Orderly(connections'[n], currentfds', current_write_fds', sockets')
         /\ StillOrderly(connections'[n], current_write_fds')
PROOF
<1>1. pc = "serve" /\ pc # "accept" /\ current.client_socket # 0
  BY DEF ReadRequest, ClientSilent, ClientReadError, ClientEof, ClientData,
         ClientBadRequest, Requesting, Serving
<1>2. TypeOK /\ n \in Slots /\ current \in Connection
  BY <1>1, CurrentType DEF OInv, LInv, IInv
<1>3. ASSUME NEW c, NEW rd, NEW wr, Proceed(c, rd, wr),
             c.doh_socket = current.doh_socket, c.tried_direct = current.tried_direct,
             rd \ {current.client_socket, current.server_socket} \subseteq currentfds,
             wr \ {current.client_socket, current.server_socket} \subseteq current_write_fds
      PROVE  /\ Orderly(connections'[n], currentfds', current_write_fds', sockets')
             /\ StillOrderly(connections'[n], current_write_fds')
  <2>1. Orderly(c, rd, wr, sockets) /\ StillOrderly(c, wr)
    BY <1>1, <1>3, SameOrderly
  <2>2. /\ connections'[n] = c /\ currentfds' = rd /\ current_write_fds' = wr
        /\ sockets' = sockets
    BY <1>2, <1>3, Left DEF Proceed
  <2> QED BY <2>1, <2>2
<1>4. CASE ClientSilent
  BY <1>3, <1>4 DEF ClientSilent
<1>5. CASE ClientReadError
  <2> DEFINE c == [current EXCEPT !.send_final_message = TRUE]
             rd == FinalWriteFds(current, FinalReadFds(current, currentfds))
  <2>1. Proceed(c, rd, current_write_fds)
    BY <1>5 DEF ClientReadError
  <2>2. c.doh_socket = current.doh_socket /\ c.tried_direct = current.tried_direct
    BY <1>2 DEF Connection
  <2>3. rd \ {current.client_socket, current.server_socket} \subseteq currentfds
    BY DEF FinalWriteFds, FinalReadFds
  <2> HIDE DEF c, rd
  <2> QED BY <1>3, <2>1, <2>2, <2>3
<1>6. CASE ClientEof
  <2> DEFINE c == [current EXCEPT !.client_read_closed = TRUE]
  <2>1. Proceed(c, currentfds \ {current.client_socket}, current_write_fds)
    BY <1>6 DEF ClientEof
  <2>2. c.doh_socket = current.doh_socket /\ c.tried_direct = current.tried_direct
    BY <1>2 DEF Connection
  <2> HIDE DEF c
  <2> QED BY <1>3, <2>1, <2>2
<1>7. CASE ClientData
  <2>1. PICK c \in Parsed(current) : Proceed(c, currentfds, current_write_fds)
    BY <1>7 DEF ClientData
  <2>2. c.doh_socket = current.doh_socket /\ c.tried_direct = current.tried_direct
    BY <1>1, <1>2, <2>1, ParsedFlag, ParsedFacts, CurrentFacts DEF OInv, LInv
  <2> QED BY <1>3, <2>1, <2>2
<1>8. CASE ClientBadRequest
  <2>1. PICK c \in Parsed(current) :
          Proceed([c EXCEPT !.send_final_message = TRUE],
                  FinalReadFds(c, currentfds), FinalWriteFds(c, current_write_fds))
    BY <1>8 DEF ClientBadRequest
  <2> DEFINE d == [c EXCEPT !.send_final_message = TRUE]
             rd == FinalReadFds(c, currentfds)
             wr == FinalWriteFds(c, current_write_fds)
  <2>2. /\ c \in Connection /\ c.tried_direct = current.tried_direct
        /\ c.doh_socket = current.doh_socket /\ c.client_socket = current.client_socket
    BY <1>1, <1>2, <2>1, ParsedFlag, ParsedFacts, CurrentFacts DEF OInv, LInv
  <2>3. d.doh_socket = current.doh_socket /\ d.tried_direct = current.tried_direct
    BY <2>2 DEF Connection
  <2>4. /\ rd \ {current.client_socket, current.server_socket} \subseteq currentfds
        /\ wr \ {current.client_socket, current.server_socket} \subseteq current_write_fds
    BY <2>2 DEF FinalWriteFds, FinalReadFds
  <2>5. Proceed(d, rd, wr)
    BY <2>1
  <2> HIDE DEF d, rd, wr
  <2> QED BY <1>3, <2>3, <2>4, <2>5
<1> QED BY <1>4, <1>5, <1>6, <1>7, <1>8 DEF ReadRequest

\* The DoH socket is closed and was no longer watched, but for reading.
LEMMA ReachedOrderly ==
  ASSUME ProxyAssumption, OInv, pc # "accept", current.client_socket # 0,
         NEW rd, NEW wr, ServerReached(current, rd, wr),
         \A fd \in Fds : fd \in rd \cup wr => sockets[fd] # "closed",
         current.doh_socket > 0 => current.doh_socket \notin wr
  PROVE  Orderly(connections'[n], currentfds', current_write_fds', sockets')
PROOF
<1>1. PICK g \in LowestFree(sockets) :
        /\ sockets' = [Close(sockets, {current.doh_socket}) EXCEPT ![g] = "server"]
        /\ Leave([current EXCEPT !.server_socket = g, !.connected = TRUE,
                                 !.connection_informed = ~current.connect, !.doh_socket = 0],
                 rd \ {Bit(current.doh_socket)},
                 wr \cup {IF current.connect THEN current.client_socket ELSE g})
  BY DEF ServerReached
<1> DEFINE c == [current EXCEPT !.server_socket = g, !.connected = TRUE,
                                 !.connection_informed = ~current.connect, !.doh_socket = 0]
           w == wr \cup {IF current.connect THEN current.client_socket ELSE g}
<1>2. /\ TypeOK /\ n \in Slots /\ current \in Connection
      /\ sockets[current.client_socket] # "closed"
      /\ current.client_socket # current.doh_socket
  BY CurrentOrderly DEF OInv, LInv, IInv
<1>3. /\ connections'[n] = c /\ currentfds' = rd \ {Bit(current.doh_socket)}
      /\ current_write_fds' = w
  BY <1>1, <1>2, Left
<1>4. c.doh_socket = 0
  BY <1>2 DEF Connection
<1>5. ASSUME NEW fd \in Fds, fd \in (rd \ {Bit(current.doh_socket)}) \cup w
      PROVE  sockets'[fd] # "closed"
  <2>1. CASE fd = g
    BY <1>1, <2>1 DEF Close
  <2>2. CASE fd # g
    <3>1. fd > 0
      BY DEF Fds
    <3>2. fd # current.doh_socket
      BY <1>2, <1>5, <2>2, <3>1 DEF Bit
    <3>3. sockets[fd] # "closed"
      BY <1>2, <1>5, <2>2
    <3> QED BY <1>1, <2>2, <3>2, <3>3 DEF Close
  <2> QED BY <2>1, <2>2
<1>6. \A fd \in Fds : ~(fd < 0)
  BY DEF Fds
<1> HIDE DEF c, w
<1> QED BY <1>3, <1>4, <1>5, <1>6 DEF Orderly

\* The descriptor connectToDoH opens is the lowest that was closed.
LEMMA ConnectLowest ==
  ASSUME NEW tab \in [Fds -> Kinds], NEW o \in connectToDoH(tab), NEW fd \in Fds, fd < o.socket
  PROVE  o.sockets[fd] # "closed"
PROOF
<1>1. CASE LowestFree(tab) = {}
  BY <1>1 DEF connectToDoH, Fds
<1>2. CASE LowestFree(tab) # {}
  <2>1. PICK g \in LowestFree(tab) :
          /\ o.sockets = [tab EXCEPT ![g] = "doh"]
          /\ o.socket \in {g, -1}
    BY <1>2 DEF connectToDoH
  <2>2. fd < g /\ g \in Fds
    BY <2>1, LowestFreeClosed DEF Fds
  <2>3. tab[fd] # "closed"
    BY <2>1, <2>2 DEF LowestFree, Fds
  <2> QED BY <2>1, <2>2, <2>3
<1> QED BY <1>1, <1>2

\* prepareFinalMessage in a visit that closed nothing.
LEMMA ErrorOrderly ==
  ASSUME ProxyAssumption, OInv, pc # "accept", current.client_socket # 0,
         NEW c \in Connection, NEW rd, NEW wr, InternalServerError(c, rd, wr),
         c.client_socket = current.client_socket, c.client_socket # c.doh_socket,
         sockets'[c.client_socket] # "closed",
         \A fd \in Fds : fd \in rd \cup wr => sockets'[fd] # "closed",
         ~c.tried_direct => c.doh_socket = 0,
         CLIENTS = 1 => \A fd \in Fds : fd < c.doh_socket => sockets'[fd] # "closed"
  PROVE  Orderly(connections'[n], currentfds', current_write_fds', sockets')
PROOF
<1> DEFINE d == [c EXCEPT !.send_final_message = TRUE]
<1>1. TypeOK /\ n \in Slots
  BY CurrentOrderly DEF OInv, LInv, IInv
<1>2. /\ connections'[n] = d /\ currentfds' = FinalReadFds(c, rd)
      /\ current_write_fds' = FinalWriteFds(c, wr)
  BY <1>1, Left DEF InternalServerError
<1>3. Orderly(d, FinalReadFds(c, rd), FinalWriteFds(c, wr), sockets')
  BY FinalOrderly
<1> QED BY <1>2, <1>3

\* What the visit may watch when it reads the answer is open.
LEMMA AfterSendOrderly ==
  ASSUME ProxyAssumption, OInv, pc # "accept", current.client_socket # 0,
         NEW f \in AfterSend
  PROVE  /\ \A fd \in Fds : fd \in f.rd \cup f.wr => sockets[fd] # "closed"
         /\ f.wr \subseteq current_write_fds
PROOF
<1>1. Orderly(current, currentfds, current_write_fds, sockets)
  BY CurrentOrderly
<1>2. current.doh_socket > 0 => sockets[current.doh_socket] # "closed"
  BY CurrentFacts DEF OInv, LInv, OpenFor
<1>3. CASE f = [rd |-> currentfds, wr |-> current_write_fds]
  BY <1>1, <1>3 DEF Orderly
<1>4. ASSUME NEW g \in writefds \cap {current.doh_socket},
             f = [rd |-> currentfds \cup {g}, wr |-> current_write_fds \ {g}]
      PROVE  /\ \A fd \in Fds : fd \in f.rd \cup f.wr => sockets[fd] # "closed"
             /\ f.wr \subseteq current_write_fds
  <2>1. f.rd = currentfds \cup {g} /\ f.wr = current_write_fds \ {g}
    BY <1>4
  <2>2. g \in Fds => g > 0
    BY DEF Fds
  <2> QED BY <1>1, <1>2, <1>4, <2>1, <2>2 DEF Orderly
<1> QED BY <1>3, <1>4 DEF AfterSend

\* DoHHandlingZone, where a change of family gets the number it gave back.
LEMMA ZoneOrderly ==
  ASSUME ProxyAssumption, OInv, DoHHandlingZone, NumberKept
  PROVE  Orderly(connections'[n], currentfds', current_write_fds', sockets')
PROOF
<1>1. Resolving
  BY DEF DoHHandlingZone, ConnectDirect, StartDoH, QuerySent, DoHPending,
         SwitchFamily, AnswerReachesServer, AnswerGivesUp, Answered, AwaitingDoH
<1>2. LInv /\ IInv /\ TypeOK
  BY DEF OInv, LInv, IInv
<1>3. pc = "proceed" /\ pc # "accept" /\ current.client_socket # 0
  BY <1>1, <1>2, ResolvingFacts DEF Resolving, Proceeding
<1>4. /\ n \in Slots /\ current \in Connection
      /\ Orderly(current, currentfds, current_write_fds, sockets)
      /\ StillOrderly(current, current_write_fds)
      /\ sockets[current.client_socket] # "closed"
      /\ current.client_socket # current.doh_socket
  BY <1>3, CurrentOrderly
<1>5. /\ OpenFor(current, sockets) /\ current.client_socket \in Fds
      /\ current.doh_socket \in {-1, 0} \cup Fds /\ sockets \in [Fds -> Kinds]
  BY <1>2, <1>3, CurrentFacts
<1>6. CASE ConnectDirect
  <2>1. current.doh_socket = 0
    BY <1>4, <1>6 DEF ConnectDirect, Orderly
  <2>2. CASE ServerReached(current, currentfds, current_write_fds)
    BY <1>3, <1>4, <2>1, <2>2, ReachedOrderly DEF Orderly
  <2>3. CASE ServerUnreachable(current, currentfds, current_write_fds)
    <3>1. sockets' = sockets /\ InternalServerError(current, currentfds, current_write_fds)
      BY <2>3 DEF ServerUnreachable
    <3> QED BY <1>3, <1>4, <3>1, ErrorOrderly DEF Orderly
  <2> QED BY <1>6, <2>2, <2>3 DEF ConnectDirect
<1>7. CASE StartDoH
  <2>1. PICK o \in connectToDoH(sockets) :
          LET c == [current EXCEPT !.tried_direct = TRUE, !.doh_socket = o.socket]
          IN  /\ sockets' = o.sockets
              /\ \/ /\ o.socket > 0
                    /\ Leave(c, currentfds, current_write_fds \cup {o.socket})
                 \/ /\ o.socket = -1
                    /\ InternalServerError(c, currentfds, current_write_fds)
    BY <1>7 DEF StartDoH
  <2> DEFINE c == [current EXCEPT !.tried_direct = TRUE, !.doh_socket = o.socket]
  <2>2. /\ sockets' = o.sockets
        /\ \/ /\ o.socket > 0
              /\ Leave(c, currentfds, current_write_fds \cup {o.socket})
           \/ /\ o.socket = -1
              /\ InternalServerError(c, currentfds, current_write_fds)
    BY <2>1
  <2>3. /\ \/ o.socket = -1
           \/ /\ o.socket \in Fds /\ sockets[o.socket] = "closed"
              /\ o.sockets[o.socket] = "doh"
        /\ \A fd \in Fds : o.sockets[fd] \in {sockets[fd], "doh"}
    BY <1>5, ConnectFacts
  <2>4. o.socket \in -1 .. MaxFd
    BY <2>3, ProxyAssumption DEF ProxyAssumption, Fds
  <2>5. /\ c \in Connection /\ c.tried_direct
        /\ c.client_socket = current.client_socket /\ c.doh_socket = o.socket
    BY <1>4, <2>4 DEF Connection
  <2>6. \A fd \in Fds : fd \in currentfds \cup current_write_fds => sockets'[fd] # "closed"
    BY <1>4, <2>2, <2>3 DEF Orderly
  <2>9. \A fd \in Fds : fd < o.socket => sockets'[fd] # "closed"
    BY <1>5, <2>2, ConnectLowest
  <2> HIDE DEF c
  <2>7. CASE o.socket > 0 /\ Leave(c, currentfds, current_write_fds \cup {o.socket})
    <3>1. /\ connections'[n] = c /\ currentfds' = currentfds
          /\ current_write_fds' = current_write_fds \cup {o.socket}
      BY <1>2, <1>4, <2>7, Left
    <3>2. o.socket \in Fds /\ o.socket \notin currentfds /\ sockets'[o.socket] # "closed"
      BY <1>4, <2>2, <2>3, <2>7 DEF Orderly
    <3> QED BY <2>5, <2>6, <2>9, <3>1, <3>2 DEF Orderly
  <2>8. CASE o.socket = -1 /\ InternalServerError(c, currentfds, current_write_fds)
    <3>1. c.client_socket # c.doh_socket
      BY <1>5, <2>5, <2>8 DEF Fds
    <3>2. sockets'[c.client_socket] # "closed"
      BY <1>4, <1>5, <2>2, <2>3, <2>5
    <3> QED BY <1>3, <2>5, <2>6, <2>8, <2>9, <3>1, <3>2, ErrorOrderly
  <2> QED BY <2>2, <2>7, <2>8
<1>8. CASE QuerySent
  <2>1. /\ connections'[n] = current /\ currentfds' = currentfds \cup {current.doh_socket}
        /\ current_write_fds' = current_write_fds \ {current.doh_socket}
        /\ sockets' = sockets
    BY <1>2, <1>4, <1>8, Left DEF QuerySent, LeaveOpen
  <2>2. current.doh_socket \in Fds => sockets[current.doh_socket] # "closed"
    BY <1>5 DEF OpenFor, Fds
  <2> QED BY <1>4, <2>1, <2>2 DEF Orderly
<1>9. CASE DoHPending
  <2>1. /\ connections'[n] = current /\ currentfds' = currentfds
        /\ current_write_fds' = current_write_fds /\ sockets' = sockets
    BY <1>2, <1>4, <1>9, Left DEF DoHPending, LeaveOpen
  <2> QED BY <1>4, <2>1
<1>10. CASE SwitchFamily
  <2> DEFINE tab == Close(sockets, {current.doh_socket})
  <2>1. PICK f \in AfterSend, o \in connectToDoH(tab) :
          /\ sockets' = o.sockets
          /\ Leave([current EXCEPT !.familyFlag = 1, !.doh_socket = o.socket],
                   f.rd \ {Bit(o.socket)}, f.wr \cup {Bit(o.socket)})
    BY <1>10 DEF SwitchFamily
  <2> DEFINE c == [current EXCEPT !.familyFlag = 1, !.doh_socket = o.socket]
  <2>2. /\ connections'[n] = c /\ currentfds' = f.rd \ {Bit(o.socket)}
        /\ current_write_fds' = f.wr \cup {Bit(o.socket)}
    BY <1>2, <1>4, <2>1, Left
  <2>3. /\ \A fd \in Fds : fd \in f.rd \cup f.wr => sockets[fd] # "closed"
        /\ f.wr \subseteq current_write_fds
    BY <1>3, <2>1, AfterSendOrderly
  <2>4. tab \in [Fds -> Kinds]
    BY <1>5, CloseType
  <2>5. /\ \/ o.socket = -1
           \/ o.socket \in Fds /\ o.sockets[o.socket] = "doh"
        /\ \A fd \in Fds : o.sockets[fd] \in {tab[fd], "doh"}
    BY <2>1, <2>4, ConnectFacts
  <2>6. c.doh_socket = o.socket /\ c.tried_direct = current.tried_direct
    BY <1>4 DEF Connection
  <2>7. current.tried_direct
    BY <1>4, <1>10 DEF SwitchFamily, Answered, AwaitingDoH, Orderly
  <2>8. ASSUME NEW fd \in Fds, fd \in (f.rd \ {Bit(o.socket)}) \cup (f.wr \cup {Bit(o.socket)})
        PROVE  sockets'[fd] # "closed"
    <3>1. CASE fd = Bit(o.socket)
      <4>1. o.socket # -1
        BY <3>1 DEF OInv, Tame, Bit
      <4> QED BY <2>1, <2>5, <3>1, <4>1 DEF Bit
    <3>2. CASE fd # Bit(o.socket) /\ fd = current.doh_socket
      <4>1. current.doh_socket > 0
        BY <3>2 DEF Fds
      <4> QED BY <1>10, <3>2, <4>1 DEF NumberKept
    <3>3. CASE fd # Bit(o.socket) /\ fd # current.doh_socket
      <4>1. tab[fd] # "closed"
        BY <2>3, <2>8, <3>3 DEF Close
      <4> QED BY <2>1, <2>5, <4>1
    <3> QED BY <3>1, <3>2, <3>3
  <2>9. c.doh_socket > 0 => c.doh_socket \notin currentfds'
    BY <2>2, <2>6 DEF Bit
  <2>10. \A fd \in Fds : fd < o.socket => sockets'[fd] # "closed"
    BY <2>1, <2>4, ConnectLowest
  <2> HIDE DEF c, tab
  <2> QED BY <2>2, <2>6, <2>7, <2>8, <2>9, <2>10 DEF Orderly
<1>11. CASE AnswerReachesServer \/ AnswerGivesUp
  <2>1. PICK f \in AfterSend :
          ServerReached(current, f.rd, f.wr) \/ ServerUnreachable(current, f.rd, f.wr)
    BY <1>11 DEF AnswerReachesServer, AnswerGivesUp
  <2>2. /\ \A fd \in Fds : fd \in f.rd \cup f.wr => sockets[fd] # "closed"
        /\ f.wr \subseteq current_write_fds
    BY <1>3, <2>1, AfterSendOrderly
  <2>3. current.doh_socket > 0 => current.doh_socket \notin f.wr
    <3>1. Bit(current.doh_socket) \in readfds
      BY <1>11 DEF AnswerReachesServer, AnswerGivesUp, Answered
    <3> QED BY <1>4, <2>2, <3>1 DEF Bit, StillOrderly
  <2>4. CASE ServerReached(current, f.rd, f.wr)
    BY <1>3, <2>2, <2>3, <2>4, ReachedOrderly
  <2>5. CASE ServerUnreachable(current, f.rd, f.wr)
    <3>1. sockets' = sockets /\ InternalServerError(current, f.rd, f.wr)
      BY <2>5 DEF ServerUnreachable
    <3> QED BY <1>3, <1>4, <2>2, <3>1, ErrorOrderly DEF Orderly
  <2> QED BY <2>1, <2>4, <2>5
<1> QED BY <1>6, <1>7, <1>8, <1>9, <1>10, <1>11 DEF DoHHandlingZone

\* The other handlers: they close the connection, or open and close nothing.
LEMMA OtherOrderly ==
  ASSUME ProxyAssumption, OInv,
         \/ NoHostYet \/ ConnectionInformed \/ InformPending \/ StayConnected
         \/ FinalMessageSent \/ FinalMessagePending \/ HandleStayConnected
  PROVE  Orderly(connections'[n], currentfds', current_write_fds', sockets')
PROOF
<1>1. pc # "accept" /\ current.client_socket # 0
  BY DEF NoHostYet, ConnectionInformed, InformPending, StayConnected, Informing, Proceeding,
         FinalMessageSent, FinalMessagePending, HandleStayConnected, CloseFinished,
         SetUpRelay, Relay, Relaying, Staying, Serving, OInv, LInv, IInv, InUse
<1>2. TypeOK /\ n \in Slots /\ current \in Connection
  BY <1>1, CurrentType DEF OInv, LInv, IInv
<1>3. ASSUME NEW c, NEW rd, NEW wr, LeaveOpen(c, rd, wr),
             c.doh_socket = current.doh_socket, c.tried_direct = current.tried_direct,
             rd \ {current.client_socket, current.server_socket} \subseteq currentfds,
             wr \ {current.client_socket, current.server_socket} \subseteq current_write_fds
      PROVE  Orderly(connections'[n], currentfds', current_write_fds', sockets')
  <2>1. Orderly(c, rd, wr, sockets)
    BY <1>1, <1>3, SameOrderly
  <2>2. /\ connections'[n] = c /\ currentfds' = rd /\ current_write_fds' = wr
        /\ sockets' = sockets
    BY <1>2, <1>3, Left DEF LeaveOpen
  <2> QED BY <2>1, <2>2
<1>4. CASE closeAll
  BY <1>1, <1>2, <1>4, ClosedLeft, ClosedOrderly
<1>5. CASE NoHostYet \/ InformPending \/ FinalMessagePending
  BY <1>3, <1>5 DEF NoHostYet, InformPending, FinalMessagePending
<1>6. CASE ConnectionInformed
  <2> DEFINE c == [current EXCEPT !.connection_informed = TRUE, !.stay_connected = TRUE]
  <2>1. LeaveOpen(c, currentfds \cup {current.client_socket},
                  current_write_fds \ {current.client_socket})
    BY <1>6 DEF ConnectionInformed
  <2>2. c.doh_socket = current.doh_socket /\ c.tried_direct = current.tried_direct
    BY <1>2 DEF Connection
  <2> HIDE DEF c
  <2> QED BY <1>3, <2>1, <2>2
<1>7. CASE StayConnected
  <2> DEFINE c == [current EXCEPT !.stay_connected = TRUE]
  <2>1. LeaveOpen(c, currentfds, current_write_fds)
    BY <1>7 DEF StayConnected
  <2>2. c.doh_socket = current.doh_socket /\ c.tried_direct = current.tried_direct
    BY <1>2 DEF Connection
  <2> HIDE DEF c
  <2> QED BY <1>3, <2>1, <2>2
<1>8. CASE SetUpRelay
  <2> DEFINE pending == current.request /\ ~current.connect
             c == [current EXCEPT !.stay_connected_setted_up = TRUE,
                                  !.request = pending, !.response = FALSE]
             wr == IF pending THEN current_write_fds \cup {current.server_socket}
                              ELSE current_write_fds
  <2>1. LeaveOpen(c, currentfds \cup {current.server_socket}, wr)
    BY <1>8 DEF SetUpRelay
  <2>2. c.doh_socket = current.doh_socket /\ c.tried_direct = current.tried_direct
    BY <1>2 DEF Connection
  <2>3. wr \ {current.client_socket, current.server_socket} \subseteq current_write_fds
    OBVIOUS
  <2> HIDE DEF c, wr
  <2> QED BY <1>3, <2>1, <2>2, <2>3
<1>9. CASE Relay
  <2>1. PICK cr, sr, sw, cw : Transfer(cr, sr, sw, cw)
    BY <1>9 DEF Relay
  <2> DEFINE rq == (current.request \/ cr = "data") /\ sw # "all"
             rs == (current.response \/ sr = "data") /\ cw # "all"
             sc == current.server_read_closed \/ sr = "eof"
             c == [current EXCEPT !.request = rq, !.response = rs,
                                  !.server_read_closed = sc]
             rd == currentfds \ {x \in {c.server_socket} : sr = "eof"}
             wr == (current_write_fds
                      \cup {x \in {c.server_socket} : cr = "data"}
                      \cup {x \in {c.client_socket} : sr \in {"data", "eof"}})
                    \ ({x \in {c.server_socket} : sw = "all"}
                         \cup {x \in {c.client_socket} : cw = "all"})
  <2>2. closeAll \/ LeaveOpen(c, rd, wr)
    BY <2>1 DEF Transfer
  <2>3. /\ c.doh_socket = current.doh_socket /\ c.tried_direct = current.tried_direct
        /\ c.server_socket = current.server_socket /\ c.client_socket = current.client_socket
    BY <1>2 DEF Connection
  <2> HIDE DEF c
  <2>4. /\ rd \ {current.client_socket, current.server_socket} \subseteq currentfds
        /\ wr \ {current.client_socket, current.server_socket} \subseteq current_write_fds
    BY <2>3
  <2> HIDE DEF rd, wr
  <2> QED BY <1>3, <1>4, <2>2, <2>3, <2>4
<1> QED BY <1>4, <1>5, <1>6, <1>7, <1>8, <1>9
        DEF FinalMessageSent, HandleStayConnected, CloseFinished


\* A step where no entry is visited.
LEMMA LoopOrderly ==
  ASSUME ProxyAssumption, OInv, LInv', UNCHANGED sockets,
         UNCHANGED <<connections, currentfds, current_write_fds>>,
         \A s \in Slots : Awaits(s)' =>
           readfds' \subseteq currentfds \/ (Awaits(s) /\ readfds' = readfds)
  PROVE  OInv'
PROOF
<1>1. Tame' /\ NoneWatchedClosed' /\ DirectFirst' /\ LowerOpen'
  BY DEF OInv, Tame, Fds, NoneWatchedClosed, Watched, DirectFirst, LowerOpen
<1>2. SentOnce'
  BY DEF OInv, SentOnce
<1> QED BY <1>1, <1>2 DEF OInv

\* A visit: the entries that are not visited keep their bits, and none that was
\* visited awaits its visit again in the same turn.
LEMMA VisitOrderly ==
  ASSUME ProxyAssumption, OInv, LInv', NEW c, NEW rd, NEW wr, Visit(c, rd, wr),
         pc \in {"serve", "proceed"},
         Orderly(connections'[n], currentfds', current_write_fds', sockets'),
         \/ NextConnection
         \/ /\ pc' = "proceed" /\ n' = n /\ readfds' = readfds /\ pc = "serve"
            /\ StillOrderly(connections'[n], current_write_fds')
  PROVE  OInv'
PROOF
<1>1. LInv /\ IInv /\ TypeOK /\ Tame
  BY DEF OInv, LInv, IInv
<1>2. /\ n \in Slots /\ n \in Nat /\ CLIENTS \in Nat /\ pc # "accept" /\ c \in Connection
      /\ connections \in [Slots -> Connection] /\ readfds \in SUBSET Bits
  BY <1>1, CurrentType, ProxyAssumption DEF Visit, TypeOK, Slots, ProxyAssumption
<1>3. /\ connections'[n] = c /\ currentfds' = rd /\ current_write_fds' = wr
      /\ \A t \in Slots \ {n} : connections'[t] = connections[t]
  BY <1>2 DEF Visit
<1>4. NoneWatchedClosed'
  BY DEF Orderly, NoneWatchedClosed, Watched
<1>5. DirectFirst'
  BY <1>3 DEF OInv, DirectFirst, Orderly
<1>6. ASSUME NEW s \in Slots, Awaits(s)'
      PROVE  readfds' = readfds /\ (s # n => Awaits(s))
             /\ (s = n => StillOrderly(c, wr))
  <2>1. CASE NextConnection
    <3>1. pc' = "serve" /\ n' = n + 1 /\ readfds' = readfds
      BY <1>6, <2>1 DEF NextConnection, Awaits, ready
    <3>2. s >= n + 1 /\ s \in Nat
      BY <1>6, <3>1 DEF Awaits, Slots
    <3> QED BY <1>2, <3>1, <3>2 DEF Awaits
  <2>2. CASE ~NextConnection
    BY <1>3, <1>6, <2>2 DEF Awaits
  <2> QED BY <2>1, <2>2
<1>7. ASSUME NEW t \in Slots \ {n}, connections[t].doh_socket > 0
      PROVE  LET fd == connections[t].doh_socket
             IN  (fd \in rd <=> fd \in currentfds) /\ (fd \in wr <=> fd \in current_write_fds)
  <2> DEFINE fd == connections[t].doh_socket
  <2>1. fd \in Held(connections[t])
    BY DEF Held
  <2>2. fd \in Fds /\ fd \notin Held(current) \cup Held(c)
    BY <1>1, <1>2, <1>7, <2>1, OthersApart DEF Visit
  <2>3. fd \in Bits /\ fd # WildFd
    BY <1>1, <2>2 DEF Bits, Tame
  <2> HIDE DEF fd
  <2>4. (fd \in rd <=> fd \in currentfds) /\ (fd \in wr <=> fd \in current_write_fds)
    BY <2>2, <2>3 DEF Visit, Touches
  <2> QED BY <2>4 DEF fd
<1>8. SentOnce'
  <2> SUFFICES ASSUME NEW s \in Slots, connections'[s].doh_socket > 0,
                      \/ connections'[s].doh_socket \in currentfds'
                      \/ Awaits(s)' /\ connections'[s].doh_socket \in readfds'
               PROVE  connections'[s].doh_socket \notin current_write_fds'
    BY DEF SentOnce, Awaits
  <2>1. CASE s = n
    BY <1>3, <1>6, <2>1 DEF Orderly, StillOrderly
  <2>2. CASE s # n
    <3>1. connections'[s] = connections[s]
      BY <1>3, <2>2
    <3>2. \/ connections[s].doh_socket \in currentfds
          \/ Awaits(s) /\ connections[s].doh_socket \in readfds
      BY <1>3, <1>6, <1>7, <2>2, <3>1
    <3>3. connections[s].doh_socket \notin current_write_fds
      BY <3>1, <3>2 DEF OInv, SentOnce
    <3> QED BY <1>3, <1>7, <2>2, <3>1, <3>3
  <2> QED BY <2>1, <2>2
<1>9. LowerOpen'
  <2>1. CLIENTS = 1 => Slots = {n}
    BY <1>2 DEF Slots
  <2>2. CLIENTS = 1 => \A fd \in Fds : fd < connections'[n].doh_socket => sockets'[fd] # "closed"
    BY DEF Orderly
  <2> QED BY <2>1, <2>2 DEF LowerOpen, Slots, Fds
<1>10. Tame'
  BY <1>1 DEF Tame, Fds
<1> QED BY <1>4, <1>5, <1>8, <1>9, <1>10 DEF OInv

\* Where the loop is after a visit.
LEMMA LeavesNext ==
  ASSUME ProxyAssumption, OInv,
         \/ FinalMessageSent \/ FinalMessagePending \/ DoHHandlingZone \/ NoHostYet
         \/ ConnectionInformed \/ InformPending \/ StayConnected \/ HandleStayConnected
  PROVE  NextConnection /\ pc \in {"serve", "proceed"}
PROOF
<1>1. CASE \/ FinalMessageSent \/ FinalMessagePending \/ NoHostYet
           \/ ConnectionInformed \/ InformPending \/ StayConnected
  BY <1>1 DEF FinalMessageSent, FinalMessagePending, NoHostYet, ConnectionInformed,
     InformPending, StayConnected, Informing, Proceeding, Serving, closeAll, LeaveOpen, Leave
<1>2. CASE DoHHandlingZone
  BY <1>2 DEF DoHHandlingZone, ConnectDirect, StartDoH, QuerySent, DoHPending, SwitchFamily,
     AnswerReachesServer, AnswerGivesUp, Answered, AwaitingDoH, Resolving, Proceeding,
     ServerReached, ServerUnreachable, InternalServerError, LeaveOpen, Leave
<1>3. CASE HandleStayConnected
  <2>1. pc = "serve"
    BY <1>3 DEF HandleStayConnected, CloseFinished, SetUpRelay, Relay, Relaying, Staying, Serving
  <2>2. closeAll \/ (\E c, rd, wr : LeaveOpen(c, rd, wr))
    <3>1. CASE CloseFinished \/ SetUpRelay
      BY <3>1 DEF CloseFinished, SetUpRelay
    <3>2. CASE Relay
      <4>1. PICK cr, sr, sw, cw : Transfer(cr, sr, sw, cw)
        BY <3>2 DEF Relay
      <4> QED BY <4>1 DEF Transfer
    <3> QED BY <1>3, <3>1, <3>2 DEF HandleStayConnected
  <2> QED BY <2>1, <2>2 DEF closeAll, LeaveOpen, Leave
<1> QED BY <1>1, <1>2, <1>3

\* A client is accepted: its descriptor was closed, so that nobody watched it.
LEMMA AcceptOrderly ==
  ASSUME ProxyAssumption, OInv, LInv', HandleConnection
  PROVE  OInv'
PROOF
<1>1. pc = "accept" /\ LInv /\ IInv /\ TypeOK /\ Tame /\ readfds' = readfds
  BY DEF HandleConnection, OInv, LInv, IInv, ready
<1>2. PICK fd \in Fds :
        /\ sockets[fd] = "closed"
        /\ sockets' = [sockets EXCEPT ![fd] = "client"]
        /\ currentfds' = currentfds \cup {fd}
        /\ current_write_fds' = current_write_fds
        /\ \A s \in Slots :
             \/ connections'[s] = connections[s]
             \/ connections'[s] = [NoConnection EXCEPT !.client_socket = fd]
  BY <1>1, AcceptFacts
<1> DEFINE new == [NoConnection EXCEPT !.client_socket = fd]
<1>3. new.doh_socket = 0
  BY DEF NoConnection
<1> HIDE DEF new
<1>4. NoneWatchedClosed'
  <2>1. sockets \in [Fds -> Kinds]
    BY <1>1 DEF TypeOK
  <2> QED BY <1>2, <2>1 DEF OInv, NoneWatchedClosed, Watched
<1>5. DirectFirst'
  BY <1>2, <1>3 DEF OInv, DirectFirst, new
<1>6. SentOnce'
  <2> SUFFICES ASSUME NEW s \in Slots, connections'[s].doh_socket > 0,
                      \/ connections'[s].doh_socket \in currentfds'
                      \/ Awaits(s)' /\ connections'[s].doh_socket \in readfds'
               PROVE  connections'[s].doh_socket \notin current_write_fds'
    BY DEF SentOnce, Awaits
  <2>1. connections'[s] = connections[s] \/ connections'[s] = new
    BY <1>2 DEF new
  <2>10. connections'[s] = connections[s]
    BY <1>3, <2>1
  <2>2. sockets[connections[s].doh_socket] = "doh"
    BY <1>1, <2>10 DEF IInv, OwnsOpen
  <2>3. connections[s].doh_socket # fd
    BY <1>2, <2>2
  <2>4. \/ connections[s].doh_socket \in currentfds
        \/ Awaits(s) /\ connections[s].doh_socket \in readfds
    BY <1>1, <1>2, <2>10, <2>3 DEF Awaits
  <2>5. connections[s].doh_socket \notin current_write_fds
    BY <2>10, <2>4 DEF OInv, SentOnce
  <2> QED BY <1>2, <2>10, <2>5
<1>7. LowerOpen'
  <2> SUFFICES ASSUME CLIENTS = 1, NEW s \in Slots, NEW g \in Fds,
                      g < connections'[s].doh_socket
               PROVE  sockets'[g] # "closed"
    BY DEF LowerOpen, Slots, Fds
  <2>1. connections'[s] = connections[s] \/ connections'[s] = new
    BY <1>2 DEF new
  <2>2. connections'[s] = connections[s]
    BY <1>3, <2>1 DEF Fds
  <2>3. sockets[g] # "closed" /\ sockets \in [Fds -> Kinds]
    BY <1>1, <2>2 DEF OInv, LowerOpen, TypeOK
  <2> QED BY <1>2, <2>3
<1> QED BY <1>1, <1>4, <1>5, <1>6, <1>7 DEF OInv, Tame, Fds

\* Every step keeps it.
LEMMA OrderKeeps == ASSUME ProxyAssumption, OInv, [Next]_vars, [NumberKept]_vars PROVE OInv'
PROOF
<1>1. LInv /\ LInv'
  BY LoopInvKeeps DEF OInv
<1>2. CASE \/ FinalMessageSent \/ FinalMessagePending \/ DoHHandlingZone \/ NoHostYet
           \/ ConnectionInformed \/ InformPending \/ StayConnected \/ HandleStayConnected
  <2>1. NumberKept
    <3>1. CASE UNCHANGED vars
      <4>1. n' = n /\ pc' = pc /\ readfds' = readfds
        BY <3>1 DEF vars, loop, ready
      <4>2. pc' # pc \/ n' # n
        BY <1>1, <1>2, <4>1, LeavesNext, CurrentType, ProxyAssumption
           DEF NextConnection, LInv, IInv, Slots
      <4> QED BY <4>1, <4>2
    <3> QED BY <3>1
  <2>2. PICK c, rd, wr : Visit(c, rd, wr)
    BY <1>1, <1>2, FinalMessageVisits, ZoneVisits, SecondHalfVisits, StayVisits
  <2>3. Orderly(connections'[n], currentfds', current_write_fds', sockets')
    BY <1>2, <2>1, ZoneOrderly, OtherOrderly
  <2>4. NextConnection /\ pc \in {"serve", "proceed"}
    BY <1>2, LeavesNext
  <2> QED BY <1>1, <2>2, <2>3, <2>4, VisitOrderly
<1>3. CASE ReadRequest
  <2>1. PICK c, rd, wr : Visit(c, rd, wr)
    BY <1>1, <1>3, ReadRequestVisits
  <2>2. /\ Orderly(connections'[n], currentfds', current_write_fds', sockets')
        /\ StillOrderly(connections'[n], current_write_fds')
    BY <1>3, ReadRequestOrderly
  <2>3. pc = "serve" /\ pc' = "proceed" /\ n' = n /\ readfds' = readfds
    BY <1>3 DEF ReadRequest, ClientSilent, ClientReadError, ClientEof, ClientData,
       ClientBadRequest, Requesting, Serving, Proceed, ready
  <2> QED BY <1>1, <2>1, <2>2, <2>3, VisitOrderly
<1>4. CASE HandleConnection
  BY <1>1, <1>4, AcceptOrderly
<1>5. CASE Select
  BY <1>1, <1>5, LoopOrderly DEF Select, table
<1>6. CASE SelectFails \/ UNCHANGED vars
  BY <1>1, <1>6, LoopOrderly DEF SelectFails, vars, table, ready, loop, Awaits
<1>7. CASE NoNewConnection
  BY <1>1, <1>7, LoopOrderly DEF NoNewConnection, table, ready, Awaits
<1>8. CASE SkipConnection
  <2>1. ASSUME NEW s \in Slots, Awaits(s)'
        PROVE  Awaits(s) /\ readfds' = readfds
    <3>1. pc = "serve" /\ n \in Nat /\ s \in Nat
      BY <1>1, <1>8, CurrentType, ProxyAssumption
         DEF SkipConnection, LInv, IInv, Slots
    <3>2. pc' = "serve" /\ n' = n + 1 /\ readfds' = readfds
      BY <1>8, <2>1 DEF SkipConnection, NextConnection, Awaits, ready
    <3> QED BY <2>1, <3>1, <3>2 DEF Awaits
  <2> QED BY <1>1, <1>8, <2>1, LoopOrderly DEF SkipConnection, table
<1> QED BY <1>2, <1>3, <1>4, <1>5, <1>6, <1>7, <1>8 DEF Next

LEMMA OrderInit == ASSUME ProxyAssumption, Tame, Init PROVE OInv
PROOF
<1>1. LInv
  BY LoopInvInit
<1>2. NoneWatchedClosed /\ SentOnce /\ DirectFirst /\ LowerOpen
  BY DEF Init, NoneWatchedClosed, Watched, SentOnce, DirectFirst, LowerOpen, NoConnection, Fds
<1> QED BY <1>1, <1>2 DEF OInv

\* What is watched is open: select() does not fail.
LEMMA OrderSelects == ASSUME ProxyAssumption, OInv PROVE SelectNeverFails
PROOF
<1>1. TypeOK /\ Tame /\ NoneWatchedClosed
  BY DEF OInv, LInv, IInv
<1>2. ASSUME NEW fd \in Watched, fd <= maxSocket
      PROVE  fd \in Fds /\ sockets[fd] # "closed"
  <2>1. fd \in Bits /\ maxSocket \in 0 .. MaxFd
    BY <1>1, <1>2 DEF TypeOK, Watched
  <2>2. fd \in Fds
    BY <1>1, <1>2, <2>1, ProxyAssumption DEF Bits, Fds, Tame, ProxyAssumption
  <2> QED BY <1>1, <1>2, <2>2 DEF NoneWatchedClosed
<1> QED BY <1>2 DEF SelectNeverFails, EBADF

\* A change to the AAAA query that does not get back the number of the socket it
\* closed (DoHHandlingZone, where FD_CLR comes after connectToDoH) is the one thing
\* that makes select() fail, as long as FD_SET(-1) touches no descriptor.
THEOREM SelectFailsOnlyThere == Spec /\ Tame /\ [][NumberKept]_vars => []SelectNeverFails
PROOF
<1>1. Init /\ Tame => OInv
  BY ProxyAssumption, OrderInit
<1>2. OInv /\ [Next]_vars /\ [NumberKept]_vars => OInv'
  BY ProxyAssumption, OrderKeeps
<1>3. OInv => SelectNeverFails
  BY ProxyAssumption, OrderSelects
<1> QED BY <1>1, <1>2, <1>3, PTL DEF Spec

\* One entry alone gets back the number it closed: nothing below it is free.
LEMMA OneKeepsNumber == ASSUME ProxyAssumption, OInv, CLIENTS = 1 PROVE NumberKept
PROOF
<1> SUFFICES ASSUME SwitchFamily, current.doh_socket > 0
             PROVE  sockets'[current.doh_socket] # "closed"
  BY DEF NumberKept
<1> DEFINE d == current.doh_socket
           tab == Close(sockets, {d})
<1>1. pc # "accept" /\ current.client_socket # 0
  BY ResolvingFacts DEF SwitchFamily, Answered, AwaitingDoH, OInv
<1>2. d \in Fds /\ sockets \in [Fds -> Kinds]
  BY <1>1, CurrentFacts DEF OInv, LInv
<1>3. \A fd \in Fds : fd < d => sockets[fd] # "closed"
  BY <1>1, CurrentOrderly DEF Orderly
<1>4. PICK o \in connectToDoH(tab) : sockets' = o.sockets
  BY DEF SwitchFamily
<1>5. tab[d] = "closed" /\ tab \in [Fds -> Kinds]
  BY <1>2, CloseType DEF Close
<1>6. \A g \in Fds : tab[g] = "closed" => d <= g
  BY <1>2, <1>3 DEF Close, Fds
<1> HIDE DEF tab, d
<1>7. LowestFree(tab) = {d}
  BY <1>2, <1>5, <1>6 DEF LowestFree, Fds
<1>8. o.sockets = [tab EXCEPT ![d] = "doh"]
  BY <1>4, <1>7 DEF connectToDoH
<1> QED BY <1>2, <1>4, <1>5, <1>8 DEF d

\* With a table of one entry select() never fails for a closed descriptor, whatever
\* fails and whoever is accepted beyond the table (DoHHandlingZone, closeAll): the
\* socket closed is then the lowest free one.
THEOREM OneEntrySelects == Spec /\ Tame /\ CLIENTS = 1 => []SelectNeverFails
PROOF
<1> DEFINE Alone == OInv /\ CLIENTS = 1
<1>1. Init /\ Tame /\ CLIENTS = 1 => Alone
  BY ProxyAssumption, OrderInit
<1>2. Alone /\ [Next]_vars => Alone'
  BY ProxyAssumption, OrderKeeps, OneKeepsNumber
<1>3. Alone => SelectNeverFails
  BY ProxyAssumption, OrderSelects
<1> QED BY <1>1, <1>2, <1>3, PTL DEF Spec
=============================================================================
