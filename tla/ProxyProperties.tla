-------------------------- MODULE ProxyProperties --------------------------
(***************************************************************************)
(* What the select() loop of Proxy promises.                               *)
(***************************************************************************)
EXTENDS Proxy

\* What n ranges over at each place of the loop.
IndexAt(p) ==
  CASE p = "select" -> {1}
    [] p = "accept" -> 1 .. IP_PROTOCOLS
    [] OTHER -> Slots

\* Every variable holds a value of its type.
TypeOK ==
  /\ connections \in [Slots -> Connection]
  /\ sockets \in [Fds -> Kinds]
  /\ currentfds \subseteq Bits
  /\ current_write_fds \subseteq Bits
  /\ readfds \subseteq Bits
  /\ writefds \subseteq Bits
  /\ maxSocket \in 0 .. MaxFd
  /\ concurrent \in Nat
  /\ pc \in {"select", "accept", "serve", "proceed"}
  /\ n \in IndexAt(pc)

-----------------------------------------------------------------------------
(* Ownership of descriptors *)

\* A descriptor an entry holds is open, and open for what the entry uses it.
OwnsOpen ==
  \A s \in Slots :
    LET c == connections[s]
    IN  /\ c.client_socket # 0 => sockets[c.client_socket] = "client"
        /\ c.server_socket # 0 => sockets[c.server_socket] = "server"
        /\ c.doh_socket > 0 => sockets[c.doh_socket] = "doh"

\* No two entries hold the same descriptor.
OwnersDiffer ==
  \A s, t \in Slots :
    s # t =>
      /\ connections[s].client_socket # 0 =>
           connections[s].client_socket # connections[t].client_socket
      /\ connections[s].server_socket # 0 =>
           connections[s].server_socket # connections[t].server_socket
      /\ connections[s].doh_socket > 0 =>
           connections[s].doh_socket # connections[t].doh_socket

\* An entry without a client is as memset left it.
FreeIsClean ==
  \A s \in Slots :
    connections[s].client_socket = 0 => connections[s] = NoConnection

\* The descriptors of the entries are open, of the right kind and each held by
\* one entry only, and a free entry keeps nothing of its last connection:
\* closing an entry never closes a socket of another, and a recycled descriptor
\* number is never served for the connection that had it before.
Ownership == OwnsOpen /\ OwnersDiffer /\ FreeIsClean

-----------------------------------------------------------------------------
\* metrics[CONCURRENT_CONNECTIONS] is the number of client sockets that are
\* open, those accepted when the table was full included.
ConcurrentCounts ==
  concurrent = Cardinality({fd \in Fds : sockets[fd] = "client"})

\* select() looks at every watched descriptor: maxSocket was raised for each.
\* The bit FD_SET(-1) sets is no descriptor of the connection that set it.
MaxSocketCovers ==
  \A fd \in Watched : fd <= maxSocket \/ fd = WildFd

\* While a connection is relayed, whoever has bytes to be sent is watched for
\* writing and whoever may still send is watched for reading: nothing is left
\* waiting for a wake-up that cannot come.
RelayNeverStalls ==
  \A s \in Slots :
    LET c == connections[s]
    IN  c.stay_connected_setted_up /\ ~c.send_final_message =>
          /\ c.client_socket \in currentfds
          /\ ~c.server_read_closed => c.server_socket \in currentfds
          /\ c.request => c.server_socket \in current_write_fds
          /\ c.response \/ c.server_read_closed =>
               c.client_socket \in current_write_fds

\* No busy waiting: the client of a relayed connection is watched for writing
\* only while there is something to send it, and a visit that finds the server
\* writable with nothing left to send stops watching it (a socket is nearly
\* always writable, so select() would return at once for ever).  The server may
\* be watched for one wake-up too many: its descriptor may have been the DoH
\* socket of another entry, whose bit a change of family left behind.
RelayNeverSpins ==
  [][\A s \in Slots :
       LET c == connections'[s]
       IN  Relay /\ n = s /\ c.client_socket # 0 =>
             /\ c.client_socket \in current_write_fds' => c.response
             /\ c.server_socket \in writefds \cap current_write_fds' =>
                  c.request]_vars

-----------------------------------------------------------------------------
(* The life cycle of a connection *)

Phase(c) ==
  CASE c.client_socket = 0 -> "free"
    [] c.client_socket # 0 /\ c.send_final_message -> "error"
    [] c.client_socket # 0 /\ ~c.send_final_message ->
         IF ~c.connected
           THEN IF c.host = "none" THEN "request" ELSE "resolve"
         ELSE IF ~c.connection_informed THEN "inform"
         ELSE IF c.stay_connected_setted_up THEN "relay" ELSE "handover"

IsTunnel(c) == c.connect /\ Phase(c) \notin {"free", "error"}

Life == INSTANCE Lifecycle WITH
          phase <- [s \in Slots |-> Phase(connections[s])],
          tunnel <- [s \in Slots |-> IsTunnel(connections[s])]

\* Whatever the order in which descriptors become ready, every entry of the
\* table follows the life cycle of Lifecycle.
ImplementsLifecycle == Life!Spec

-----------------------------------------------------------------------------
(* What the code's own texts say and its behaviour is compared with *)

\* git_history.txt:190, "Funciona el select sin espera activa": select() never
\* fails for a closed descriptor, after which the loop spins for ever.
SelectNeverFails == pc = "select" => ~EBADF

\* proxyHandlerHelper.c:31, "Le doy un error final al cliente por algo que falle
\* y limpio": an entry with a final message waits until the client can take it.
FinalMessageAwaitsClient ==
  pc = "select" =>
    \A s \in Slots :
      connections[s].send_final_message =>
        connections[s].client_socket \in current_write_fds

\* The same for every connection but a CONNECT whose 200 is sent: when the last
\* byte of the 200 goes out in the visit that reads a bad request, the message
\* is never sent (FinalMessageAwaitsClient).  A request other than CONNECT may
\* get its message after its server is reached.  It is about messages that an
\* error of the request, the DoH server or the server causes: after a failed
\* read() of the client the bit is put in the wrong set.
FinalMessageAwaitsHttpClient ==
  pc = "select" =>
    \A s \in Slots :
      LET c == connections[s]
      IN  c.send_final_message /\ ~(c.connect /\ c.connection_informed) =>
            c.client_socket \in current_write_fds

-----------------------------------------------------------------------------
(* Liveness: what select() reports in the long run and what the peers do      *)

\* The loop runs; a client or server that is watched for writing can take bytes
\* again and again, the DoH server sends its answers, and a send() that is
\* repeated gets to the last byte, a repeated read() to the end of the answer.
\* Nothing is assumed of when a client or a server speaks.
Writable(fd) == Select /\ fd \in writefds'
DoHAnswers(fd) == Select /\ sockets[fd] = "doh" /\ fd \in readfds'

Fairness ==
  /\ WF_vars(pc # "select" /\ Next)
  /\ \A fd \in Fds : SF_vars(Writable(fd)) /\ SF_vars(DoHAnswers(fd))
  /\ SF_vars(QuerySent)
  /\ SF_vars(SwitchFamily \/ AnswerReachesServer \/ AnswerGivesUp)
  /\ SF_vars(ConnectionInformed)
  /\ SF_vars(FinalMessageSent)

FairSpec == Spec /\ Fairness

\* The connection for the AAAA query could not be opened: the request waits on
\* descriptor -1 and is never answered unless its client breaks it off.
QueryLost(c) == Phase(c) = "resolve" /\ c.familyFlag = 1 /\ c.doh_socket = -1

\* A request other than CONNECT whose host is known is eventually relayed to a
\* server, or its connection is closed after an error reply, whatever the DoH
\* server answers, whichever server refuses and wherever connectToDoH fails,
\* with one exception: if it fails between the two queries the request waits
\* for ever (proxyHandlerHelper.c:251, whose result nobody looks at).
RequestSettles ==
  \A s \in Slots :
    Phase(connections[s]) = "resolve" /\ ~connections[s].connect
      ~> Phase(connections[s]) \in {"relay", "free"} \/ QueryLost(connections[s])

\* Any request whose host is known, CONNECT included, has its server reached (a
\* CONNECT has its 200 sent) or gets an error reply, with the same exception.
\* Whether the bytes of the tunnel move after the 200 is not its concern.
ConnectAnswered ==
  \A s \in Slots :
    Phase(connections[s]) = "resolve"
      ~> \/ connections[s].connection_informed
         \/ Phase(connections[s]) \in {"error", "free"}
         \/ QueryLost(connections[s])

\* client/mcpUtils.c:52, "Muestra el numero de conexiones concurrentes al proxy":
\* a connection whose client has closed stops being counted: it is closed.
ClientGoneIsClosed ==
  \A s \in Slots :
    connections[s].client_read_closed ~> connections[s].client_socket = 0
=============================================================================
