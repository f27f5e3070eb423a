------------------------------- MODULE Proxy -------------------------------
(***************************************************************************)
(* The select() loop of the proxy (proxyClient.c) with the table of        *)
(* connections, the descriptors of the process, the two interest sets and  *)
(* the handlers the loop calls for each connection                         *)
(* (proxyHandlerHelper.c).  One process, no threads: all interleaving      *)
(* comes from the order in which select() reports descriptors and from     *)
(* what each system call answers.                                          *)
(*                                                                         *)
(* Bytes are abstracted to "some are pending / none is"; what the parser   *)
(* makes of a read is the host and the method it has seen, or an error.    *)
(***************************************************************************)
EXTENDS Integers, FiniteSets

CONSTANTS
  CLIENTS,       \* entries of the table of connections (512 in the code)
  IP_PROTOCOLS,  \* passive TCP sockets (2 in the code)
  MaxFd,         \* descriptors the process may have open besides its own
  WildFd,        \* the bit that FD_SET(-1, .) touches (63 on x86-64)
  Faults         \* the failures of the peers that the environment may produce

ProxyAssumption ==
  /\ CLIENTS \in Nat \ {0}
  /\ IP_PROTOCOLS \in Nat \ {0}
  /\ MaxFd \in Nat \ {0}
  /\ WildFd \in Nat \ {0}
  /\ Faults \subseteq {"clientReset", "serverReset", "dohConnect"}

ASSUME ProxyAssumption

VARIABLES
  connections,        \* HTTP_connections[]
  sockets,            \* the kernel's table: what each descriptor is open for
  currentfds,         \* descriptors select() is asked to watch for reading
  current_write_fds,  \* descriptors select() is asked to watch for writing
  readfds,            \* the descriptors the last select() reported
  writefds,
  maxSocket,          \* select() looks at the descriptors up to this one
  concurrent,         \* metrics[CONCURRENT_CONNECTIONS]
  pc,                 \* where the loop is
  n                   \* index of its for (passive socket, or connection)

table == <<connections, sockets, currentfds, current_write_fds, maxSocket>>
ready == <<readfds, writefds>>
loop  == <<pc, n>>
vars  == <<table, ready, loop, concurrent>>

Slots == 1 .. CLIENTS
Fds   == 1 .. MaxFd
Bits  == Fds \cup {WildFd}
Kinds == {"closed", "client", "doh", "server"}

-----------------------------------------------------------------------------
(* Data structures *)

\* struct HTTP_connection.  Descriptor 0 stands for "no descriptor", as in the
\* code; -1 is what a failed connectToDoH leaves in doh_socket.  host, connect
\* are what client_context_parser answers; request and response tell whether
\* the message buffers hold bytes to send.
Connection ==
  [client_socket : 0 .. MaxFd, server_socket : 0 .. MaxFd,
   doh_socket : -1 .. MaxFd,
   host : {"none", "ip", "name"}, connect : BOOLEAN,
   tried_direct : BOOLEAN, familyFlag : {0, 1},
   connected : BOOLEAN, connection_informed : BOOLEAN,
   stay_connected : BOOLEAN, stay_connected_setted_up : BOOLEAN,
   client_read_closed : BOOLEAN, server_read_closed : BOOLEAN,
   send_final_message : BOOLEAN, request : BOOLEAN, response : BOOLEAN]

\* An entry after memset(0): at start-up and in clearHTTPconnection.
NoConnection ==
  [client_socket |-> 0, server_socket |-> 0, doh_socket |-> 0,
   host |-> "none", connect |-> FALSE, tried_direct |-> FALSE,
   familyFlag |-> 0, connected |-> FALSE, connection_informed |-> FALSE,
   stay_connected |-> FALSE, stay_connected_setted_up |-> FALSE,
   client_read_closed |-> FALSE, server_read_closed |-> FALSE,
   send_final_message |-> FALSE, request |-> FALSE, response |-> FALSE]

current == connections[n]

\* The bit of an fd_set that FD_SET, FD_CLR and FD_ISSET address.
Bit(fd) == IF fd = -1 THEN WildFd ELSE fd

\* Mutant: the bit of the client is forgotten.
BitsOfServers(c) == {Bit(c.doh_socket), c.server_socket}

\* The descriptors of c whose bits prepareFinalMessage and closeAll touch (bit
\* 0 is never set, so clearing it for an absent descriptor is harmless).
BitsOf(c) == {Bit(c.doh_socket), c.server_socket, c.client_socket}

\* The kernel gives the lowest closed descriptor; empty when none is left.
LowestFree(tab) ==
  {fd \in Fds : tab[fd] = "closed"
                /\ \A g \in Fds : tab[g] = "closed" => fd <= g}

Close(tab, S) == [fd \in Fds |-> IF fd \in S THEN "closed" ELSE tab[fd]]

\* Mutant: maxSocket is never raised.
LargerNever(a, b) == a

Larger(a, b) == IF a < b THEN b ELSE a

\* The free entry handleConnection takes, if any.
FirstFreeSlot ==
  {s \in Slots : connections[s].client_socket = 0
                 /\ \A t \in Slots : connections[t].client_socket = 0 => s <= t}

-----------------------------------------------------------------------------
(* Moving through the loop *)

\* Mutant: one passive socket too many.
NextPassivePast ==
  IF n <= IP_PROTOCOLS THEN n' = n + 1 /\ pc' = "accept"
                       ELSE n' = 1 /\ pc' = "serve"

NextPassive ==
  IF n < IP_PROTOCOLS THEN n' = n + 1 /\ pc' = "accept"
                      ELSE n' = 1 /\ pc' = "serve"

\* The ready sets are overwritten before they are read again.
NextConnection ==
  IF n < CLIENTS
    THEN n' = n + 1 /\ pc' = "serve" /\ UNCHANGED ready
    ELSE n' = 1 /\ pc' = "select" /\ readfds' = {} /\ writefds' = {}

\* The handler leaves the entry as c and the interest sets as rd and wr.
Leave(c, rd, wr) ==
  /\ connections' = [connections EXCEPT ![n] = c]
  /\ currentfds' = rd
  /\ current_write_fds' = wr
  /\ NextConnection
  /\ UNCHANGED concurrent

\* As Leave, for handlers that open and close no descriptor.
LeaveOpen(c, rd, wr) == Leave(c, rd, wr) /\ UNCHANGED <<sockets, maxSocket>>

-----------------------------------------------------------------------------
(* select() and the passive sockets *)

Watched == currentfds \cup current_write_fds

\* select() fails with EBADF when a watched descriptor it looks at is closed.
EBADF == \E fd \in Watched : fd <= maxSocket
                             /\ (fd \notin Fds \/ sockets[fd] = "closed")

\* A wake-up: any subset of the watched descriptors is ready (the empty one when
\* only a passive socket or the management socket is).
Select ==
  /\ pc = "select"
  /\ ~EBADF
  /\ readfds' \in SUBSET {fd \in currentfds : fd <= maxSocket}
  /\ writefds' \in SUBSET {fd \in current_write_fds : fd <= maxSocket}
  /\ pc' = "accept"
  /\ UNCHANGED <<table, n, concurrent>>

\* The loop goes back to select() with the same sets: the proxy serves nobody.
SelectFails ==
  /\ pc = "select"
  /\ EBADF
  /\ UNCHANGED vars

\* No client on this passive socket, or accept() fails.
NoNewConnection ==
  /\ pc = "accept"
  /\ NextPassive
  /\ UNCHANGED <<table, ready, concurrent>>

\* handleConnection and what the loop does with the descriptor it returns: the
\* descriptor is returned, counted and watched even when no entry took it.
HandleConnection ==
  /\ pc = "accept"
  /\ \E fd \in LowestFree(sockets) :
       /\ sockets' = [sockets EXCEPT ![fd] = "client"]
       /\ connections' = [s \in Slots |->
            IF s \in FirstFreeSlot
              THEN [NoConnection EXCEPT !.client_socket = fd]
              ELSE connections[s]]
       /\ currentfds' = currentfds \cup {fd}
       /\ maxSocket' = Larger(maxSocket, fd)
  /\ concurrent' = concurrent + 1
  /\ NextPassive
  /\ UNCHANGED <<current_write_fds, ready>>

\* An entry in use is visited; a free one is skipped.
Serving == pc = "serve" /\ current.client_socket > 0

SkipConnection ==
  /\ pc = "serve"
  /\ current.client_socket = 0
  /\ NextConnection
  /\ UNCHANGED <<table, concurrent>>

-----------------------------------------------------------------------------
(* Closing and final messages *)

\* Mutant: a connection that ends is not discounted.
closeAllUncounted ==
  /\ connections' = [connections EXCEPT ![n] = NoConnection]
  /\ sockets' = Close(sockets, {current.doh_socket, current.client_socket,
                                current.server_socket})
  /\ currentfds' = currentfds \ BitsOf(current)
  /\ current_write_fds' = current_write_fds \ BitsOf(current)
  /\ NextConnection
  /\ UNCHANGED <<maxSocket, concurrent>>

closeAll ==
  /\ connections' = [connections EXCEPT ![n] = NoConnection]
  /\ sockets' = Close(sockets, {current.doh_socket, current.client_socket,
                                current.server_socket})
  /\ currentfds' = currentfds \ BitsOf(current)
  /\ current_write_fds' = current_write_fds \ BitsOf(current)
  /\ concurrent' = IF concurrent = 0 THEN 0 ELSE concurrent - 1
  /\ NextConnection
  /\ UNCHANGED maxSocket

\* Mutant: the client is not watched for its final message.
FinalWriteFdsUnset(c, wr) == wr \ {Bit(c.doh_socket), c.server_socket}

\* What prepareFinalMessage leaves in the interest sets it is given.
FinalReadFds(c, rd) == rd \ BitsOf(c)
FinalWriteFds(c, wr) ==
  (wr \ {Bit(c.doh_socket), c.server_socket}) \cup {c.client_socket}

\* handleFinalMessage: sendFinalMessage sent the last byte, or failed.
FinalMessageSent ==
  /\ Serving
  /\ current.send_final_message
  /\ current.client_socket \in writefds
  /\ closeAll

\* The client is not ready, or a part of the message is sent.
FinalMessagePending ==
  /\ Serving
  /\ current.send_final_message
  /\ LeaveOpen(current, currentfds, current_write_fds)

-----------------------------------------------------------------------------
(* Reading the request: first half of the visit of an entry whose request   *)
(* side is active                                                           *)

Requesting == Serving /\ ~current.stay_connected /\ ~current.send_final_message

\* The second half follows for the same entry.
Proceed(c, rd, wr) ==
  /\ connections' = [connections EXCEPT ![n] = c]
  /\ currentfds' = rd
  /\ current_write_fds' = wr
  /\ pc' = "proceed"
  /\ UNCHANGED <<sockets, maxSocket, ready, n, concurrent>>

\* What the parser may know of the request after some more bytes: it reports
\* the host once, at the end of the line that holds it, and the method before.
\* The request buffer is not looked at before there is a host.
Found(c, h, b) == [c EXCEPT !.request = TRUE, !.host = h, !.connect = b]

\* Mutant: a later line may change the host and the method.
ParsedAgain(c) ==
  {c} \cup {Found(c, h, b) : h \in {"ip", "name"}, b \in BOOLEAN}

Parsed(c) ==
  IF c.host = "none"
    THEN {c} \cup {Found(c, h, b) : h \in {"ip", "name"}, b \in BOOLEAN}
    ELSE {c}

ClientSilent ==
  /\ Requesting
  /\ current.client_socket \notin readfds
  /\ Proceed(current, currentfds, current_write_fds)

\* read() fails: prepareFinalMessage is given currentfds for both its sets.
ClientReadError ==
  /\ Requesting
  /\ current.client_socket \in readfds
  /\ "clientReset" \in Faults
  /\ Proceed([current EXCEPT !.send_final_message = TRUE],
             FinalWriteFds(current, FinalReadFds(current, currentfds)),
             current_write_fds)

ClientEof ==
  /\ Requesting
  /\ current.client_socket \in readfds
  /\ Proceed([current EXCEPT !.client_read_closed = TRUE],
             currentfds \ {current.client_socket}, current_write_fds)

ClientData ==
  /\ Requesting
  /\ current.client_socket \in readfds
  /\ \E c \in Parsed(current) : Proceed(c, currentfds, current_write_fds)

ClientBadRequest ==
  /\ Requesting
  /\ current.client_socket \in readfds
  /\ \E c \in Parsed(current) :
       Proceed([c EXCEPT !.send_final_message = TRUE],
               FinalReadFds(c, currentfds),
               FinalWriteFds(c, current_write_fds))

-----------------------------------------------------------------------------
(* Finding the server: DoHHandlingZone, for an entry with a host and no      *)
(* server yet                                                                *)

Proceeding == pc = "proceed"
Resolving == Proceeding /\ ~current.connected /\ current.host # "none"

\* connectToDoH: a socket connected to the DoH server; -1 when there is no
\* descriptor; or -1 with the socket left open when connect() fails.
connectToDoH(tab) ==
  LET Opened(fd, answer) ==
        [socket |-> answer, sockets |-> [tab EXCEPT ![fd] = "doh"]]
  IN  IF LowestFree(tab) = {}
        THEN {[socket |-> -1, sockets |-> tab]}
        ELSE {Opened(fd, fd) : fd \in LowestFree(tab)}
               \cup {Opened(fd, -1) : fd \in IF "dohConnect" \in Faults
                                               THEN LowestFree(tab) ELSE {}}

\* Mutant: the flag of the final message is not set.
InternalServerErrorUnflagged(c, rd, wr) ==
  Leave(c, FinalReadFds(c, rd), FinalWriteFds(c, wr))

\* prepareFinalMessage with a 500, after c, rd, wr and tab were computed.
InternalServerError(c, rd, wr) ==
  Leave([c EXCEPT !.send_final_message = TRUE],
        FinalReadFds(c, rd), FinalWriteFds(c, wr))

\* Mutant: resetDoH closes the socket and keeps its number.
ServerReachedKeepsDoH(c, rd, wr) ==
  \E fd \in LowestFree(sockets) :
    /\ sockets' = [Close(sockets, {c.doh_socket}) EXCEPT ![fd] = "server"]
    /\ maxSocket' = Larger(maxSocket, fd)
    /\ Leave([c EXCEPT !.server_socket = fd, !.connected = TRUE,
                       !.connection_informed = ~c.connect],
             rd \ {Bit(c.doh_socket)},
             wr \cup {IF c.connect THEN c.client_socket ELSE fd})

\* setupRemoteSocket6 reached a server.  A CONNECT is answered first, any other
\* request is sent to the server; the DoH socket is closed if there is one.
ServerReached(c, rd, wr) ==
  \E fd \in LowestFree(sockets) :
    /\ sockets' = [Close(sockets, {c.doh_socket}) EXCEPT ![fd] = "server"]
    /\ maxSocket' = Larger(maxSocket, fd)
    /\ Leave([c EXCEPT !.server_socket = fd, !.connected = TRUE,
                       !.connection_informed = ~c.connect, !.doh_socket = 0],
             rd \ {Bit(c.doh_socket)},
             wr \cup {IF c.connect THEN c.client_socket ELSE fd})

\* No address, none that answers, no descriptor, or the proxy's own address.
ServerUnreachable(c, rd, wr) ==
  InternalServerError(c, rd, wr) /\ UNCHANGED <<sockets, maxSocket>>

\* The host is an address.
ConnectDirect ==
  /\ Resolving
  /\ ~current.tried_direct
  /\ current.host = "ip"
  /\ \/ ServerReached(current, currentfds, current_write_fds)
     \/ ServerUnreachable(current, currentfds, current_write_fds)

\* The host is a name: ask the DoH server, first for the A records.
StartDoH ==
  /\ Resolving
  /\ current.host = "name"
  /\ current.doh_socket = 0
  /\ \E o \in connectToDoH(sockets) :
       LET c == [current EXCEPT !.tried_direct = TRUE, !.doh_socket = o.socket]
       IN  /\ sockets' = o.sockets
           /\ \/ /\ o.socket > 0
                 /\ maxSocket' = Larger(maxSocket, o.socket)
                 /\ Leave(c, currentfds, current_write_fds \cup {o.socket})
              \/ /\ o.socket = -1
                 /\ InternalServerError(c, currentfds, current_write_fds)
                 /\ UNCHANGED maxSocket

AwaitingDoH ==
  /\ Resolving
  /\ current.host = "name"
  /\ current.doh_socket # 0

\* Mutant: the answer is not waited for.
QuerySentDeaf ==
  /\ AwaitingDoH
  /\ current.doh_socket \in writefds
  /\ LeaveOpen(current, currentfds, current_write_fds \ {current.doh_socket})

\* makeRequest sent the last byte of the query: wait for the answer.  A part of
\* it may be read in the same visit.
QuerySent ==
  /\ AwaitingDoH
  /\ current.doh_socket \in writefds
  /\ LeaveOpen(current, currentfds \cup {current.doh_socket},
               current_write_fds \ {current.doh_socket})

\* Nothing to do for the DoH socket, a part of the query is sent (or nothing,
\* on an error), or a part of the answer is read.
DoHPending ==
  /\ AwaitingDoH
  /\ LeaveOpen(current, currentfds, current_write_fds)

\* The interest sets when DoHHandlingZone comes to read the DoH socket: in this
\* visit the query may just have been completed.
AfterSend ==
  {[rd |-> currentfds, wr |-> current_write_fds]}
  \cup {[rd |-> currentfds \cup {fd}, wr |-> current_write_fds \ {fd}] :
          fd \in writefds \cap {current.doh_socket}}

\* The answer is complete: the DoH server closed, or read() failed.
Answered == AwaitingDoH /\ Bit(current.doh_socket) \in readfds

\* Answer to the A query, whatever it says: a new connection for the AAAA query.
\* FD_CLR comes after connectToDoH and addresses the new descriptor.  Its failure
\* is not looked at: the entry goes on with doh_socket -1, which no select() up
\* to maxSocket < 63 reports.
SwitchFamily ==
  /\ Answered
  /\ current.familyFlag = 0
  /\ \E f \in AfterSend,
        o \in connectToDoH(Close(sockets, {current.doh_socket})) :
       /\ sockets' = o.sockets
       /\ maxSocket' = Larger(maxSocket, o.socket)
       /\ Leave([current EXCEPT !.familyFlag = 1, !.doh_socket = o.socket],
                f.rd \ {Bit(o.socket)}, f.wr \cup {Bit(o.socket)})

\* Answer to the AAAA query: connect to an address of either family.  An error
\* code gives up even when the A query gave addresses.
AnswerReachesServer ==
  /\ Answered
  /\ current.familyFlag = 1
  /\ \E f \in AfterSend : ServerReached(current, f.rd, f.wr)

AnswerGivesUp ==
  /\ Answered
  /\ current.familyFlag = 1
  /\ \E f \in AfterSend : ServerUnreachable(current, f.rd, f.wr)

-----------------------------------------------------------------------------
(* The other cases of the second half *)

NoHostYet ==
  /\ Proceeding
  /\ ~current.connected
  /\ current.host = "none"
  /\ LeaveOpen(current, currentfds, current_write_fds)

Informing == Proceeding /\ current.connected /\ ~current.connection_informed

\* Mutant: the client is still watched for writing once it has its 200.
ConnectionInformedWatched ==
  /\ Informing
  /\ current.client_socket \in writefds
  /\ LeaveOpen([current EXCEPT !.connection_informed = TRUE,
                               !.stay_connected = TRUE],
               currentfds \cup {current.client_socket}, current_write_fds)

\* informConnection sent the last byte of the 200.
ConnectionInformed ==
  /\ Informing
  /\ current.client_socket \in writefds
  /\ LeaveOpen([current EXCEPT !.connection_informed = TRUE,
                               !.stay_connected = TRUE],
               currentfds \cup {current.client_socket},
               current_write_fds \ {current.client_socket})

\* The client is not ready, a part of the 200 is sent, or send() fails.
InformPending ==
  /\ Informing
  /\ LeaveOpen(current, currentfds, current_write_fds)

StayConnected ==
  /\ Proceeding
  /\ current.connected
  /\ current.connection_informed
  /\ LeaveOpen([current EXCEPT !.stay_connected = TRUE],
               currentfds, current_write_fds)

-----------------------------------------------------------------------------
(* Relaying: handleStayConnected *)

Staying == Serving /\ current.stay_connected /\ ~current.send_final_message

\* Mutant: the end of the server is not looked at.
MustCloseClientOnly(c) == c.client_read_closed

\* checkIfMustClose.  The write_closed flags are set only when send() returns 0,
\* which it never does for a positive length, so they are always false.
MustClose(c) == c.client_read_closed \/ (c.server_read_closed /\ ~c.response)

CloseFinished ==
  /\ Staying
  /\ MustClose(current)
  /\ closeAll

\* First visit: what a CONNECT client sent before its 200 is discarded.
SetUpRelay ==
  /\ Staying
  /\ ~MustClose(current)
  /\ ~current.stay_connected_setted_up
  /\ LET pending == current.request /\ ~current.connect
     IN  LeaveOpen([current EXCEPT !.stay_connected_setted_up = TRUE,
                                   !.request = pending, !.response = FALSE],
                   currentfds \cup {current.server_socket},
                   IF pending THEN current_write_fds \cup {current.server_socket}
                              ELSE current_write_fds)

Relaying ==
  /\ Staying
  /\ ~MustClose(current)
  /\ current.stay_connected_setted_up

\* What simpleRead may find on fd, and handleWrite achieve with fd: "all" also
\* when there was nothing to send.
ReadOutcomes(fd, reset) ==
  IF fd \in readfds
    THEN {"data", "eof"} \cup {x \in {"error"} : reset \in Faults}
    ELSE {"none"}

WriteOutcomes(fd, pending, reset) ==
  IF fd \notin writefds THEN {"none"}
  ELSE IF ~pending THEN {"all"}
  ELSE {"all", "part"} \cup {x \in {"error"} : reset \in Faults}

\* The four transfers in the order of the code, given what each of them finds:
\* cr, sr for the reads of client and server, sw, cw for the writes to them.
Transfer(cr, sr, sw, cw) ==
  LET c  == [current EXCEPT
               !.request = (current.request \/ cr = "data") /\ sw # "all",
               !.response = (current.response \/ sr = "data") /\ cw # "all",
               !.server_read_closed = current.server_read_closed \/ sr = "eof"]
      toServer == {x \in {c.server_socket} : cr = "data"}
      toClient == {x \in {c.client_socket} : sr \in {"data", "eof"}}
      sent == {x \in {c.server_socket} : sw = "all"}
                \cup {x \in {c.client_socket} : cw = "all"}
  IN  IF \/ cr \in {"eof", "error"} \/ "error" \in {sr, sw, cw}
         \/ MustClose(c)
        THEN closeAll
        ELSE LeaveOpen(c,
               currentfds \ {x \in {c.server_socket} : sr = "eof"},
               (current_write_fds \cup toServer \cup toClient) \ sent)

Relay ==
  /\ Relaying
  /\ \E cr \in ReadOutcomes(current.client_socket, "clientReset"),
        sr \in ReadOutcomes(current.server_socket, "serverReset") :
       \E sw \in WriteOutcomes(current.server_socket,
                               current.request \/ cr = "data", "serverReset"),
          cw \in WriteOutcomes(current.client_socket,
                               current.response \/ sr = "data", "clientReset") :
         Transfer(cr, sr, sw, cw)

-----------------------------------------------------------------------------
Init ==
  /\ connections = [s \in Slots |-> NoConnection]
  /\ sockets = [fd \in Fds |-> "closed"]
  /\ currentfds = {}
  /\ current_write_fds = {}
  /\ readfds = {}
  /\ writefds = {}
  /\ maxSocket = 0
  /\ concurrent = 0
  /\ pc = "select"
  /\ n = 1

ReadRequest ==
  ClientSilent \/ ClientReadError \/ ClientEof \/ ClientData \/ ClientBadRequest

DoHHandlingZone ==
  \/ ConnectDirect \/ StartDoH \/ QuerySent \/ DoHPending \/ SwitchFamily
  \/ AnswerReachesServer \/ AnswerGivesUp

HandleStayConnected == CloseFinished \/ SetUpRelay \/ Relay

Next ==
  \/ Select \/ SelectFails
  \/ NoNewConnection \/ HandleConnection
  \/ SkipConnection \/ FinalMessageSent \/ FinalMessagePending
  \/ ReadRequest \/ DoHHandlingZone
  \/ NoHostYet \/ ConnectionInformed \/ InformPending \/ StayConnected
  \/ HandleStayConnected

Spec == Init /\ [][Next]_vars
=============================================================================
