------------------------------- MODULE Tunnel --------------------------------
(***************************************************************************)
(* One connection in handleStayConnected (proxyHandlerHelper.c) with the   *)
(* bytes it carries: the two message buffers, simpleRead and handleWrite   *)
(* (proxyUtils.c), the interest and ready sets of its two sockets, and the *)
(* two ends, which write and stop writing at any time, between any two     *)
(* system calls of the handler.  An end's bytes are the numbers 1, 2, ...  *)
(***************************************************************************)
EXTENDS Naturals, Sequences

CONSTANTS
  ReadSize,   \* bytes simpleRead asks for (2048 in the code)
  Pending,    \* bytes of the request the parser left in its buffer
  MaxEarly,   \* bound of the model: bytes the parser had of a CONNECT after its header
  MaxBytes    \* bound of the model: bytes an end writes

TunnelAssumption ==
  /\ ReadSize \in Nat \ {0}
  /\ Pending \in Nat \ {0}
  /\ MaxEarly \in Nat
  /\ MaxBytes \in Nat /\ Pending <= MaxBytes /\ MaxEarly <= MaxBytes

ASSUME TunnelAssumption

VARIABLES
  written,        \* how many bytes each end has written
  finished,       \* the ends that write no more: read() returns 0 after the rest
  inbox,          \* bytes of each end that the proxy has not read
  received,       \* bytes each end has received
  connect,        \* isConnect(client_context_parser)
  early,          \* bytes of the client in the buffer behind the header of a CONNECT
  buffer,         \* request.full_message (of the client), response.full_message
  read_closed,    \* client_read_closed, server_read_closed
  setted_up,      \* stay_connected_setted_up
  currentfds, current_write_fds,   \* the ends watched
  readfds, writefds,               \* the ends the last select() reported
  open,           \* the entry is in use
  sent_bytes,     \* metrics[SENT_BYTES] added by this connection
  pc              \* where the handler is

peers  == <<written, finished>>
flags  == <<connect, early, read_closed, setted_up, open>>
watch  == <<currentfds, current_write_fds>>
ready  == <<readfds, writefds>>
vars   == <<peers, inbox, received, buffer, flags, watch, ready, sent_bytes, pc>>

Ends == {"client", "server"}
Other(e) == CHOOSE f \in Ends : f # e
Bytes(k) == [i \in 1 .. k |-> i]

\* The parsed header of a CONNECT, which no server is to receive.
ConnectHeader == <<0>>

Smaller(a, b) == IF a < b THEN a ELSE b

\* What the first half of the life of the connection left (Proxy): a CONNECT
\* was told and its client is watched for reading; any other request is in the
\* buffer, its server is watched for writing, and its client for reading unless
\* it has closed already.  What a CONNECT client wrote before it was told that the
\* tunnel is open was parsed with its request, or is still to be read.
Init ==
  /\ connect \in BOOLEAN
  /\ early \in IF connect THEN 0 .. MaxEarly ELSE {0}
  /\ written = [e \in Ends |-> IF e = "server" THEN 0
                               ELSE IF connect THEN early ELSE Pending]
  /\ finished \in SUBSET {"client"}
  /\ inbox = [e \in Ends |-> <<>>]
  /\ received = [e \in Ends |-> <<>>]
  /\ buffer = [e \in Ends |-> IF e = "server" THEN <<>>
                              ELSE IF connect THEN ConnectHeader \o Bytes(early)
                              ELSE Bytes(Pending)]
  /\ read_closed \in {{}, finished}
  /\ setted_up = FALSE
  /\ currentfds = {"client"} \ read_closed
  /\ current_write_fds = IF connect THEN {} ELSE {"server"}
  /\ readfds = {}
  /\ writefds = {}
  /\ open = TRUE
  /\ sent_bytes = 0
  /\ pc = "select"

-----------------------------------------------------------------------------
(* The two ends *)

Write(e) ==
  /\ open
  /\ e \notin finished
  /\ written[e] < MaxBytes
  /\ written' = [written EXCEPT ![e] = @ + 1]
  /\ inbox' = [inbox EXCEPT ![e] = Append(@, written[e] + 1)]
  /\ UNCHANGED <<finished, received, buffer, flags, watch, ready, sent_bytes, pc>>

Finish(e) ==
  /\ open
  /\ e \notin finished
  /\ finished' = finished \cup {e}
  /\ UNCHANGED <<written, inbox, received, buffer, flags, watch, ready,
                 sent_bytes, pc>>

-----------------------------------------------------------------------------
(* The proxy *)

Goto(place) == pc' = place

\* select() reports the ends that can be read, and those that can be written as
\* their peers let it; it may return for another connection of the proxy.
Select ==
  /\ pc = "select"
  /\ open
  /\ readfds' = {e \in currentfds : inbox[e] # <<>> \/ e \in finished}
  /\ writefds' \in SUBSET current_write_fds
  /\ Goto("check")
  /\ UNCHANGED <<peers, inbox, received, buffer, flags, watch, sent_bytes>>

\* Mutant: the end of the server closes at once.
MustCloseEarly(closed, response) == closed # {}

\* Mutant: the end of the server is not looked at.
MustCloseClientOnly(closed, response) == "client" \in closed

\* checkIfMustClose, given what is left of the answer (see Proxy!MustClose).
MustClose(closed, response) ==
  "client" \in closed \/ ("server" \in closed /\ response = <<>>)

\* closeAll: the entry is cleared and its sockets closed.
closeAll ==
  /\ open' = FALSE
  /\ buffer' = [e \in Ends |-> <<>>]
  /\ inbox' = [e \in Ends |-> <<>>]
  /\ read_closed' = {}
  /\ setted_up' = FALSE
  /\ connect' = FALSE
  /\ early' = early
  /\ currentfds' = {}
  /\ current_write_fds' = {}
  /\ readfds' = {}
  /\ writefds' = {}
  /\ Goto("select")

CloseFinished ==
  /\ pc = "check"
  /\ MustClose(read_closed, buffer["server"])
  /\ closeAll
  /\ UNCHANGED <<peers, received, sent_bytes>>

SetUp ==
  /\ pc = "check"
  /\ ~MustClose(read_closed, buffer["server"])
  /\ ~setted_up
  /\ setted_up' = TRUE
  /\ buffer' = [buffer EXCEPT !["client"] = IF connect THEN <<>> ELSE @,
                              !["server"] = <<>>]
  /\ current_write_fds' =
       current_write_fds \cup {e \in {"server"} : buffer'["client"] # <<>>}
  /\ currentfds' = currentfds \cup {"server"}
  /\ Goto("select")
  /\ UNCHANGED <<peers, inbox, received, connect, early, read_closed, open, ready,
                 sent_bytes>>

Enter ==
  /\ pc = "check"
  /\ ~MustClose(read_closed, buffer["server"])
  /\ setted_up
  /\ Goto("read client")
  /\ UNCHANGED <<peers, inbox, received, buffer, flags, watch, ready, sent_bytes>>

\* simpleRead found bytes: they go to the buffer and the other end is watched.
ReadBytes(e, next) ==
  /\ e \in readfds
  /\ inbox[e] # <<>>
  /\ LET k == Smaller(ReadSize, Len(inbox[e]))
     IN  /\ buffer' = [buffer EXCEPT ![e] = @ \o SubSeq(inbox[e], 1, k)]
         /\ inbox' = [inbox EXCEPT ![e] = SubSeq(@, k + 1, Len(@))]
  /\ current_write_fds' = current_write_fds \cup {Other(e)}
  /\ Goto(next)
  /\ UNCHANGED <<peers, received, flags, currentfds, ready, sent_bytes>>

Pass(next) ==
  /\ Goto(next)
  /\ UNCHANGED <<peers, inbox, received, buffer, flags, watch, ready, sent_bytes>>

ReadClient ==
  /\ pc = "read client"
  /\ \/ "client" \notin readfds /\ Pass("read server")
     \/ ReadBytes("client", "read server")

\* The client stopped writing: everything is closed, whatever it is still owed.
ClientEof ==
  /\ pc = "read client"
  /\ "client" \in readfds
  /\ inbox["client"] = <<>>
  /\ closeAll
  /\ UNCHANGED <<peers, received, sent_bytes>>

ReadServer ==
  /\ pc = "read server"
  /\ \/ "server" \notin readfds /\ Pass("write server")
     \/ ReadBytes("server", "write server")

\* The server stopped writing: what is left of its answer is still to be sent.
ServerEof ==
  /\ pc = "read server"
  /\ "server" \in readfds
  /\ inbox["server"] = <<>>
  /\ IF buffer["server"] = <<>>
       THEN closeAll
       ELSE /\ read_closed' = read_closed \cup {"server"}
            /\ current_write_fds' = current_write_fds \cup {"client"}
            /\ currentfds' = currentfds \ {"server"}
            /\ Goto("write server")
            /\ UNCHANGED <<inbox, buffer, connect, early, setted_up, open, ready>>
  /\ UNCHANGED <<peers, received, sent_bytes>>

\* Mutant: what send() was given is counted, not what it took.
SendOvercounted(e, k) ==
  LET bytes == buffer[Other(e)]
  IN  /\ received' = [received EXCEPT ![e] = @ \o SubSeq(bytes, 1, k)]
      /\ buffer' = [buffer EXCEPT ![Other(e)] = SubSeq(bytes, k + 1, Len(bytes))]
      /\ sent_bytes' = sent_bytes + Len(bytes)
      /\ current_write_fds' = current_write_fds \ {x \in {e} : k = Len(bytes)}

\* Mutant: a partial send empties the buffer.
SendForgets(e, k) ==
  LET bytes == buffer[Other(e)]
  IN  /\ received' = [received EXCEPT ![e] = @ \o SubSeq(bytes, 1, k)]
      /\ buffer' = [buffer EXCEPT ![Other(e)] = <<>>]
      /\ sent_bytes' = sent_bytes + k
      /\ current_write_fds' = current_write_fds \ {x \in {e} : k = Len(bytes)}

\* Mutant: a partial send ends the watch.
SendOnce(e, k) ==
  LET bytes == buffer[Other(e)]
  IN  /\ received' = [received EXCEPT ![e] = @ \o SubSeq(bytes, 1, k)]
      /\ buffer' = [buffer EXCEPT ![Other(e)] = SubSeq(bytes, k + 1, Len(bytes))]
      /\ sent_bytes' = sent_bytes + k
      /\ current_write_fds' = current_write_fds \ {e}

\* handleWrite to e: send() takes the first k bytes of what the other end wrote
\* (0 only when there is none) and e is no longer watched when that was all.
Send(e, k) ==
  LET bytes == buffer[Other(e)]
  IN  /\ received' = [received EXCEPT ![e] = @ \o SubSeq(bytes, 1, k)]
      /\ buffer' = [buffer EXCEPT ![Other(e)] = SubSeq(bytes, k + 1, Len(bytes))]
      /\ sent_bytes' = sent_bytes + k
      /\ current_write_fds' = current_write_fds \ {x \in {e} : k = Len(bytes)}

\* How much send() may take.
Takes(e) == IF buffer[Other(e)] = <<>> THEN {0} ELSE 1 .. Len(buffer[Other(e)])

WriteServer ==
  /\ pc = "write server"
  /\ \/ "server" \notin writefds /\ Pass("write client")
     \/ /\ "server" \in writefds
        /\ \E k \in Takes("server") : Send("server", k)
        /\ Goto("write client")
        /\ UNCHANGED <<peers, inbox, flags, currentfds, ready>>

\* After the last transfer the connection is closed if nothing is left to do.
WriteClient ==
  /\ pc = "write client"
  /\ \/ "client" \notin writefds /\ Pass("select")
     \/ /\ "client" \in writefds
        /\ \E k \in Takes("client") :
             IF MustClose(read_closed, SubSeq(buffer["server"], k + 1,
                                              Len(buffer["server"])))
               THEN /\ received' = [received EXCEPT !["client"] =
                                      @ \o SubSeq(buffer["server"], 1, k)]
                    /\ sent_bytes' = sent_bytes + k
                    /\ closeAll
                    /\ UNCHANGED peers
               ELSE /\ Send("client", k)
                    /\ Goto("select")
                    /\ UNCHANGED <<peers, inbox, flags, currentfds, ready>>

Handler ==
  \/ CloseFinished \/ SetUp \/ Enter
  \/ ReadClient \/ ClientEof \/ ReadServer \/ ServerEof
  \/ WriteServer \/ WriteClient

Next == Select \/ Handler \/ \E e \in Ends : Write(e) \/ Finish(e)

Spec == Init /\ [][Next]_vars

\* The loop runs the handler to its end, select() returns for what can be read,
\* and an end that is watched for writing takes bytes again and again.
Fairness ==
  /\ WF_vars(Handler)
  /\ WF_vars(Select /\ readfds' # {})
  /\ \A e \in Ends : SF_vars(Select /\ e \in writefds')

FairSpec == Spec /\ Fairness

-----------------------------------------------------------------------------
(* Properties *)

\* Every variable holds a value of its type.
TypeOK ==
  /\ written \in [Ends -> 0 .. MaxBytes]
  /\ finished \subseteq Ends
  /\ inbox \in [Ends -> Seq(1 .. MaxBytes)]
  /\ received \in [Ends -> Seq(1 .. MaxBytes)]
  /\ buffer \in [Ends -> Seq(0 .. MaxBytes)]
  /\ read_closed \subseteq Ends
  /\ {connect, setted_up, open} \subseteq BOOLEAN
  /\ early \in 0 .. MaxEarly
  /\ currentfds \subseteq Ends /\ current_write_fds \subseteq Ends
  /\ readfds \subseteq Ends /\ writefds \subseteq Ends
  /\ sent_bytes \in 0 .. 2 * MaxBytes
  /\ pc \in {"select", "check", "read client", "read server",
             "write server", "write client"}

\* The first bytes of an end, which the other one is not to receive: those a
\* CONNECT client sent ahead, which the first visit drops with the header.
Skipped(e) == IF e = "client" THEN early ELSE 0

\* The bytes of an end are all somewhere, in order and once: received by the
\* other end, in the buffer, or not read yet.  Partial sends that delete the
\* start of the buffer while reads append to it lose and repeat nothing, and the
\* first visit drops no more than what was read before it.
Conserved ==
  open => \A e \in Ends :
    LET kept == IF e = "client" /\ connect /\ ~setted_up THEN <<>> ELSE buffer[e]
    IN  received[Other(e)] \o kept \o inbox[e] =
          [k \in 1 .. written[e] - Skipped(e) |-> Skipped(e) + k]

\* The bytes counted for "bytes" of the management protocol are the bytes the
\* two ends have received.
BytesCounted ==
  sent_bytes = Len(received["client"]) + Len(received["server"])

Ideal ==
  INSTANCE Relay WITH
    written  <- [e \in Ends |-> written[e] - Skipped(e)],
    received <- [e \in Ends |-> [k \in DOMAIN received[e] |->
                                   received[e][k] - Skipped(Other(e))]]

\* The connection behaves as Relay: bytes in order, and closed only when the
\* client finished or the whole answer was delivered.
ImplementsRelay == Ideal!Spec

\* The relay serves both ends: from the start, except that the server of a
\* CONNECT is heard only after the first visit.
Served == setted_up \/ (open /\ ~connect)

\* Every byte an end writes, but for those sent ahead, reaches the other end, or the connection is closed:
\* no order of reads, partial sends and closes leaves bytes in a buffer that
\* nobody is watched for.
Delivered ==
  \A e \in Ends : \A k \in 1 .. MaxBytes :
    Served /\ written[e] >= k + Skipped(e) ~> Len(received[Other(e)]) >= k \/ ~open

\* Once the server has closed, the connection is closed.
EndsAfterServer == Served /\ "server" \in finished ~> ~open
=============================================================================
