--------------------------------- MODULE Mcp ---------------------------------
(***************************************************************************)
(* The management protocol: administrators run the client (client/), which *)
(* sends one UDP request at a time from a socket of its own and waits for  *)
(* the answer; the proxy (mcpUtils.c) answers from its metrics or changes  *)
(* the size of its read buffer (proxyClient.c).  Meanwhile the connections *)
(* of the proxy move the metrics.                                          *)
(***************************************************************************)
EXTENDS Integers

CONSTANTS
  Admins,       \* the administrators
  Sizes,        \* the sizes they ask for: strtol of what they type
  Memory,       \* realloc() of more than this fails
  Unreliable,   \* whether datagrams may be lost and duplicated, and others arrive
  MaxQueries,   \* bound: requests of an administrator
  MaxMetric     \* bound: what the metrics may reach

McpAssumption ==
  /\ Sizes \subseteq Nat
  /\ Memory \in Nat \ {0, 1}
  /\ Unreliable \in BOOLEAN
  /\ MaxQueries \in Nat
  /\ MaxMetric \in Nat

ASSUME McpAssumption

VARIABLES
  metrics,       \* metrics[]: the three counters
  BUFFER_SIZE,   \* what read() is asked for
  allocated,     \* how many bytes *BUFFER_LOCATION has
  requests,      \* requests on their way to the proxy
  replies,       \* replies on their way to the clients
  sockets,       \* how many sockets each client has opened
  query,         \* the request each client is waiting for an answer to
  shown,         \* what each administrator was last told of each metric
  resized,       \* the sizes the buffer has been given (history variable)
  lost           \* the sockets one of whose datagrams was lost (history variable)

net    == <<requests, replies, lost>>
buffer == <<BUFFER_SIZE, allocated, resized>>
client == <<sockets, query, shown>>
vars   == <<metrics, buffer, net, client>>

Metrics == {"history", "concurrent", "bytes"}

\* struct mcp_package, without its is_response (a reply is in replies).  key is
\* whether the passphrase is the one of the proxy: an administrator may run a
\* client that was built with another.
Get(m, key) == [type |-> m, body |-> 0, key |-> key]
Set(s, key) == [type |-> "readbuffer", body |-> s, key |-> key]
Queries ==
  {Get(m, key) : m \in Metrics, key \in BOOLEAN}
    \cup {Set(s, key) : s \in Sizes, key \in BOOLEAN}
NoQuery == [type |-> "none", body |-> 0, key |-> TRUE]

Socket == Admins \X (1 .. MaxQueries)

Init ==
  /\ metrics = [m \in Metrics |-> 0]
  /\ BUFFER_SIZE = 1
  /\ allocated = BUFFER_SIZE + 1
  /\ resized = {}
  /\ requests = {}
  /\ replies = {}
  /\ lost = {}
  /\ sockets = [a \in Admins |-> 0]
  /\ query = [a \in Admins |-> NoQuery]
  /\ shown = [a \in Admins |-> [m \in Metrics |-> 0]]

-----------------------------------------------------------------------------
(* The connections of the proxy *)

Accept ==
  /\ metrics["history"] < MaxMetric
  /\ metrics' = [metrics EXCEPT !["history"] = @ + 1, !["concurrent"] = @ + 1]
  /\ UNCHANGED <<buffer, net, client>>

\* Mutant: the counter goes below 0.
EndBelow ==
  /\ metrics' = [metrics EXCEPT !["concurrent"] = @ - 1]
  /\ UNCHANGED <<buffer, net, client>>

\* substractMetric.
End ==
  /\ metrics["concurrent"] > 0
  /\ metrics' = [metrics EXCEPT !["concurrent"] = @ - 1]
  /\ UNCHANGED <<buffer, net, client>>

SendBytes ==
  /\ metrics["bytes"] < MaxMetric
  /\ metrics' = [metrics EXCEPT !["bytes"] = @ + 1]
  /\ UNCHANGED <<buffer, net, client>>

-----------------------------------------------------------------------------
(* The network *)

\* A datagram taken from a channel is gone, or a copy of it is still coming.
Taken(channel, p) ==
  {channel \ {p}} \cup {c \in {channel} : Unreliable}

Lose ==
  /\ Unreliable
  /\ \/ \E p \in requests : requests' = requests \ {p} /\ lost' = lost \cup ({p.from} \cap Socket)
                           /\ UNCHANGED replies
     \/ \E p \in replies : replies' = replies \ {p} /\ lost' = lost \cup {p.to}
                          /\ UNCHANGED requests
  /\ UNCHANGED <<metrics, buffer, client>>

\* A datagram that is not a request: of another size, of another type, or a
\* response.
Stray ==
  [from |-> <<>>, query |-> [type |-> "invalid", body |-> 0, key |-> TRUE]]

SendStray ==
  /\ Unreliable
  /\ requests' = requests \cup {Stray}
  /\ UNCHANGED <<metrics, buffer, replies, lost, client>>

-----------------------------------------------------------------------------
(* The client: executeCommand and sendAndReceiveQuery *)

Ask(a) ==
  /\ query[a] = NoQuery
  /\ sockets[a] < MaxQueries
  /\ sockets' = [sockets EXCEPT ![a] = @ + 1]
  /\ \E q \in Queries :
       /\ query' = [query EXCEPT ![a] = q]
       /\ requests' = requests \cup {[from |-> <<a, sockets[a] + 1>>, query |-> q]}
  /\ UNCHANGED <<metrics, buffer, replies, lost, shown>>

\* Mutant: every query uses one socket, so any reply to the client is taken.
AnswersAny(r, a) == r.to[1] = a /\ query[a] # NoQuery

\* The client reads the socket of its present query only.
Answers(r, a) == r.to = <<a, sockets[a]>> /\ query[a] # NoQuery

\* recvfrom() returns: parseResponse, and the answer is shown.
Receive(a) ==
  /\ \E r \in replies :
       /\ Answers(r, a)
       /\ replies' = replies \ {r}
       /\ shown' = IF query[a].type \in Metrics /\ r.code = "OK"
                     THEN [shown EXCEPT ![a][query[a].type] = r.body]
                     ELSE shown
  /\ query' = [query EXCEPT ![a] = NoQuery]
  /\ UNCHANGED <<metrics, buffer, requests, lost, sockets>>

\* recvfrom() has no time limit: the administrator interrupts the client, which
\* is the only way out of it, and starts it again.
Interrupt(a) ==
  /\ query[a] # NoQuery
  /\ query' = [query EXCEPT ![a] = NoQuery]
  /\ UNCHANGED <<metrics, buffer, net, sockets, shown>>

-----------------------------------------------------------------------------
(* The proxy: handleMCPRequest *)

\* The size is assigned first and the buffer reallocated after that.
setReadBufferSize(size) ==
  IF size = 0
    THEN UNCHANGED buffer
    ELSE /\ BUFFER_SIZE' = size
         /\ allocated' = IF size <= Memory THEN size ELSE allocated
         /\ resized' = resized \cup {x \in {size} : x <= Memory}

\* Mutant: a failure is answered with OK.
SetCodeOK(size) == "OK"

\* setReadBufferSize returns -1 only when realloc() failed.
SetCode(size) == IF size > Memory THEN "SERVER_ERROR" ELSE "OK"

\* The type and the body of the answer parseAndExecuteRequest prepares.
Code(p) ==
  CASE p = Stray                               -> "INVALID_REQUEST_ERROR"
    [] p # Stray /\ ~p.query.key               -> "AUTH_ERROR"
    [] p.query.key /\ p.query.type \in Metrics -> "OK"
    [] p.query.key /\ p.query.type = "readbuffer" -> SetCode(p.query.body)

Body(p) == IF p.query.type \in Metrics /\ p.query.key THEN metrics[p.query.type] ELSE 0

\* Mutant: the answer of a realloc() that failed is not sent either.
SentOnSuccess(code) == code = "OK"

\* It returns -1 for the other two codes, and handleMCPRequest drops the answer.
Sent(code) == code \in {"OK", "SERVER_ERROR"}

\* A request from socket s, or a stray datagram.
HandleMCPRequest(s) ==
  /\ \E p \in requests :
       /\ p.from = s
       /\ requests' \in Taken(requests, p)
       /\ replies' = replies \cup
            {r \in {[to |-> s, code |-> Code(p), body |-> Body(p)]} : Sent(r.code)}
       /\ IF p.query.type = "readbuffer" /\ p.query.key
            THEN setReadBufferSize(p.query.body)
            ELSE UNCHANGED buffer
  /\ UNCHANGED <<metrics, lost, client>>

Next ==
  \/ Accept \/ End \/ SendBytes
  \/ Lose \/ SendStray
  \/ \E a \in Admins : Ask(a) \/ Receive(a) \/ Interrupt(a)
  \/ \E s \in Socket \cup {Stray.from} : HandleMCPRequest(s)

Spec == Init /\ [][Next]_vars

\* The select() loop gets to the management socket, whose datagrams are taken in
\* turn, and a reply that arrived wakes the client.
FairSpec ==
  /\ Spec
  /\ \A s \in Socket : WF_vars(HandleMCPRequest(s))
  /\ \A a \in Admins : WF_vars(Receive(a))

-----------------------------------------------------------------------------
(* Properties *)

Requests == [from : Socket, query : Queries] \cup {Stray}
Replies  == [to : Socket, code : {"OK", "SERVER_ERROR"}, body : Nat]

\* Every variable holds a value of its type; no counter goes below 0.
TypeOK ==
  /\ metrics \in [Metrics -> 0 .. MaxMetric]
  /\ BUFFER_SIZE \in Nat /\ allocated \in Nat
  /\ resized \subseteq Sizes
  /\ requests \subseteq Requests
  /\ \A r \in replies : r \in Replies
  /\ lost \subseteq Socket
  /\ sockets \in [Admins -> 0 .. MaxQueries]
  /\ query \in [Admins -> Queries \cup {NoQuery}]
  /\ shown \in [Admins -> [Metrics -> Nat]]

\* An administrator told of the connections there have been is told of no fewer
\* than before, nor of fewer than were open by an earlier answer; the bytes never
\* decrease either.  Lost, repeated and late datagrams and interrupted clients
\* cannot make an old answer pass for a new one.
NeverBackwards ==
  [][\A a \in Admins :
       LET now == shown'[a]  before == shown[a]
       IN  /\ now["history"] >= before["history"]
           /\ now["bytes"] >= before["bytes"]
           /\ now["history"] # before["history"] =>
                now["history"] >= before["concurrent"]]_vars

\* client/mcpUtils.c:284, "Exito modificando el buffer de lectura": the client
\* that says so has had the buffer changed to the size it asked for, unless it
\* asked for 0 (what strtol() makes of a word), which is answered with OK too.
SuccessMeansChanged ==
  \A a \in Admins : \A r \in replies :
    Answers(r, a) /\ query[a].type = "readbuffer" /\ r.code = "OK" =>
      query[a].body \in resized \cup {0}

\* A client with the passphrase of the proxy, which waits without a time limit,
\* gets out by itself unless one of its own datagrams was lost: no copy, stray
\* datagram, other client or failing realloc() keeps its answer from it.
Answered ==
  \A s \in Socket :
    LET a == s[1]
    IN  query[a] # NoQuery /\ query[a].key /\ sockets[a] = s[2]
          ~> query[a] = NoQuery \/ s \in lost
=============================================================================
