------------------------------ MODULE McpProofs ------------------------------
(***************************************************************************)
(* Theorems about Mcp, for every number of administrators and requests,    *)
(* every size asked for and every behaviour of the network.                *)
(***************************************************************************)
EXTENDS Mcp, TLAPS

\* The metrics whose value never decreases, and the one they bound.
Growing == {"history", "bytes"}
Bound(m) == IF m = "concurrent" THEN "history" ELSE m

\* No more connections are open than there have been.
ConcurrentBelow == metrics["concurrent"] <= metrics["history"]

\* An administrator was told of no more than there is now.
ShownBelow ==
  \A a \in Admins : \A m \in Metrics : shown[a][m] <= metrics[Bound(m)]

\* A request on the socket a client waits at is the one it waits for, and no
\* socket is used before it is opened.
OwnRequest ==
  \A p \in requests : \A a \in Admins : \A n \in 1 .. MaxQueries :
    p.from = <<a, n>> =>
      /\ n <= sockets[a]
      /\ n = sockets[a] /\ query[a] # NoQuery => p.query = query[a]

\* What a reply says that its client is to be shown.
Truthful(r, a) ==
  /\ query[a].type = "readbuffer" /\ r.code = "OK" =>
       query[a].body \in resized \cup {0}
  /\ query[a].type \in Metrics /\ r.code = "OK" =>
       /\ r.body <= metrics[Bound(query[a].type)]
       /\ query[a].type \in Growing => r.body >= shown[a][query[a].type]
       /\ query[a].type = "history" => r.body >= shown[a]["concurrent"]

OwnReply ==
  \A r \in replies : \A a \in Admins : \A n \in 1 .. MaxQueries :
    r.to = <<a, n>> =>
      /\ n <= sockets[a]
      /\ n = sockets[a] /\ query[a] # NoQuery => Truthful(r, a)

IInv ==
  TypeOK /\ ConcurrentBelow /\ ShownBelow /\ OwnRequest /\ OwnReply

-----------------------------------------------------------------------------
(* What a query asks and how it is answered *)

LEMMA QueryType ==
  ASSUME NEW q \in Queries
  PROVE  /\ q.type \in Metrics \/ q.type = "readbuffer"
         /\ q.type = "readbuffer" => q.body \in Sizes
         /\ q # NoQuery
<1>1. CASE \E m \in Metrics, key \in BOOLEAN : q = Get(m, key)
  BY <1>1 DEF Get, NoQuery, Metrics
<1>2. CASE \E s \in Sizes, key \in BOOLEAN : q = Set(s, key)
  BY <1>2 DEF Set, NoQuery
<1> QED
  BY <1>1, <1>2 DEF Queries

LEMMA RequestType ==
  ASSUME NEW p \in Requests, p # Stray
  PROVE  p.from \in Socket /\ p.query \in Queries
BY DEF Requests

\* The only requests answered are those of a client with the passphrase.
LEMMA AnswerType ==
  ASSUME NEW p \in Requests, Sent(Code(p))
  PROVE  /\ p # Stray /\ p.query.key
         /\ p.query.type \in Metrics => Code(p) = "OK"
         /\ p.query.type = "readbuffer" => Code(p) = SetCode(p.query.body)
         /\ Code(p) \in {"OK", "SERVER_ERROR"}
<1>1. p # Stray
  <2> SUFFICES ASSUME p = Stray PROVE FALSE
    OBVIOUS
  <2>1. p.query.type = "invalid"
    BY DEF Stray
  <2>2. Code(p) = "INVALID_REQUEST_ERROR"
    BY <2>1 DEF Code, Metrics
  <2> QED
    BY <2>2 DEF Sent
<1>2. p.query.key
  <2>1. ~p.query.key => Code(p) = "AUTH_ERROR"
    BY <1>1 DEF Code
  <2> QED
    BY <2>1 DEF Sent
<1>3. p.query \in Queries
  BY <1>1, RequestType
<1>4. CASE p.query.type \in Metrics
  <2>1. Code(p) = "OK"
    BY <1>1, <1>2, <1>4 DEF Code, Metrics
  <2> QED
    BY <1>1, <1>2, <1>4, <2>1 DEF Metrics
<1>5. CASE p.query.type = "readbuffer"
  <2>1. Code(p) = SetCode(p.query.body)
    BY <1>1, <1>2, <1>5 DEF Code, Metrics
  <2> QED
    BY <1>1, <1>2, <1>5, <2>1 DEF Metrics, SetCode
<1> QED
  BY <1>3, <1>4, <1>5, QueryType

\* Counters that grow, and are bounded by one that does.
LEMMA MetricsType ==
  ASSUME TypeOK
  PROVE  /\ \A m \in Metrics : metrics[m] \in Nat
         /\ metrics["history"] \in 0 .. MaxMetric
         /\ metrics["concurrent"] \in 0 .. MaxMetric
         /\ metrics["bytes"] \in 0 .. MaxMetric
         /\ MaxMetric \in Nat
BY McpAssumption DEF TypeOK, Metrics, McpAssumption

-----------------------------------------------------------------------------
(* Each step keeps the invariant *)

LEMMA InitInv == Init => IInv
<1> SUFFICES ASSUME Init PROVE IInv
  OBVIOUS
<1>1. TypeOK
  BY McpAssumption DEF Init, TypeOK, McpAssumption
<1>2. ConcurrentBelow /\ ShownBelow
  BY DEF Init, ConcurrentBelow, ShownBelow, Metrics, Bound
<1>3. OwnRequest /\ OwnReply
  BY DEF Init, OwnRequest, OwnReply
<1> QED
  BY <1>1, <1>2, <1>3 DEF IInv

\* What no counter's growth changes: no clause of the invariant asks a metric but
\* "concurrent" to be small.
LEMMA MetricsMove ==
  ASSUME IInv, metrics' \in [Metrics -> 0 .. MaxMetric],
         metrics'["history"] >= metrics["history"],
         metrics'["bytes"] >= metrics["bytes"],
         metrics'["concurrent"] <= metrics'["history"],
         UNCHANGED <<buffer, net, client>>
  PROVE  IInv'
<1> USE DEF buffer, net, client
<1>1. TypeOK'
  BY DEF IInv, TypeOK
<1>2. ConcurrentBelow'
  BY DEF ConcurrentBelow
<1>3. \A m \in Metrics : /\ metrics[Bound(m)] \in Nat /\ metrics'[Bound(m)] \in Nat
                         /\ metrics[Bound(m)] <= metrics'[Bound(m)]
  BY MetricsType DEF IInv, Metrics, Bound
<1>4. ShownBelow'
  <2> SUFFICES ASSUME NEW a \in Admins, NEW m \in Metrics
               PROVE  shown[a][m] <= metrics'[Bound(m)]
    BY DEF ShownBelow
  <2>1. shown[a][m] \in Nat /\ shown[a][m] <= metrics[Bound(m)]
    BY DEF IInv, TypeOK, ShownBelow
  <2> QED
    BY <1>3, <2>1
<1>5. OwnRequest'
  BY DEF IInv, OwnRequest
<1>6. \A r \in replies, a \in Admins : Truthful(r, a) => Truthful(r, a)'
  <2> TAKE r \in replies, a \in Admins
  <2>1. r.body \in Nat
    BY DEF IInv, TypeOK, Replies
  <2> QED
    BY <1>3, <2>1 DEF Truthful
<1>7. OwnReply'
  BY <1>6 DEF IInv, OwnReply
<1> QED
  BY <1>1, <1>2, <1>4, <1>5, <1>7 DEF IInv

LEMMA MetricsKeep == IInv /\ (Accept \/ End \/ SendBytes) => IInv'
<1> SUFFICES ASSUME IInv, Accept \/ End \/ SendBytes PROVE IInv'
  OBVIOUS
<1>1. metrics \in [Metrics -> 0 .. MaxMetric]
  BY DEF IInv, TypeOK
<1>2. CASE Accept
  <2>1. /\ metrics'["history"] = metrics["history"] + 1
        /\ metrics'["concurrent"] = metrics["concurrent"] + 1
        /\ metrics'["bytes"] = metrics["bytes"]
        /\ metrics["history"] < MaxMetric
        /\ \A m \in Metrics : metrics'[m] = IF m = "bytes" THEN metrics[m]
                                            ELSE metrics[m] + 1
    BY <1>1, <1>2 DEF Accept, Metrics
  <2>2. metrics' = [m \in Metrics |-> metrics'[m]]
    BY <1>1, <1>2 DEF Accept
  <2>3. \A m \in Metrics : metrics'[m] \in 0 .. MaxMetric
    BY <2>1, MetricsType DEF IInv, ConcurrentBelow, Metrics
  <2>4. metrics' \in [Metrics -> 0 .. MaxMetric]
    BY <2>2, <2>3
  <2> QED
    BY <1>2, <2>1, <2>4, MetricsType, MetricsMove DEF Accept, IInv, ConcurrentBelow
<1>3. CASE End
  <2>1. /\ metrics'["history"] = metrics["history"]
        /\ metrics'["concurrent"] = metrics["concurrent"] - 1
        /\ metrics'["bytes"] = metrics["bytes"]
        /\ metrics["concurrent"] > 0
    BY <1>1, <1>3 DEF End, Metrics
  <2>2. metrics' \in [Metrics -> 0 .. MaxMetric]
    BY <1>1, <1>3, <2>1, MetricsType DEF End, IInv
  <2> QED
    BY <1>3, <2>1, <2>2, MetricsType, MetricsMove DEF End, IInv, ConcurrentBelow
<1>4. CASE SendBytes
  <2>1. /\ metrics'["history"] = metrics["history"]
        /\ metrics'["concurrent"] = metrics["concurrent"]
        /\ metrics'["bytes"] = metrics["bytes"] + 1
        /\ metrics["bytes"] < MaxMetric
    BY <1>1, <1>4 DEF SendBytes, Metrics
  <2>2. metrics' \in [Metrics -> 0 .. MaxMetric]
    BY <1>1, <1>4, <2>1, MetricsType DEF SendBytes, IInv
  <2> QED
    BY <1>4, <2>1, <2>2, MetricsType, MetricsMove DEF SendBytes, IInv, ConcurrentBelow
<1> QED
  BY <1>2, <1>3, <1>4

\* Losing, repeating and inventing datagrams, and giving up a query, take away
\* from what the invariant is about and add nothing to it.
LEMMA LoseKeeps == IInv /\ Lose => IInv'
<1> SUFFICES ASSUME IInv, Lose PROVE IInv'
  OBVIOUS
<1>1. requests' \subseteq requests /\ replies' \subseteq replies
      /\ UNCHANGED <<metrics, buffer, client>>
  BY DEF Lose
<1>2. lost' \subseteq Socket
  <2>1. CASE \E p \in requests : lost' = lost \cup ({p.from} \cap Socket)
    BY <2>1 DEF IInv, TypeOK
  <2>2. CASE \E r \in replies : lost' = lost \cup {r.to}
    BY <2>2 DEF IInv, TypeOK, Replies
  <2> QED
    BY <2>1, <2>2 DEF Lose
<1>3. TypeOK'
  BY <1>1, <1>2 DEF IInv, TypeOK, buffer, client
<1>4. ConcurrentBelow' /\ ShownBelow'
  BY <1>1 DEF IInv, ConcurrentBelow, ShownBelow, client
<1>5. OwnRequest' /\ OwnReply'
  BY <1>1 DEF IInv, OwnRequest, OwnReply, Truthful, client, buffer
<1> QED
  BY <1>3, <1>4, <1>5 DEF IInv

LEMMA SendStrayKeeps == IInv /\ SendStray => IInv'
<1> SUFFICES ASSUME IInv, SendStray PROVE IInv'
  OBVIOUS
<1>1. TypeOK'
  BY DEF IInv, TypeOK, SendStray, Requests, buffer, client
<1>2. ConcurrentBelow' /\ ShownBelow'
  BY DEF IInv, ConcurrentBelow, ShownBelow, SendStray, client
<1>3. \A a, n : Stray.from # <<a, n>>
  BY DEF Stray
<1>4. OwnRequest' /\ OwnReply'
  BY <1>3 DEF IInv, OwnRequest, OwnReply, Truthful, SendStray, client, buffer
<1> QED
  BY <1>1, <1>2, <1>4 DEF IInv

LEMMA InterruptKeeps ==
  ASSUME IInv, NEW a \in Admins, Interrupt(a)
  PROVE  IInv'
<1>1. query' \in [Admins -> Queries \cup {NoQuery}]
      /\ \A b \in Admins : query'[b] # NoQuery => query'[b] = query[b]
  BY DEF IInv, TypeOK, Interrupt
<1>2. TypeOK'
  BY <1>1 DEF IInv, TypeOK, Interrupt, buffer, net
<1>3. ConcurrentBelow' /\ ShownBelow'
  BY DEF IInv, ConcurrentBelow, ShownBelow, Interrupt
<1>4. OwnRequest'
  BY <1>1 DEF IInv, OwnRequest, Interrupt, net
<1>5. OwnReply'
  <2> SUFFICES ASSUME NEW r \in replies, NEW b \in Admins, NEW n \in 1 .. MaxQueries,
                      r.to = <<b, n>>
               PROVE  /\ n <= sockets[b]
                      /\ n = sockets[b] /\ query'[b] # NoQuery => Truthful(r, b)'
    BY DEF OwnReply, Interrupt, net
  <2>1. n <= sockets[b] /\ (n = sockets[b] /\ query[b] # NoQuery => Truthful(r, b))
    BY DEF IInv, OwnReply
  <2>2. query'[b] # NoQuery => query[b] # NoQuery /\ (Truthful(r, b) => Truthful(r, b)')
    BY <1>1 DEF Truthful, Interrupt, buffer
  <2> QED
    BY <2>1, <2>2
<1> QED
  BY <1>2, <1>3, <1>4, <1>5 DEF IInv

LEMMA AskKeeps ==
  ASSUME IInv, NEW a \in Admins, Ask(a)
  PROVE  IInv'
<1>1. PICK q \in Queries :
        /\ query' = [query EXCEPT ![a] = q]
        /\ requests' = requests \cup {[from |-> <<a, sockets[a] + 1>>, query |-> q]}
  BY DEF Ask
<1>2. /\ sockets' = [sockets EXCEPT ![a] = @ + 1] /\ sockets[a] < MaxQueries
      /\ replies' = replies
      /\ UNCHANGED <<metrics, buffer, lost, shown>>
  BY DEF Ask
<1>3. /\ sockets \in [Admins -> 0 .. MaxQueries] /\ query \in [Admins -> Queries \cup {NoQuery}]
      /\ MaxQueries \in Nat
  BY McpAssumption DEF IInv, TypeOK, McpAssumption
<1>4. /\ sockets'[a] = sockets[a] + 1 /\ sockets[a] + 1 \in 1 .. MaxQueries
      /\ \A b \in Admins : b # a => sockets'[b] = sockets[b] /\ query'[b] = query[b]
      /\ query'[a] = q /\ sockets' \in [Admins -> 0 .. MaxQueries]
      /\ query' \in [Admins -> Queries \cup {NoQuery}]
      /\ sockets[a] \in Nat /\ \A b \in Admins : sockets[b] \in Nat
  BY <1>1, <1>2, <1>3
<1>5. TypeOK'
  <2>1. [from |-> <<a, sockets[a] + 1>>, query |-> q] \in Requests
    BY <1>4 DEF Requests, Socket
  <2> QED
    BY <1>1, <1>2, <1>4, <2>1 DEF IInv, TypeOK, buffer
<1>6. ConcurrentBelow' /\ ShownBelow'
  BY <1>2 DEF IInv, ConcurrentBelow, ShownBelow
<1>7. OwnRequest'
  <2> SUFFICES ASSUME NEW p \in requests', NEW b \in Admins, NEW n \in 1 .. MaxQueries,
                      p.from = <<b, n>>
               PROVE  /\ n <= sockets'[b]
                      /\ n = sockets'[b] /\ query'[b] # NoQuery => p.query = query'[b]
    BY DEF OwnRequest
  <2>1. CASE p \in requests
    <3>1. /\ n <= sockets[b]
          /\ n = sockets[b] /\ query[b] # NoQuery => p.query = query[b]
      BY <2>1 DEF IInv, OwnRequest
    <3>2. CASE b = a
      BY <1>4, <3>1, <3>2
    <3>3. CASE b # a
      BY <1>4, <3>1, <3>3
    <3> QED
      BY <3>2, <3>3
  <2>2. CASE p = [from |-> <<a, sockets[a] + 1>>, query |-> q]
    <3>1. b = a /\ n = sockets[a] + 1
      BY <2>2
    <3> QED
      BY <1>4, <2>2, <3>1
  <2> QED
    BY <1>1, <2>1, <2>2
<1>8. OwnReply'
  <2> SUFFICES ASSUME NEW r \in replies, NEW b \in Admins, NEW n \in 1 .. MaxQueries,
                      r.to = <<b, n>>
               PROVE  /\ n <= sockets'[b]
                      /\ n = sockets'[b] /\ query'[b] # NoQuery => Truthful(r, b)'
    BY <1>2 DEF OwnReply
  <2>1. n <= sockets[b] /\ (n = sockets[b] /\ query[b] # NoQuery => Truthful(r, b))
    BY DEF IInv, OwnReply
  <2>2. CASE b = a
    BY <1>4, <2>1, <2>2
  <2>3. CASE b # a
    <3>1. Truthful(r, b) => Truthful(r, b)'
      BY <1>2, <1>4, <2>3 DEF Truthful, buffer
    <3> QED
      BY <1>4, <2>1, <2>3, <3>1
  <2> QED
    BY <2>2, <2>3
<1> QED
  BY <1>5, <1>6, <1>7, <1>8 DEF IInv

\* What a client shows is the body of a reply to the query it waits at.
LEMMA ReceiveEffect ==
  ASSUME IInv, NEW a \in Admins, Receive(a)
  PROVE  \E r \in replies :
           /\ query[a] # NoQuery /\ r.body \in Nat /\ Truthful(r, a)
           /\ replies' = replies \ {r}
           /\ shown' = IF query[a].type \in Metrics /\ r.code = "OK"
                         THEN [shown EXCEPT ![a][query[a].type] = r.body]
                         ELSE shown
<1>1. PICK r \in replies :
        /\ Answers(r, a)
        /\ replies' = replies \ {r}
        /\ shown' = IF query[a].type \in Metrics /\ r.code = "OK"
                      THEN [shown EXCEPT ![a][query[a].type] = r.body]
                      ELSE shown
  BY DEF Receive
<1>2. r \in Replies
  BY DEF IInv, TypeOK
<1>3. r.body \in Nat /\ r.to \in Socket
  BY <1>2 DEF Replies
<1>4. r.to = <<a, sockets[a]>> /\ query[a] # NoQuery
  BY <1>1 DEF Answers
<1>5. sockets[a] \in 1 .. MaxQueries
  BY <1>3, <1>4 DEF Socket
<1>6. Truthful(r, a)
  BY <1>4, <1>5 DEF IInv, OwnReply
<1> QED
  BY <1>1, <1>3, <1>4, <1>6

LEMMA ReceiveKeeps ==
  ASSUME IInv, NEW a \in Admins, Receive(a)
  PROVE  IInv'
<1>1. PICK r \in replies :
        /\ query[a] # NoQuery /\ r.body \in Nat /\ Truthful(r, a)
        /\ replies' = replies \ {r}
        /\ shown' = IF query[a].type \in Metrics /\ r.code = "OK"
                      THEN [shown EXCEPT ![a][query[a].type] = r.body]
                      ELSE shown
  BY ReceiveEffect
<1>2. /\ query' = [query EXCEPT ![a] = NoQuery]
      /\ UNCHANGED <<metrics, buffer, requests, lost, sockets>>
  BY DEF Receive
<1>3. /\ query' \in [Admins -> Queries \cup {NoQuery}] /\ query'[a] = NoQuery
      /\ \A b \in Admins : b # a => query'[b] = query[b]
  BY <1>2 DEF IInv, TypeOK
<1>4. shown \in [Admins -> [Metrics -> Nat]]
  BY DEF IInv, TypeOK
<1>5. /\ shown' \in [Admins -> [Metrics -> Nat]]
      /\ \A b \in Admins : b # a => shown'[b] = shown[b]
      /\ \A m \in Metrics : shown'[a][m] = IF m = query[a].type /\ r.code = "OK"
                                            THEN r.body ELSE shown[a][m]
  BY <1>1, <1>4
<1>6. TypeOK'
  BY <1>1, <1>2, <1>3, <1>5 DEF IInv, TypeOK, buffer
<1>7. ConcurrentBelow'
  BY <1>2 DEF IInv, ConcurrentBelow
<1>8. ShownBelow'
  <2> SUFFICES ASSUME NEW b \in Admins, NEW m \in Metrics
               PROVE  shown'[b][m] <= metrics[Bound(m)]
    BY <1>2 DEF ShownBelow
  <2>1. shown[b][m] <= metrics[Bound(m)]
    BY DEF IInv, ShownBelow
  <2>2. CASE b # a
    BY <1>5, <2>1, <2>2
  <2>3. CASE b = a
    BY <1>1, <1>5, <2>1, <2>3 DEF Truthful
  <2> QED
    BY <2>2, <2>3
<1>9. OwnRequest'
  BY <1>2, <1>3 DEF IInv, OwnRequest
<1>10. OwnReply'
  <2> SUFFICES ASSUME NEW s \in replies, NEW b \in Admins, NEW n \in 1 .. MaxQueries,
                      s.to = <<b, n>>
               PROVE  /\ n <= sockets[b]
                      /\ n = sockets[b] /\ query'[b] # NoQuery => Truthful(s, b)'
    BY <1>1, <1>2 DEF OwnReply
  <2>1. n <= sockets[b] /\ (n = sockets[b] /\ query[b] # NoQuery => Truthful(s, b))
    BY DEF IInv, OwnReply
  <2>2. CASE b = a
    BY <1>3, <2>1, <2>2
  <2>3. CASE b # a
    <3>1. Truthful(s, b) => Truthful(s, b)'
      BY <1>2, <1>3, <1>5, <2>3 DEF Truthful, buffer
    <3> QED
      BY <1>3, <2>1, <2>3, <3>1
  <2> QED
    BY <2>2, <2>3
<1> QED
  BY <1>6, <1>7, <1>8, <1>9, <1>10 DEF IInv

\* A size the buffer could be given was given to it, or is 0.
LEMMA SizeIsSet ==
  ASSUME IInv, NEW size \in Sizes, setReadBufferSize(size)
  PROVE  /\ resized \subseteq resized' /\ resized' \subseteq Sizes
         /\ BUFFER_SIZE' \in Nat /\ allocated' \in Nat
         /\ SetCode(size) = "OK" => size \in resized' \cup {0}
<1>1. size \in Nat /\ Memory \in Nat
  BY McpAssumption DEF McpAssumption
<1>2. CASE size = 0
  BY <1>2 DEF setReadBufferSize, buffer, IInv, TypeOK
<1>3. CASE size # 0
  <2>1. /\ BUFFER_SIZE' = size
        /\ allocated' = IF size <= Memory THEN size ELSE allocated
        /\ resized' = resized \cup {x \in {size} : x <= Memory}
    BY <1>3 DEF setReadBufferSize
  <2>2. SetCode(size) = "OK" => size <= Memory
    BY <1>1 DEF SetCode
  <2> QED
    BY <1>1, <2>1, <2>2 DEF IInv, TypeOK
<1> QED
  BY <1>2, <1>3

\* The answer to a client's present request is what the client is to be shown.
LEMMA AnswerIsTruthful ==
  ASSUME IInv, NEW a \in Admins, NEW p \in requests, Sent(Code(p)), query[a] = p.query,
         query[a] # NoQuery, UNCHANGED <<metrics, shown, query>>,
         p.query.type = "readbuffer" => setReadBufferSize(p.query.body),
         NEW r, r.code = Code(p), r.body = Body(p)
  PROVE  Truthful(r, a)'
<1>1. p \in Requests
  BY DEF IInv, TypeOK
<1>2. /\ p # Stray /\ p.query.key
      /\ p.query.type = "readbuffer" => Code(p) = SetCode(p.query.body)
  BY <1>1, AnswerType
<1>3. p.query \in Queries
  BY <1>1, <1>2, RequestType
<1>4. CASE p.query.type = "readbuffer"
  <2>1. p.query.body \in Sizes
    BY <1>3, <1>4, QueryType
  <2>2. r.code = "OK" => p.query.body \in resized' \cup {0}
    BY <1>2, <1>4, <2>1, SizeIsSet
  <2>3. query'[a].type \notin Metrics
    BY <1>4 DEF Metrics
  <2> QED
    BY <2>2, <2>3 DEF Truthful
<1>5. CASE p.query.type \in Metrics
  <2> DEFINE m == p.query.type
  <2>1. r.body = metrics[m]
    BY <1>2, <1>5 DEF Body
  <2>2. metrics[m] \in Nat /\ metrics["concurrent"] \in Nat /\ metrics["history"] \in Nat
    BY <1>5, MetricsType DEF IInv, Metrics
  <2>3. metrics[m] <= metrics[Bound(m)]
    BY <1>5, <2>2 DEF IInv, ConcurrentBelow, Bound, Metrics
  <2>4. m \in Growing => metrics[m] >= shown[a][m]
    <3>1. m \in Growing => Bound(m) = m
      BY DEF Growing, Bound
    <3>2. shown[a][m] <= metrics[Bound(m)] /\ shown[a][m] \in Nat
      BY <1>5 DEF IInv, ShownBelow, TypeOK
    <3> QED
      BY <2>2, <3>1, <3>2
  <2>5. m = "history" => metrics[m] >= shown[a]["concurrent"]
    <3>1. shown[a]["concurrent"] <= metrics["history"] /\ shown[a]["concurrent"] \in Nat
      BY DEF IInv, ShownBelow, TypeOK, Bound, Metrics
    <3> QED
      BY <2>2, <3>1
  <2>6. query'[a].type = m /\ m # "readbuffer"
    BY <1>5 DEF Metrics
  <2> HIDE DEF m
  <2> QED
    BY <2>1, <2>3, <2>4, <2>5, <2>6 DEF Truthful
<1> QED
  BY <1>3, <1>4, <1>5, QueryType

LEMMA HandleKeeps ==
  ASSUME IInv, NEW s, HandleMCPRequest(s)
  PROVE  IInv'
<1>1. PICK p \in requests :
        /\ p.from = s
        /\ requests' \in Taken(requests, p)
        /\ replies' = replies \cup
             {r \in {[to |-> s, code |-> Code(p), body |-> Body(p)]} : Sent(r.code)}
        /\ IF p.query.type = "readbuffer" /\ p.query.key
             THEN setReadBufferSize(p.query.body)
             ELSE UNCHANGED buffer
  BY DEF HandleMCPRequest
<1> DEFINE new == [to |-> s, code |-> Code(p), body |-> Body(p)]
<1>2. UNCHANGED <<metrics, lost, sockets, query, shown>>
  BY DEF HandleMCPRequest, client
<1>3. requests' \subseteq requests
  BY <1>1 DEF Taken
<1>4. p \in Requests
  BY DEF IInv, TypeOK
<1>5. \A r \in replies' : r \in replies \/ (r = new /\ Sent(Code(p)))
  BY <1>1
<1>6. Sent(Code(p)) => p # Stray /\ p.query.key /\ p.query \in Queries /\ s \in Socket
  BY <1>1, <1>4, AnswerType, RequestType
<1>7. /\ resized \subseteq resized' /\ resized' \subseteq Sizes
      /\ BUFFER_SIZE' \in Nat /\ allocated' \in Nat
  <2>1. CASE p.query.type = "readbuffer" /\ p.query.key
    <3>1. p # Stray
      BY <2>1 DEF Stray
    <3>2. p.query.body \in Sizes
      BY <1>4, <2>1, <3>1, RequestType, QueryType
    <3> QED
      BY <1>1, <2>1, <3>2, SizeIsSet
  <2>2. CASE UNCHANGED buffer
    BY <2>2 DEF buffer, IInv, TypeOK
  <2> QED
    BY <1>1, <2>1, <2>2
<1>8. Sent(Code(p)) => new \in Replies
  <2> SUFFICES ASSUME Sent(Code(p)) PROVE new \in Replies
    OBVIOUS
  <2>1. Code(p) \in {"OK", "SERVER_ERROR"}
    BY <1>4, AnswerType
  <2>2. Body(p) \in Nat
    BY MetricsType DEF Body, IInv
  <2> QED
    BY <1>6, <2>1, <2>2 DEF Replies
<1>9. TypeOK'
  BY <1>2, <1>3, <1>5, <1>7, <1>8 DEF IInv, TypeOK
<1>10. ConcurrentBelow' /\ ShownBelow'
  BY <1>2 DEF IInv, ConcurrentBelow, ShownBelow
<1>11. OwnRequest'
  BY <1>2, <1>3 DEF IInv, OwnRequest
<1>12. OwnReply'
  <2> SUFFICES ASSUME NEW r \in replies', NEW a \in Admins, NEW n \in 1 .. MaxQueries,
                      r.to = <<a, n>>
               PROVE  /\ n <= sockets[a]
                      /\ n = sockets[a] /\ query[a] # NoQuery => Truthful(r, a)'
    BY <1>2 DEF OwnReply
  <2>1. CASE r \in replies
    <3>1. n <= sockets[a] /\ (n = sockets[a] /\ query[a] # NoQuery => Truthful(r, a))
      BY <2>1 DEF IInv, OwnReply
    <3>2. Truthful(r, a) => Truthful(r, a)'
      BY <1>2, <1>7 DEF Truthful
    <3> QED
      BY <3>1, <3>2
  <2>2. CASE r = new /\ Sent(Code(p))
    <3>1. p.from = <<a, n>> /\ r.code = Code(p) /\ r.body = Body(p)
      BY <1>1, <2>2
    <3>2. /\ n <= sockets[a]
          /\ n = sockets[a] /\ query[a] # NoQuery => p.query = query[a]
      BY <3>1 DEF IInv, OwnRequest
    <3>3. p.query.type = "readbuffer" => setReadBufferSize(p.query.body)
      BY <1>1, <1>6, <2>2
    <3>4. n = sockets[a] /\ query[a] # NoQuery => Truthful(r, a)'
      BY <1>2, <2>2, <3>1, <3>2, <3>3, AnswerIsTruthful
    <3> QED
      BY <3>2, <3>4
  <2> QED
    BY <1>5, <2>1, <2>2
<1> QED
  BY <1>9, <1>10, <1>11, <1>12 DEF IInv

LEMMA NextKeeps == IInv /\ [Next]_vars => IInv'
<1> SUFFICES ASSUME IInv, [Next]_vars PROVE IInv'
  OBVIOUS
<1>1. CASE Accept \/ End \/ SendBytes
  BY <1>1, MetricsKeep
<1>2. CASE Lose \/ SendStray
  BY <1>2, LoseKeeps, SendStrayKeeps
<1>3. CASE \E a \in Admins : Ask(a) \/ Receive(a) \/ Interrupt(a)
  BY <1>3, AskKeeps, ReceiveKeeps, InterruptKeeps
<1>4. CASE \E s \in Socket \cup {Stray.from} : HandleMCPRequest(s)
  BY <1>4, HandleKeeps
<1>5. CASE UNCHANGED vars
  <2> USE <1>5 DEF vars, buffer, net, client, IInv
  <2>1. TypeOK' /\ ConcurrentBelow' /\ ShownBelow'
    BY DEF TypeOK, ConcurrentBelow, ShownBelow
  <2>2. OwnRequest' /\ OwnReply'
    BY DEF OwnRequest, OwnReply, Truthful
  <2> QED
    BY <2>1, <2>2
<1> QED
  BY <1>1, <1>2, <1>3, <1>4, <1>5 DEF Next

LEMMA Invariance == Spec => []IInv
<1>1. Init => IInv
  BY InitInv
<1>2. IInv /\ [Next]_vars => IInv'
  BY NextKeeps
<1> QED
  BY <1>1, <1>2, PTL DEF Spec

-----------------------------------------------------------------------------
(* What the management protocol promises *)

\* No counter of metrics.c goes below 0 (substractMetric has its guard), no answer
\* carries another code than the two that are sent, and only sizes that were asked
\* for reach the buffer.
THEOREM TypesHold == Spec => []TypeOK
<1>1. IInv => TypeOK
  BY DEF IInv
<1> QED
  BY <1>1, Invariance, PTL

\* Whatever the network loses, repeats or delays and whoever else asks, the client
\* that prints that the buffer was changed (client/mcpUtils.c) asked for 0 or for a
\* size setReadBufferSize has given to the buffer.
THEOREM SuccessIsAChange == Spec => []SuccessMeansChanged
<1>1. IInv => SuccessMeansChanged
  <2> SUFFICES ASSUME IInv, NEW a \in Admins, NEW r \in replies, Answers(r, a),
                      query[a].type = "readbuffer", r.code = "OK"
               PROVE  query[a].body \in resized \cup {0}
    BY DEF SuccessMeansChanged
  <2>1. r.to = <<a, sockets[a]>> /\ query[a] # NoQuery /\ r \in Replies
    BY DEF Answers, IInv, TypeOK
  <2>2. sockets[a] \in 1 .. MaxQueries
    BY <2>1 DEF Replies, Socket
  <2>3. Truthful(r, a)
    BY <2>1, <2>2 DEF IInv, OwnReply
  <2> QED
    BY <2>3 DEF Truthful
<1> QED
  BY <1>1, Invariance, PTL

\* No answer of the proxy, late or repeated, is taken for the one to a later query
\* (sendAndReceiveQuery opens a socket for each): what an administrator is told of
\* "history" and "bytes" never goes back.
THEOREM AnswersGoForward == Spec => NeverBackwards
<1> DEFINE Forward ==
      \A a \in Admins :
        LET now == shown'[a]  before == shown[a]
        IN  /\ now["history"] >= before["history"]
            /\ now["bytes"] >= before["bytes"]
            /\ now["history"] # before["history"] =>
                 now["history"] >= before["concurrent"]
<1>1. IInv /\ [Next]_vars => [Forward]_vars
  <2> SUFFICES ASSUME IInv, [Next]_vars, NEW b \in Admins
               PROVE  /\ shown'[b]["history"] >= shown[b]["history"]
                      /\ shown'[b]["bytes"] >= shown[b]["bytes"]
                      /\ shown'[b]["history"] # shown[b]["history"] =>
                           shown'[b]["history"] >= shown[b]["concurrent"]
    OBVIOUS
  <2>1. shown \in [Admins -> [Metrics -> Nat]] /\ shown[b]["history"] \in Nat
        /\ shown[b]["bytes"] \in Nat
    BY DEF IInv, TypeOK, Metrics
  <2>2. CASE shown' = shown
    BY <2>1, <2>2
  <2>3. CASE \E a \in Admins : Receive(a)
    <3>1. PICK a \in Admins : Receive(a)
      BY <2>3
    <3>2. PICK r \in replies :
            /\ query[a] # NoQuery /\ r.body \in Nat /\ Truthful(r, a)
            /\ shown' = IF query[a].type \in Metrics /\ r.code = "OK"
                          THEN [shown EXCEPT ![a][query[a].type] = r.body]
                          ELSE shown
      BY <3>1, ReceiveEffect
    <3>3. CASE query[a].type \in Metrics /\ r.code = "OK" /\ a = b
      <4> DEFINE m == query[a].type
      <4>1. \A x \in Metrics : shown'[b][x] = IF x = m THEN r.body ELSE shown[b][x]
        BY <2>1, <3>2, <3>3
      <4>2. /\ m \in Growing => r.body >= shown[b][m]
            /\ m = "history" => r.body >= shown[b]["concurrent"]
        BY <3>2, <3>3 DEF Truthful
      <4> HIDE DEF m
      <4> QED
        BY <2>1, <4>1, <4>2 DEF Growing, Metrics
    <3>4. CASE ~(query[a].type \in Metrics /\ r.code = "OK" /\ a = b)
      <4>1. shown'[b] = shown[b]
        BY <2>1, <3>2, <3>4
      <4> QED
        BY <2>1, <4>1
    <3> QED
      BY <3>3, <3>4
  <2> QED
    BY <2>2, <2>3 DEF Next, Accept, End, SendBytes, Lose, SendStray, Ask, Interrupt,
                      HandleMCPRequest, client, vars
<1> QED
  BY <1>1, Invariance, PTL DEF Spec, NeverBackwards
=============================================================================
