--------------------------------- MODULE Doh ---------------------------------
(***************************************************************************)
(* How one connection finds its server: checkIfIp and setupRemoteSocket6   *)
(* (proxyUtils.c), and the two queries to the DoH server (doh.c) with the  *)
(* DNS messages octet by octet, because what can go wrong is where a field *)
(* begins.  Proxy has the same steps without the messages, among other     *)
(* connections.  Octets are numbers; positions in a message count from 0.  *)
(***************************************************************************)
EXTENDS Integers, Sequences, SequencesExt, FiniteSets

CONSTANTS
  Hosts,       \* what requests ask for (see Host)
  Zones,       \* what the DoH server may know of a name (see Zone)
  Parts,       \* bound of the model: how much a partial send() takes
  Cuts,        \* bound of the model: where an answer may be cut short
  MaxFailures, \* bound of the model: how often send() fails
  ProxyPort,   \* the port of the proxy
  OwnAddresses \* proxyAddress, proxyAddress6, 127.0.0.1 and ::, which is what
               \* inet_pton(AF_INET6, "127.0.0.1") leaves

Octet == 0 .. 255
V4 == 4    \* sizeof(struct in_addr)
V6 == 16   \* sizeof(struct in6_addr)
A == 1     \* query types
AAAA == 28
Dot == 46

\* The host of a request: a literal address or the labels of a name, and the
\* port that follows it, or 0.
Host ==
  [literal: {<<>>} \cup [1 .. V4 -> Octet] \cup [1 .. V6 -> Octet],
   labels: Seq(Seq(Octet)), port: Nat]

\* A name that can be asked for: it has labels, none of them empty.
IsName(labels) ==
  labels # <<>> /\ \A k \in DOMAIN labels : Len(labels[k]) \in 1 .. 63 /\ Dot \notin ToSet(labels[k])

\* How a record names its owner: by a pointer, or in full if that fits the 24
\* characters of getAnswerSectionName.
IsOwner(name) ==
  \/ Len(name) = 2 /\ name[1] >= 192
  \/ /\ Len(name) \in 2 .. 25 /\ name[1] < 192
     /\ \A k \in DOMAIN name : name[k] = 0 <=> k = Len(name)

\* The records of a name for each type of query, and the code of the answer.
Zone ==
  [{A, AAAA} -> [rcode: 0 .. 15,
                 records: Seq([name: Seq(Octet), type: Nat, data: Seq(Octet)])]]

\* A number that two octets hold.
IsWord(k) == k < 65536

\* The octets of an address of type t.
Size(t) == IF t = A THEN V4 ELSE V6

\* A record of an answer to a query for type t: fields of two octets, as RFC 1035
\* has them, and no address but those that are asked for.
IsRecord(r, t) ==
  /\ IsOwner(r.name)
  /\ IsWord(r.type) /\ IsWord(Len(r.data))
  /\ r.type \in {A, AAAA} => r.type = t /\ Len(r.data) = Size(t)

InZone(z) ==
  \A t \in {A, AAAA} :
    /\ IsWord(Len(z[t].records))
    /\ \A k \in DOMAIN z[t].records : IsRecord(z[t].records[k], t)

ASSUME DohAssumption ==
  /\ Hosts \subseteq Host
  /\ \A h \in Hosts : h.literal = <<>> => IsName(h.labels)
  /\ Zones \subseteq Zone
  /\ \A z \in Zones : InZone(z)
  /\ Parts \subseteq Nat /\ Cuts \subseteq Nat /\ MaxFailures \in Nat

VARIABLES
  host, zone,
  down,          \* addresses that accept no connection
  healthy,       \* the DoH server accepts connections and ends its answers, and
                 \* send() does not fail
  pc,            \* what the connection waits for
  familyFlag, doh_query, pendingBytes, sentBytes, sin_port,   \* dohContext
  address, address6,                                          \* dohContext
  failures,      \* how often send() failed
  received,      \* what the DoH server has of the query
  reply,         \* what it answers and was not read
  message,       \* doh_request.message
  at, ancount,   \* in message: the next record, and how many are left
  tried,         \* the addresses connect() failed for
  server         \* the address server_socket is connected to

world   == <<host, zone, down, healthy>>
query   == <<doh_query, pendingBytes, sentBytes, sin_port, failures>>
found   == <<address, address6>>
wire    == <<received, reply>>
parsing == <<message, at, ancount>>
outcome == <<tried, server>>
vars    == <<world, pc, familyFlag, query, found, wire, parsing, outcome>>

Word(k) == <<k \div 256, k % 256>>

-----------------------------------------------------------------------------
(* The query *)

\* The host as the parser read it.
Text(labels) ==
  FlattenSeq([i \in 1 .. Len(labels) |->
                IF i = 1 THEN labels[i] ELSE <<Dot>> \o labels[i]])

\* How many octets there are from position p of text to the next dot or the end.
LabelLength(text, p) ==
  Cardinality({q \in p .. Len(text) : \A r \in p .. q : text[r] # Dot})

\* parseQuestionFormat: a length takes the place of each dot, and of a dot
\* before the first label, and a zero ends the name.
Question(text) ==
  LET dotted == <<Dot>> \o text
  IN  [p \in 1 .. Len(dotted) |->
         IF dotted[p] = Dot THEN LabelLength(dotted, p + 1) ELSE dotted[p]]
        \o <<0>>

QType(flag) == IF flag = 0 THEN A ELSE AAAA

\* ctx->querySize: the question with its type and class.
QuerySize == Len(Question(Text(host.labels))) + 4

\* makeDNSStructure, without the CRLF that prepareQuery leaves out.
DNSStructure ==
  <<0, 0, 3, 0, 0, 1, 0, 0, 0, 0, 0, 0>>
    \o Question(Text(host.labels)) \o Word(QType(familyFlag)) \o Word(1)

\* prepareQuery: of the HTTP header only Content-Length counts here.
Query == <<Len(DNSStructure)>> \o DNSStructure

-----------------------------------------------------------------------------
(* The DoH server *)

\* A name as RFC 1035 has it.
WireName(labels) ==
  FlattenSeq([i \in 1 .. Len(labels) |-> <<Len(labels[i])>> \o labels[i]])
    \o <<0>>

Encoded(r) ==
  r.name \o Word(r.type) \o Word(1) \o <<0, 0, 0, 60>>
    \o Word(Len(r.data)) \o r.data

\* What it answers to a query: the records of its question, or format error.
Answer(q) ==
  LET question == SubSeq(q, 14, Len(q))
      Asks(t) == question = WireName(host.labels) \o Word(t) \o Word(1)
      Header(rcode, count) ==
        <<0, 0, 131, rcode>> \o Word(1) \o Word(count) \o <<0, 0, 0, 0>>
  IN  IF \E t \in {A, AAAA} : Asks(t)
        THEN LET t == CHOOSE t \in {A, AAAA} : Asks(t)
                 records == zone[t].records
             IN  Header(zone[t].rcode, Len(records)) \o question
                   \o FlattenSeq([k \in DOMAIN records |-> Encoded(records[k])])
        ELSE Header(1, 0)

\* The addresses a host has, in order: itself, or those of its name.
Listed(t) ==
  IF host.literal # <<>>
    THEN IF Len(host.literal) = Size(t) THEN <<host.literal>> ELSE <<>>
  ELSE IF zone[t].rcode # 0 THEN <<>>
  ELSE LET records == zone[t].records
       IN  FlattenSeq([k \in DOMAIN records |->
                         IF records[k].type = t THEN <<records[k].data>> ELSE <<>>])

-----------------------------------------------------------------------------
(* The answer: makeResponseStructure and parseAnswerFormat.                  *)

\* The octet at position i.  After the end of the message there are zeros as far
\* as the 1024 octets that bufferInit clears; a longer answer has after its
\* end what the allocator left there, and nothing after the buffer.
At(m, i) == IF i < Len(m) THEN m[i + 1] ELSE 0
WordAt(m, i) == 256 * At(m, i) + At(m, i + 1)

\* A query, an error code, or not one question.
Refused(m) == At(m, 2) < 128 \/ At(m, 3) % 16 # 0 \/ WordAt(m, 4) # 1

\* The octets of the name at position i: a pointer, nothing for a zero
\* (getAnswerSectionName), or all up to its zero.
NameLength(m, i) ==
  IF At(m, i) >= 192 THEN 2
  ELSE IF At(m, i) = 0 THEN 0
  ELSE 1 + Cardinality({j \in i .. Len(m) : \A k \in i .. j : At(m, k) # 0})

\* Mutant: the last octet is counted twice.
AddressesAtLong(m, i, rdlength, size) ==
  [k \in 1 .. rdlength \div size |->
     [n \in 1 .. size + 1 |-> At(m, i + (k - 1) * size + n - 1)]]

\* The addresses of `size` octets in rdlength octets from position i, whether
\* the message has them or not.
AddressesAt(m, i, rdlength, size) ==
  [k \in 1 .. rdlength \div size |->
     [n \in 1 .. size |-> At(m, i + (k - 1) * size + n - 1)]]

-----------------------------------------------------------------------------
Init ==
  /\ host \in Hosts
  /\ zone \in Zones
  /\ down \in SUBSET (ToSet(Listed(A)) \cup ToSet(Listed(AAAA)))
  /\ healthy \in BOOLEAN
  /\ pc = "start"
  /\ familyFlag = 0
  /\ doh_query = <<>>
  /\ pendingBytes = 0
  /\ sentBytes = 0
  /\ sin_port = 0
  /\ failures = 0
  /\ address = <<>>
  /\ address6 = <<>>
  /\ received = <<>>
  /\ reply = <<>>
  /\ message = <<>>
  /\ at = 0
  /\ ancount = 0
  /\ tried = <<>>
  /\ server = <<>>

Port == IF host.port = 0 THEN 80 ELSE host.port

\* checkIfIp: the host is an address, which is the only one to be tried.
HostIsAddress ==
  /\ pc = "start"
  /\ host.literal # <<>>
  /\ address' = IF Len(host.literal) = V4 THEN <<host.literal>> ELSE <<>>
  /\ address6' = IF Len(host.literal) = V6 THEN <<host.literal>> ELSE <<>>
  /\ sin_port' = Port
  /\ pc' = "connect"
  /\ UNCHANGED <<world, familyFlag, doh_query, pendingBytes, sentBytes, failures,
                 wire, parsing, outcome>>

\* The host is a name; the DoH server takes the connection or not.
HostIsName ==
  /\ pc = "start"
  /\ host.literal = <<>>
  /\ pc' \in {"query"} \cup {p \in {"error"} : ~healthy}
  /\ UNCHANGED <<world, familyFlag, query, found, wire, parsing, outcome>>

StartsQuery == doh_query = <<>>

\* resetDoH: no query, and an empty message for the next answer.
resetDoH ==
  /\ doh_query' = <<>>
  /\ sentBytes' = 0
  /\ message' = <<>>

\* The query is prepared once.
Prepared == IF StartsQuery THEN Query ELSE doh_query
Pending  == IF StartsQuery THEN Len(Query) ELSE pendingBytes

\* The k octets that send() reads from position i of the query; before its start
\* is the last octet of the length the allocator keeps there.
Sent(text, i, k) == [p \in 1 .. k |-> IF i + p > 0 THEN text[i + p] ELSE 0]

\* makeRequest, sendRequest: send() takes k octets of what is left.
MakeRequest ==
  /\ pc = "query"
  /\ \E k \in {Pending} \cup {p \in Parts : p < Pending}, text \in {Prepared} :
       /\ received' = received \o Sent(text, sentBytes, k)
       /\ pendingBytes' = Pending - k
       /\ pc' = IF k = Pending THEN "answer" ELSE "query"
       /\ IF k = Pending /\ familyFlag = 0
            THEN resetDoH
            ELSE /\ doh_query' = text
                 /\ sentBytes' = sentBytes + k
                 /\ UNCHANGED message
  /\ sin_port' = IF StartsQuery THEN Port ELSE sin_port
  /\ UNCHANGED <<world, familyFlag, failures, found, reply, at, ancount, outcome>>

\* send() returns -1 and the counters move by it: one octet more is pending, and
\* the next send() starts one octet earlier.
SendFails ==
  /\ pc = "query"
  /\ ~healthy
  /\ failures < MaxFailures
  /\ failures' = failures + 1
  /\ doh_query' = Prepared
  /\ sentBytes' = sentBytes - 1
  /\ pendingBytes' = Pending + 1
  /\ sin_port' = IF StartsQuery THEN Port ELSE sin_port
  /\ UNCHANGED <<world, pc, familyFlag, found, wire, parsing, outcome>>

\* The DoH server has as many octets as Content-Length says, answers and
\* closes, or closes before it has sent all of its answer.
ServerAnswers ==
  /\ pc = "answer"
  /\ received # <<>>
  /\ Len(received) > received[1]
  /\ LET answer == Answer(received)
         cuts   == {c \in Cuts : ~healthy /\ c < Len(answer)}
     IN  reply' \in {answer} \cup {SubSeq(answer, 1, c) : c \in cuts}
  /\ received' = <<>>
  /\ UNCHANGED <<world, pc, familyFlag, query, found, parsing, outcome>>

\* The body of the answer is read; how it is split is the parser's matter.
ReadResponse ==
  /\ pc = "answer"
  /\ reply # <<>>
  /\ message' = message \o reply
  /\ reply' = <<>>
  /\ UNCHANGED <<world, pc, familyFlag, query, found, received, at, ancount,
                 outcome>>

AnswerEnded == pc = "answer" /\ received = <<>> /\ reply = <<>>

\* makeResponseStructure: the records begin after the header and the question.
AnswerAccepted ==
  /\ AnswerEnded
  /\ ~Refused(message)
  /\ pc' = "records"
  /\ at' = 12 + QuerySize
  /\ ancount' = WordAt(message, 6)
  /\ UNCHANGED <<world, familyFlag, query, found, wire, message, outcome>>

\* Mutant: only the data of addresses is skipped.
RecordLengthOfAddress(i) ==
  10 + (IF WordAt(message, i) \in {A, AAAA} THEN WordAt(message, i + 8) ELSE 0)

\* The octets of a record from its type, at i, to its end.
RecordLength(i) == 10 + WordAt(message, i + 8)

\* parseAnswerFormat: the addresses of a record are added to their family.
ParseRecord ==
  /\ pc = "records"
  /\ ancount > 0
  /\ ancount' = ancount - 1
  /\ LET i == at + NameLength(message, at)
         New(t, size) ==
           IF WordAt(message, i) = t
             THEN AddressesAt(message, i + 10, WordAt(message, i + 8), size)
             ELSE <<>>
     IN  /\ address' = address \o New(A, V4)
         /\ address6' = address6 \o New(AAAA, V6)
         /\ at' = i + RecordLength(i)
  /\ UNCHANGED <<world, pc, familyFlag, query, wire, message, outcome>>

AnswerFailed == AnswerEnded /\ Refused(message)
AnswerParsed == pc = "records" /\ ancount = 0

\* After the A query, whatever its answer, comes the AAAA query.  When
\* connectToDoH fails here nobody looks at its -1: the request is lost.  (No
\* select() reports descriptor -1, unless it looks at bit 63 for another
\* connection, which is in Proxy; send() and read() would fail.)
SwitchFamily ==
  /\ AnswerFailed \/ AnswerParsed
  /\ familyFlag = 0
  /\ familyFlag' = 1
  /\ resetDoH
  /\ pc' \in {"query"} \cup {p \in {"lost"} : ~healthy}
  /\ UNCHANGED <<world, pendingBytes, sin_port, failures, found, wire, at, ancount,
                 outcome>>

\* After the AAAA query: an error, even when the A query gave addresses, or
\* the addresses of both.
LookupDone ==
  /\ familyFlag = 1
  /\ \/ AnswerFailed /\ pc' = "error"
     \/ AnswerParsed /\ pc' = "connect"
  /\ UNCHANGED <<world, familyFlag, query, found, wire, parsing, outcome>>

-----------------------------------------------------------------------------
(* setupRemoteSocket6 *)

\* Mutant: the addresses of the A query come first.
CandidatesA == address \o address6

\* The addresses in the order of the two loops.
Candidates == address6 \o address

\* The address to be tried now.
Candidate == Candidates[Len(tried) + 1]

Trying == pc = "connect" /\ Len(tried) < Len(Candidates)

IsOwn(a) == a \in OwnAddresses /\ sin_port = ProxyPort

\* The address is the proxy's own: nothing else is tried.
Recursive ==
  /\ Trying
  /\ IsOwn(Candidate)
  /\ pc' = "error"
  /\ UNCHANGED <<world, familyFlag, query, found, wire, parsing, outcome>>

ConnectFails ==
  /\ Trying
  /\ ~IsOwn(Candidate)
  /\ Candidate \in down
  /\ tried' = Append(tried, Candidate)
  /\ UNCHANGED <<world, pc, familyFlag, query, found, wire, parsing, server>>

Connects ==
  /\ Trying
  /\ ~IsOwn(Candidate)
  /\ Candidate \notin down
  /\ server' = Candidate
  /\ pc' = "connected"
  /\ UNCHANGED <<world, familyFlag, query, found, wire, parsing, tried>>

\* Mutant: one address more is waited for.
NoCandidatesLate ==
  /\ pc = "connect"
  /\ Len(tried) > Len(Candidates)
  /\ pc' = "error"
  /\ UNCHANGED <<world, familyFlag, query, found, wire, parsing, outcome>>

\* No address is left.
NoCandidates ==
  /\ pc = "connect"
  /\ Len(tried) = Len(Candidates)
  /\ pc' = "error"
  /\ UNCHANGED <<world, familyFlag, query, found, wire, parsing, outcome>>

Next ==
  \/ HostIsAddress \/ HostIsName
  \/ MakeRequest \/ SendFails \/ ServerAnswers \/ ReadResponse
  \/ AnswerAccepted \/ ParseRecord \/ SwitchFamily \/ LookupDone
  \/ Recursive \/ ConnectFails \/ Connects \/ NoCandidates

Spec == Init /\ [][Next]_vars

\* The DoH socket is reported as long as it is watched, and the DoH server
\* answers what it has received.
FairSpec == Spec /\ WF_vars(Next)

-----------------------------------------------------------------------------
(* Properties *)

\* Every variable holds a value of its type.
TypeOK ==
  /\ host \in Hosts /\ zone \in Zones
  /\ healthy \in BOOLEAN
  /\ pc \in {"start", "query", "answer", "records", "connect", "connected", "error",
             "lost"}
  /\ familyFlag \in {0, 1}
  /\ {pendingBytes, sin_port, at, ancount} \subseteq Nat
  /\ sentBytes \in Int /\ failures \in 0 .. MaxFailures
  /\ doh_query \in Seq(Nat) /\ received \in Seq(Nat)
  /\ reply \in Seq(Octet) /\ message \in Seq(Octet)
  /\ address \in Seq([1 .. V4 -> Octet]) /\ address6 \in Seq([1 .. V6 -> Octet])
  /\ Len(tried) <= Len(Candidates)

\* An address of which n octets came.
CutAt(a, n) == [m \in DOMAIN a |-> IF m <= n THEN a[m] ELSE 0]

\* What may have been found of the addresses l when their answer was cut short:
\* the first ones, with zeros at the end of the last.
StartOf(got, l) ==
  /\ Len(got) <= Len(l)
  /\ \A k \in DOMAIN got :
       /\ k < Len(got) => got[k] = l[k]
       /\ \E n \in 0 .. Len(l[k]) : got[k] = CutAt(l[k], n)

Reliable == healthy \/ host.literal # <<>>

\* The addresses to be tried are those the DoH server has for the host, each
\* once and none of another record, whatever the parts the queries are sent in,
\* the names of the records and the records between them.  An answer that is cut
\* short, or that a failed send() spoiled the query of, takes addresses away; the
\* only one it changes is the last.
AddressesAreTheHosts ==
  pc \in {"connect", "connected"} =>
    IF Reliable THEN address6 = Listed(AAAA) /\ address = Listed(A)
    ELSE StartOf(address6, Listed(AAAA)) /\ StartOf(address, Listed(A))

\* A name whose AAAA query fails has no addresses, whatever those of its A query.
Preferred ==
  IF host.literal = <<>> /\ zone[AAAA].rcode # 0 THEN <<>>
  ELSE Listed(AAAA) \o Listed(A)

LookUp ==
  INSTANCE Lookup WITH
    listed <- Preferred,
    own <- {a \in ToSet(Preferred) : a \in OwnAddresses /\ Port = ProxyPort},
    down <- down \cap ToSet(Preferred),
    reliable <- Reliable,
    status <- IF pc \in {"connected", "error"} THEN pc ELSE "pending"

\* All of that is a look-up: the first address of the host that accepts the
\* connection, IPv6 before IPv4, whatever parts and addresses failed before it;
\* an error when none does or the proxy itself comes first; one of its addresses,
\* if perhaps cut short, when the DoH server or the way to it fails.
ImplementsLookup == LookUp!Spec

\* Every request gets a server or an error, whatever parts its queries are sent
\* in and wherever its answers are cut, with one exception: if the DoH server
\* takes the connection for the A query and none for the AAAA query, the request
\* waits for ever (proxyHandlerHelper.c:251, whose result nobody looks at).
LookupEnds == <>(pc \in {"connected", "error"} \/ (pc = "lost" /\ ~Reliable))
=============================================================================
