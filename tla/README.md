# A verification project for the HTTP proxy

TLA+ modules that model the proxy in this repository, TLC configurations that
check them on small instances, and proofs checked by TLAPS. Paths are relative
to the root of the repository (`src/` in `PROJECT.json`).

## 1. The system

The proxy is one process with one thread. `setupServer` (`proxyClient.c`) opens
two passive TCP sockets and a UDP socket for management, and then loops on
`select()`: it accepts at most one connection per passive socket, handles one
management datagram, and visits every entry of a table of 512 connections. An
entry is served by the handler its flags select. Nothing runs in parallel, so
everything hard comes from the order in which descriptors become ready, from
what each system call answers (all, a part, nothing, an error), and from the
interest sets, which every handler edits and which alone decide whether an entry
will be visited with something to do.

| component | state | operations | what makes it correct |
|---|---|---|---|
| event loop (`proxyClient.c`) | `currentfds`, `current_write_fds`, `maxSocket`, ready sets, table | `select`, accept, dispatch | `select` looks at every watched descriptor and at no closed one; no stall, no busy waiting |
| handlers (`proxyHandlerHelper.c`) | flags and sockets of an entry | read request, resolve, inform, relay, final message, `closeAll` | an entry owns its sockets alone, follows one life cycle, and ends |
| sockets of a connection (`proxyUtils.c`) | buffers, counts of bytes sent | accept, connect, `simpleRead`, `handleWrite`, `informConnection`, `sendFinalMessage` | partial sends lose and repeat nothing |
| DoH client (`doh.c`) | query, counters, addresses | connect, send a query, parse an answer | A and AAAA queries in turn, then connect or give up |
| management (`mcpUtils.c`, `client/`) | metrics, size of the read buffer | three readings, one setting, over UDP | answers belong to requests; a success is a change |
| metrics (`metrics.c`) | three counters | add, subtract, get | the counters are what they are called |
| buffers (`parsers/bufferUtils.c`) | `from`, `len`, bytes | append, delete the start, reset | order and bounds |
| matchers and HTTP parser (`parsers/`) | state of five automata, matchers, host, method, message to forward | one byte at a time | the automata agree on lines; the host is known once and whole, and is the one the request names (not for CONNECT); what is forwarded is what came |
| password sniffing (`saveAuthorization`, `base64Decoder.c`) | two 8-bit counters, for one call | find the token of a header, decode it | credentials come out as they went in; it ends |
| arguments, logger, error pages, hashes | none that lasts | | |

Interactions: the loop calls the handlers with the four descriptor sets and
`maxSocket`; handlers call the sockets, the DoH client and the parser; all of
them change the shared interest sets and the metrics; the management protocol
reads the metrics and changes the buffer the loop reads into.

Hard behaviours: two connections that open and close descriptors in the same
turn; a descriptor number used again; read and write events of the two sockets
of a connection in one visit; a peer that closes early, half way or never;
partial sends; a DoH server that fails between the two queries; a full table;
lost, repeated and stray datagrams; an answer cut in the middle of a field; a
`send()` that fails. `PROJECT.json` lists them as hazards, each at its
line, with the property that watches it or the reason why none does.

## 2. Modules

| module | what it is |
|---|---|
| `Proxy` | the loop, the table, the descriptors of the process, the interest sets and every handler |
| `ProxyProperties` | type invariant, safety, refinement, fairness and liveness of `Proxy` |
| `Lifecycle` | abstract: what the life of a connection is, without descriptors |
| `MCProxy` | `Proxy` with two bounds for TLC |
| `ProxyProofs` | theorems about `Proxy`: types, ownership, the count of connections, the interest sets, the life cycle |
| `Doh` | how one connection finds its server: the two DNS queries octet by octet, the addresses, `connect()` |
| `Lookup` | abstract: from the addresses of a host to a server or an error, in one step |
| `MCDoh` | hosts and zones for TLC |
| `DohProofs` | theorems about `Doh`: types, the addresses, the refinement of `Lookup` |
| `Tunnel` | the relay of one connection with the bytes it carries |
| `Relay` | abstract: bytes in order and once between two ends |
| `TunnelProofs` | theorems about `Tunnel` |
| `Buffer` | `bufferUtils.c` |
| `Queue` | abstract: what a buffer is for its callers |
| `MCBuffer`, `BufferProofs` | writes for TLC; theorems about `Buffer` |
| `Mcp` | the management protocol over UDP, its clients and the metrics |
| `McpProofs` | theorems about `Mcp` |
| `HttpParser` | the automata, matchers and handlers of `parsers/`, fed by reads of any size |
| `HttpParserProperties` | what the parser must make of a message, against a reference on whole lines |
| `Request` | abstract: what the rest of the proxy takes for granted of the parser |
| `CharClasses` | the classes of bytes the tables name (`char_classes.c`) |
| `MCHttpParser`, `HttpParserProofs` | start lines and pieces for TLC; theorems about `HttpParser` |
| `Base64` | `base64_decode`, and the encoding it must undo |
| `Authorization` | `saveAuthorization`: the scan of an Authorization header with its 8-bit counters |
| `MCAuthorization`, `AuthorizationProofs` | headers for TLC; theorems about `Base64` and `Authorization` |
| `SequenceLemmas` | what the proofs about `Base64` and `Doh` need of numbers and of `FlattenSeq`, and induction |

### Proxy

State is named as in the code: `connections` is `HTTP_connections[]` with the
fields of `struct HTTP_connection` the control depends on, `currentfds`,
`current_write_fds`, `readfds`, `writefds` and `maxSocket` are the variables of
`setupServer`, `concurrent` is `metrics[CONCURRENT_CONNECTIONS]`. `sockets` is
the kernel's side: which descriptor is open, and for what. `pc` and `n` say
where the loop is: `select`, `accept` (passive socket `n`), `serve` (first half
of the visit of entry `n`) and `proceed` (second half, for an entry whose
request was just read).

Every handler is one action, or one per branch of its code, and makes all the
changes of that branch. The visit of an entry whose request is being read is two
actions because the code is two calls: `handleReadHttpFromUser`, and then
`DoHHandlingZone`, `handleInformConnection` or the step to `stay_connected`,
chosen by what the first one left. `handleStayConnected` makes four transfers in
order; `Transfer` composes them from what each system call answered.

Descriptor numbers matter and are modelled: the kernel gives the lowest closed
one, -1 is what a failed `connectToDoH` leaves in `doh_socket`, and `FD_SET(-1)`
touches the bit `WildFd` (on x86-64 glibc, bit 63 of the word it computes, which
may be a descriptor in use in a busy process). A descriptor that is closed and
watched makes `select()` fail, after which the loop spins: `SelectFails`.

Bytes are abstracted to "some are pending": what a read brings to the parser is
whether the host (an address or a name) and the method are now known, or an
error. Descriptors are numbered from 1 and the three sockets opened at start-up
are left out: they are open and watched for ever.

### Doh and Lookup

The steps of `DoHHandlingZone` that `Proxy` has as `ConnectDirect`, `StartDoH`,
`QuerySent`, `SwitchFamily` and `AnswerReachesServer`, for one connection and
with the messages: `dohContext` (`query`, `found`), the body of the answer
(`message`), and the DoH server (`received`, `reply`), which knows the records of
the host (`zone`), answers what it is asked or, when it is not `healthy`, closes
without an answer. Octets and positions are those of the code because the
positions are what the code computes: where the question ends, how long the name
and the data of each record are. The loop over the records is an action per
record, and `setupRemoteSocket6` one per address. What `connect()` answers is
fixed by `down`.

Not `healthy` stands for all that goes wrong on the way: the DoH server answers
nothing or only the first octets of its answer (`Cuts`), and `send()` may return
-1 (`SendFails`), which the code adds to its counters: the next `send()` begins
one octet too early. `connectToDoH` may fail between the two queries (`SwitchFamily`):
then nothing is ever sent again, and the look-up has no end (`lost`).

`At` reads a message past its end as zeros. That is what the buffer has in its
first 1024 octets, which are cleared when it is made and again by a reset
(`HTTP_parser.c:18`, `HTTP_parser.c:608`), and the answers of the run are much
shorter. A message beyond them has after its end what the allocator left (`Junk`
in `Buffer`), and a read beyond the buffer is undefined: what is said of answers
cut short is said of those that end within the 1024 octets.

`Lookup` is what a connection gets out of this. When everything is whole, the
first of the host's addresses that accepts (IPv6 before IPv4), or an error when
none does or the proxy itself comes first; otherwise an error, or an address of
the host of which the end may be zeros. `Doh` is shown to implement it. The split of
the answer into reads, and the HTTP header around it, belong to the parser.

### Buffer and Queue

The cells of a buffer with `len` and `from`; `realloc` leaves `Junk` in the cells
it adds, `memset` writes `Zero`. `Ideal` maps the cells before `from` to the
abstract queue. `Tunnel` uses that queue in place of the buffers of the two
messages, which `BufferIsQueue` justifies.

### Tunnel and Relay

One connection in `handleStayConnected`: the two message buffers as sequences of
bytes (1, 2, 3 ... as each end writes them), `simpleRead` with a size, `send()`
that takes any positive part, and ends that write and stop at any moment, between
any two calls of the handler (`pc` is the place in the handler). `Init` is what
`Proxy` hands over, for a CONNECT and for a plain request. A CONNECT client need
not wait for its 200: what it sent ahead was parsed with its request (`early`),
and `handleStayConnected` drops it at its first visit, or is still to be read,
and then must arrive. Failures of `send` and `read` close
the connection at once; they are in `Proxy`.

### Mcp

Clients that open a socket per request and wait without a limit, requests and
replies as sets of datagrams, an administrator who interrupts the client
(`README.txt` says that is how it ends), `handleMCPRequest` with
`parseAndExecuteRequest` and `setReadBufferSize`, and metrics that move as
connections come and go. A query has the passphrase of the proxy or another
(`key`). The network loses datagrams (`Lose`; `lost` remembers whose), delivers
them twice (`Taken`), late and in any order, and brings others that are no
request (`SendStray`). The handler is an action per socket, as datagrams are
taken in turn.

### HttpParser

`ctx` is `struct ctx`. Each automaton is a function from its states to rows, a
row a record of the transitions it has (`ANY` last, as in the tables), and
`parser_feed` picks one. An event has at most two bytes; a transition with two
actions has the name of both. `Parse` is one turn of the loop of
`readAndParseRequest` or `readAndParseResponse`: `http_master` with the handlers
it calls, each a function from a context and a byte to a context. A matcher is
the position in its name and what it said last (`..._status`).

Two things come out of the tables and not out of their comments. The event FIN of
the start line never happens, because `states[]` has the rows of CR and FIN in
the other order (`HTTP_start_line_parser.c:108`) and the version swallows the CR
LF: what only that event reads (version, `uri_is_valid`, OPTIONS, path) is left
out. And `strcmps` stores the transition for other bytes where the next letter
overwrites it (`parser_utils.c:184`), so that before its end the matcher of
CONNECT waits instead of failing. What is left in the place of that transition
is a slot of zeros: a transition for the byte 0 without an action, which
`parser_feed` calls. `CallsNull` says when, and the model stops there, as the
process does.

`HttpParserProperties` has a second definition of everything that is checked,
which splits all bytes received into lines and looks at no automaton. Its host in a
target is the code's to the letter: after a slash that ends nothing (right at its
beginning, or after a dash, whose row has no `/`) the host goes on. Where the code
does not do what its comments say of a CONNECT, the properties state the part that
holds and name the rest (section 3): neither the matcher that waits nor the host of
a CONNECT is written into the reference.

`Request` is what `Proxy` has in the place of all this (`Parsed`): host and method
come to be known together and once, and a bad request is parsed no more.
`HttpParser` is shown to implement it (`ImplementsRequest`), with the method as
seen from the moment the host is known.

### Authorization and Base64

`saveAuthorization` runs in one call, once a client has ended its request; an
action is a turn of one of its loops. `i` and `j` are bytes in the code and have
`CounterSize` values here. `Decode` is `base64_decode` and what is made of its result,
which is written to the log, or written through when it is NULL (`fault`).
`Base64` has the decoder group by group, as the code has it, and the encoding of
RFC 4648 bit by bit.

## 3. Runs

| run | instance | what it shows |
|---|---|---|
| `failures` | 2 entries, 3 descriptors, resets, DoH refuses, `WildFd` = 2 | `TypeOK`; `Ownership` and `ImplementsLifecycle` survive -1 in the sets; `ConcurrentCounts`: the metric is exactly the open client sockets; `MaxSocketCovers` |
| `two_connections` | 2 entries, 4 descriptors, 2 ready at a time | `RelayNeverStalls`, `RelayNeverSpins` |
| `settles` | 1 entry, 2 passive sockets, servers that reset, a `connectToDoH` that fails, fairness | `RequestSettles` and `ConnectAnswered`, but for the query that is lost; `FinalMessageAwaitsHttpClient`; `SelectNeverFails` holds with one entry |
| `tunnel` | 3 bytes per end, 1 sent ahead, reads of 2, fairness | `Conserved`, `BytesCounted`, `ImplementsRelay`, `Delivered`, `EndsAfterServer` |
| `doh` | 5 hosts, 12 zones, every set of dead addresses, answers cut at 4 places, one failed `send()`, a `connectToDoH` that fails between the queries, fairness | `AddressesAreTheHosts`, `ImplementsLookup`, and `LookupEnds` but for that last failure |
| `buffer` | 3 cells, chunks of 2, writes of 1 to 5 bytes | `WrittenInside`, `ImplementsQueue` |
| `http_parser` | 17 start lines, 9 pieces, 5 reads | `ParsersAgree`, `ConnectIsSeen`, `HostIsTheRequests`, `ForwardsTheRequest`, `BodyIsWhole`, `ImplementsRequest` |
| `mcp` | 2 requests, either passphrase, loss, repetition, stray datagrams, failing `realloc`, fairness | `SuccessMeansChanged`, `NeverBackwards`, `Answered` |
| `authorization` | counters of 32 values, headers of up to 89 bytes, 8 credentials, fairness | `DecodesCredentials`, `SniffEnds` |

Runs whose property the code violates; each quotes a text of the repository and
is a finding in `PROJECT.json`:

| run | what happens |
|---|---|
| `family_switch` | two look-ups at once: the old DoH descriptor stays watched after its `close`, `select()` fails with EBADF for ever |
| `final_message_tunnel` | a bad request while the 200 is sent: the error reply is never sent |
| `early_close` | a client that closes before its host is known is counted for ever |

Other differences met while modelling, without a run of their own (each is what the
named definition does, and the properties except it by name or say nothing of it):

- a `connectToDoH` that fails at the change to the AAAA query leaves its request
  waiting for ever: `doh_socket` becomes -1 (`proxyHandlerHelper.c:251`, `doh.c:82`),
  which nobody tests, every later `send(-1)` only makes the number of pending bytes
  grow, and the entry keeps its client. `RequestSettles` and `ConnectAnswered` have
  this as their exception (`QueryLost`), `LookupEnds` as `lost`; without it all three
  are false. If the bit of `FD_SET(-1)` is that of another connection and that one
  becomes readable, `read(-1)` fails instead and the request gets its 500;
- a failed `read` from the client passes `currentfds` twice to
  `prepareFinalMessage` (`proxyHandlerHelper.c:57`) and leaves the entry for
  ever (`ClientReadError`): nothing is promised of a final message after it
  (`NoReset` in section 4, no reset by clients in `settles`);
- a client beyond the table is accepted, counted and watched without an entry
  (`proxyUtils.c:173`, `HandleConnection`);
- `FD_CLR(-1)` takes the bit of another connection: `RelayNeverStalls` fails when
  `WildFd` is one of the descriptors;
- a connection that changes to the AAAA query leaves the bit of its old DoH socket
  set, so that a later one may be watched for writing before it has anything to
  send, for one wake-up (`proxyHandlerHelper.c:249`; it takes three entries, which
  no run has, and was found by the proof): `RelayNeverSpins` is about what a turn
  of the relay leaves;
- a client that shuts down its writing side loses what is left of the answer
  (`proxyHandlerHelper.c:313`, `ClientEof` of `Tunnel`);
- a size of 0 changes nothing and is acknowledged as a success
  (`proxyClient.c:36`), which `SuccessMeansChanged` excepts;
- `BUFFER_SIZE` is changed before `realloc` is known to succeed
  (`proxyClient.c:39`): if it fails the answer is an error, as it should be, but the
  next `read()` may bring more than the old buffer holds. `Mcp` has the size the
  buffer was given and not what is read into it, so no property sees that;
- an error code for the AAAA query makes the request fail although the A query
  gave addresses (`proxyHandlerHelper.c:241`, `LookupDone`);
- after the 200 of a CONNECT only the client is watched until the entry is
  visited again, so that a server that speaks first is not heard before another
  event brings the loop there (`proxyHandlerHelper.c:126`, `ConnectionInformed`):
  `ConnectAnswered` ends with the 200, and nothing covers what comes after it;
- the version and the form of the target are never checked, as FIN of the start
  line never happens (`HTTP_start_line_parser.c:108`, `HTTP_start_line`);
- a method that has the letters of CONNECT in order among others is taken for
  CONNECT (`parser_utils.c:184`, `strcmps`), where `parser_utils.h:24` and
  `parser_utils.h:41` have a matcher that verifies that the bytes form the text.
  `ConnectIsSeen` says what does hold: the method CONNECT is taken for one, and no
  method without its letters;
- a byte 0 in a method, and possibly in a version, makes `parser_feed` call a NULL
  action (`parser.c:72`, the slot left over in `parser_utils.c:184`): the process
  ends, with every connection (`CallsNull`);
- a CONNECT goes to the host of its Host header: its authority is copied to
  `uri_host` (`HTTP_parser.c:407`), but `uri_has_host`, without which that is never
  read, is only set by the automaton of absolute URIs (`HTTP_parser.c:315`). The
  comment before `http_header` (`HTTP_parser.c:150`) gives the first line
  precedence. `HostIsTheRequests` says nothing of the host of a CONNECT but that one
  is known exactly when the header has a value;
- the host of an absolute URI is only taken over at the end of a line after a Host
  header: without that header a request, CONNECT or not, never names a host
  (`HTTP_parser.c:180`, `HostOfLine`), and an absolute URI without a path never
  gives its host (`http_abs_parser`);
- only the first Connection header is taken out (`HTTP_parser.c:228`, `Colon`);
- a body that has a blank line, or begins with one, ends the automaton: the rest
  of the body of a request is dropped while the parser reads, and what follows in
  a DoH answer is taken for a start line (`HTTP_parser.c:545`, `http_master`);
- a client with another passphrase waits for ever: its AUTH_ERROR is prepared and
  never sent, although the client has a message for it (`mcpUtils.c:147`,
  `client/mcpUtils.c:89`, `Sent`); the same goes for INVALID_REQUEST_ERROR;
- a DNS answer that ends inside an address gives an address whose end is zeros,
  and the proxy connects to it (`doh.c:172`, `CutShort` of `Lookup`);
- what a CONNECT client sent together with its request is dropped
  (`proxyHandlerHelper.c:294`, `Skipped` of `Tunnel`);
- a token that is no Base64 ends the process, as the NULL of `base64_decode` is
  written to (`proxyUtils.c:391`, `Decode`), and a token of more than 255
  characters, or after more than 255 bytes, keeps it in the loop for ever
  (`proxyUtils.c:376`, the precondition of `SniffEnds`);
- `-N` (`args.c:37`, "Deshabilita los password disectors") sets
  `disectors_enabled`, which nothing reads;
- DEL is no control character for the classes although their comment has it as
  one (`char_classes.h:25`, `char_classes.c:47`); no table looks at that class;
- a request for `::1` at the proxy's port is not recognized as the proxy's own,
  because `inet_pton(AF_INET6, "127.0.0.1")` leaves `::` (`proxyUtils.c:257`).

### Bounds, and why they are enough

- Two entries: every handler touches its own entry and the shared sets; what one
  connection can do to another needs two. One entry suffices for what concerns a
  single connection, and keeps the other bounds larger.
- `MaxFd`: 3 lets one connection have its client, DoH and server sockets; 4 lets
  two connections look up names at once, or one relay while the other resolves,
  and runs out of descriptors in the middle, which is where `-1` comes from.
- `MaxReady` (`MCProxy`): two ready descriptors at a wake-up, which are any two
  events of two connections or of the ends of one. `MaxOverflow`: clients beyond
  the table, 0 there. `failures` has neither bound.
- `Faults`: which system calls may fail. `failures` has all three; `settles` has
  those but the reset by a client, after which an entry may wait for ever (above).
- `Tunnel`: three bytes per end and reads of two, so that a read is partial, a
  send is partial twice, and a buffer is appended to between two sends.
- `Doh`: a name of two labels has a dot to replace; a zone has a record of
  another type before an address, after it, and names by pointer and in full;
  `Parts` (1 and 12 octets) cuts a query of 23 octets in its header, in its
  question, or in every octet. `Cuts` ends an answer before its header, in the
  fixed fields of a record, inside an address and in a later record. One failed
  `send()` (`MaxFailures`) shifts the query; a second one shifts it again.
- `Buffer`: a write of 5 bytes needs two chunks of 2 or more; `MaxFrom` = 6 is
  twice the initial size, so that a buffer grows, shrinks and grows again.
- `HttpParser`: names of two letters, of which two begin alike, take a matcher
  through all its states; a start line and four pieces give two whole headers and
  the blank line with a body, the same header twice, or a header cut in its name,
  at its colon, between CR and LF. The start lines are of every form of target,
  with and without an error, with CONNECT as the method, among other letters of
  it, reversed, and in the target, and without a target or a version; the limits of the
  method and of the host are 2 and 4. A byte 0 comes in a method only, where the
  process ends; elsewhere it is a byte like another to the automata, and ends the
  strings others read.
- `Mcp`: two requests per client make a late reply possible; the sizes are one that
  fails (`Memory`), one that does not, and 0. Metrics up to 1 suffice for an old answer to differ from a
  new one.
- `Authorization`: `CounterSize` = 32 puts the largest count at 31, and there are tokens
  and spaces that reach it and pass it. So the values
  have 89 bytes at most instead of some hundreds.
- Deadlock is checked in every run of `Proxy` and of `Buffer`. It is not in
  `Tunnel`, `Doh` and `Authorization`, where a connection or a call comes to its
  end, nor in `Mcp` and `HttpParser`, where requests and reads are bounded.

### Fairness

`Proxy`: the loop runs to its end (it has no blocking call but `select()`), a
descriptor that is watched for writing is reported writable again and again
(the peer reads), the DoH server sends and ends its answers (`Connection:
close` is in the query), and a send repeated on a writable socket gets to its
last byte. Nothing is assumed of when clients and servers speak, nor of new
connections, nor that a `connectToDoH` that failed ever succeeds later. `Tunnel`: the handler runs, what can be read is reported, and an
end that is watched for writing is reported again and again. `Doh`: some
step is taken as long as one is possible; the only other party is the DoH
server, which answers what it received, closes, or takes no second connection. `Mcp`: the loop gets to the
management socket, whose datagrams are taken in turn, so that stray ones and
those of others keep none waiting for ever, and a reply wakes its client. The
network may lose what it likes: nothing is ever sent again, and `Answered` says
nothing of a client one of whose datagrams was lost. `Authorization`: the call
runs.

## 4. Proofs

`ProxyProofs`, for every number of entries, passive sockets and descriptors,
every `WildFd` and every choice of `Faults`, from `ProxyAssumption` alone (the
constants are positive numbers):

- `TypeCorrect`: `Spec => []TypeOK`.
- `DescriptorOwnership`: `Spec => []Ownership`.
- `ConcurrentIsExact`: `Spec => []ConcurrentCounts`.

Ownership is not inductive: that a socket just opened replaces none depends on
the stage the entry is in. The inductive invariant `IInv` is `TypeOK`,
`OwnsOpen`, `OwnersDiffer`, `InUse` (the second half of a visit is for an entry
in use) and `AllStaged` (an entry without a client is clean; it is connected
before it is informed, informed before it stays connected, and that before the
relay is set up). Every step of the loop replaces the entry being visited and
changes what some descriptors are open for; lemma `Replace` says when such a
step keeps the invariant (what the new entry holds was held by the old one or
was closed, and no descriptor of another entry is touched), and the lemma of
each action shows that the action is such a step. `ConcurrentIsExact` follows
from the invariant and the cardinality of the set of open client sockets:
ownership is what makes every `closeAll` close exactly one of them.

The same module goes on, for the same constants:

- `MaxSocketIsEnough`: `Spec => []MaxSocketCovers`.
- `LifecycleIsImplemented`: `Spec => ImplementsLifecycle`.
- `RelayKeepsMoving`: `Spec /\ Tame => []RelayNeverStalls`.
- `RelayDoesNotSpin`: `Spec /\ Tame => RelayNeverSpins`.

`Tame` says that `WildFd` is no descriptor, that is, that the process never has
so many open as to use the one whose bit `FD_SET(-1)` touches. Without it the
last two are false (section 3). None of the four is inductive. `MaxSocketCovers`
needs that what an entry holds is not above `maxSocket` (`AllBelow`), because a
handler sets bits of descriptors that were opened earlier; the life cycle needs
`IInv` and that a connected entry knows its host (`AllKnown`); the interest sets
need to be known before the relay begins too (`AllWatched`: the client is watched
for reading until it closes, and for writing only to get its 200 or bytes), and
that `select()` has seen no closed descriptor when clients are accepted
(`NoneClosed`), since a descriptor that is opened may not come with a bit.
`Visit` is what all handlers have in common: the entry visited moves as
`Lifecycle` allows, holds what it held or what was closed, and touches the bits
of its own descriptors only. One lemma per handler shows that it is a `Visit`; that
a `Visit` keeps each invariant is then shown once.

Two more invariants of the loop are false in general, and the theorems say under
what hypothesis they hold:

- `FinalMessageIsAwaited`: `Spec /\ Tame /\ NoReset => []FinalMessageAwaitsHttpClient`.
  `NoReset` says that no client resets its connection (`Faults`): `ClientReadError`
  takes the client out of the write set and leaves the entry with its error page.
  The property speaks of every entry with an error page but a CONNECT that had its
  200, which the run `final_message_tunnel` shows waiting for ever. The invariant is
  `AllAnswered` with those above: a final message waits for the client in the write
  set unless the entry is a CONNECT that is informed, and whoever is connected and
  not yet informed is a CONNECT.
- `SelectFailsOnlyThere`: `Spec /\ Tame /\ [][NumberKept]_vars => []SelectNeverFails`.
  `NumberKept` says that the change to the AAAA query gets back the number of the
  DoH socket it has just closed; when it does not, the old number stays in the read
  set, and `family_switch` shows the failure. The theorem says that nothing else
  in the program can cause it. The invariant says that what is watched is open
  (`NoneWatchedClosed`); it rests on the DoH socket of a sent query being watched for
  reading only (`SentOnce`), as the handler that closes it clears no write bit,
  and on an entry having no DoH socket before it asked for one (`DirectFirst`).
- `OneEntrySelects`: `Spec /\ Tame /\ CLIENTS = 1 => []SelectNeverFails`, the table of the
  run `settles`. No descriptor below the DoH socket of the only entry is free
  (`LowerOpen`), so that the lowest free number after closing it is its own: `CLIENTS =
  1` implies `NumberKept`.

`TunnelProofs`, for every number of bytes, size of a read and bytes sent ahead:

- `TypesHold`: `Spec => []TypeOK`.
- `CountIsExact`: `Spec => []BytesCounted`.
- `NothingIsLost`: `Spec => []Conserved`.
- `RelayIsImplemented`: `Spec => ImplementsRelay`.

The invariant says of each end that what the other one received, what the buffer
keeps and what nobody read are three runs of its bytes that follow each other
(`Streams`), where `Run` is so many bytes from some number on; reading, sending a
part and deleting it cut and join runs (`RunCut`, `RunConcat`). The rest is what the
refinement needs: where the handler may be (`Phases`), that the first visit of a
CONNECT empties a buffer that holds nothing of the server (`NoAnswerYet`), and that
a `read()` of nothing means an end that finished (`Reported`, `Ended`).

`McpProofs`, for every set of administrators, sizes and number of requests:

- `TypesHold`: `Spec => []TypeOK`.
- `SuccessIsAChange`: `Spec => []SuccessMeansChanged`.
- `AnswersGoForward`: `Spec => NeverBackwards`.

A datagram may arrive at any later time, so that the invariant speaks of all those
under way: a request on the socket its client waits at is that of the query it
waits for (`OwnRequest`), and a reply to that socket tells no more than the metrics
are now and no less than the client was told (`OwnReply`). Both rest on a socket
being opened per query, which `sockets` counts.

`BufferProofs`, for every `CHUNK`, initial size and set of writes, from
`BufferAssumption` (the two sizes are positive, what is written is bytes):

- `BufferTypeCorrect`: `Spec => []TypeOK`.
- `WritesStayInside`: `Spec => []WrittenInside`.
- `BufferIsQueue`: `Spec => ImplementsQueue`.

`TypeOK /\ WrittenInside` is inductive: a write keeps it because the buffer has
grown enough before (`RoomForOne`, `RoomForMany`, which rests on the division in
`ChunksCover`). Lemma `Appends` says that a copy after `from` into enough cells is
a `Put` of the queue, `DeleteTakes` that the move is a `Take`.

`HttpParserProofs`, for every set of bytes, letters and names, every limit and
every split into reads, from `ParserAssumption`. It says that the bytes the automata
tell apart are bytes, that names and reads are sequences of bytes, and three things
of the constants in the code: `"CONNECT"` is not empty and has none of the bytes
the tables name, `/` is not among the bytes of a scheme (`char_classes.c`), and the
names `host` and `connection` are not the same.

- `ParserTypeCorrect`: `Spec => []TypeOK`; no transition leads out of a table.
- `LinesAgree`: `Spec => []ParsersAgree`.
- `BodyIsKept`: `Spec => []BodyIsWhole`.
- `ConnectAsSent`: `Spec => []ConnectIsSeen`. It says of the method CONNECT that it
  is taken for one, and of any other that is that it has the letters of CONNECT in
  order; not that no other is, which is false (section 3).
- `HostAsNamed`: `Spec => []HostIsTheRequests`, for the host of every request but a
  CONNECT, of which it says when one is known and no more.
- `ForwardedAsSent`: `Spec => []ForwardsTheRequest`, for every request but a CONNECT,
  of which nothing is forwarded.

`TypeOK` is inductive. One lemma per table goes through its states
(`MasterStates` to `HeaderStates`); one per handler, from the innermost
(`KeepsAbsParser`) to `MasterByte`, says that it keeps the type, the host once
found, an error, and the places of the two automata. `ParsersAgree` is then
inductive with it: `LinesOfMaster` and `LinesOfHeader` state how each automaton
sees CR and LF, and `AgreeInHeader` that they move together.

`ParserIsRequest`, in the same module and from the same assumption, is `Spec =>
ImplementsRequest`: `HttpParser` may stand where `Proxy` has `Parsed`. The mapping needs that the method does not change once there is a host. The
invariant is `HostAfterStart` (a request whose host is known is past its request
line), with `TypeOK`. No byte of the request line finds a host
(`StartLineFindsNothing`), no other byte touches the method, and the only one that
finds a host is the end of a line with a value (`NewLineTells`, `MasterTells`).

The last four of the list compare the automata, which see a byte and forget it, with
a reference that has all of them. None is inductive, as each speaks of whole lines
and the automata are in the middle of one most of the time. The invariants that are
follow the bytes:

- `MasterInv`: which state the automaton of the message is in says where in the
  message the bytes end (in the first line, in a line, at its CR, after an empty
  line), for messages of either side.
- `MessageInv`: `message` is what came after the header.
- `RequestInv`: what the request line has been so far: the method with the letters
  of CONNECT that were seen in it, in which part of the target its two automata
  are, and the part of the host that was copied (`UriOf`); all of it as long as
  there was no error. A subsequence is an existential over functions; lemmas
  say when one more byte makes a match longer, by taking the earliest one.
- `HeaderInv`: before the header nothing of it has been touched (`HeaderFresh`) and
  after its blank line no byte is taken for one of it (`PastHead`). In between
  (`HeaderPart`) two things are known, the lines that are over and the line begun:
  the first say which host and which Connection header there was; the second, what the
  matchers make of the name so far, and the value so far. What was written to
  `full_message` is the lines over, forwarded, and the beginning of this one, where
  a Connection header takes back the CR LF before it (`ForwardPart`). After it, the
  header as forwarded and what came of the body (`BodyForwarded`).

A byte either stays in its line or ends it. That it leaves the earlier lines of the
reference what they were, and when it adds one, is shown once
for the reference (`NthNext`, `LinesNext`). Nothing is assumed of the requests: a
name that a carriage return cut in two, a body with a blank line, and the host and
message of a CONNECT, are excepted by the properties themselves. What the assumption adds is needed: with an empty
CONNECT every request would be one, with `/` in a scheme the reference would
look for the host too early.

`AuthorizationProofs`, for every header, every credentials of at least a byte and
every size of the counters, from `AuthorizationAssumption` (the size is positive,
headers and credentials are bytes):

- `DecodeUndoesEncode`: `base64_decode` takes what `Encode` makes of a text, and
  gives that text back.
- `TypesHold`: `Spec => []TypeOK`.
- `CredentialsAreLogged`: `Spec => []DecodesCredentials`.

The first is about functions, not steps. A group of four signs decodes to the
bytes it was made of because shifting what bits add up to undoes the adding
(`BitsAddUp`, `ShiftsUndone`, for 0 to 2 signs of padding), only the last group is
padded (`GroupsOfEncode`), and the groups follow each other as the parts of the text
do (`GroupDecodes`). That they join to the text is an induction over their number.
The library's induction theorems have an operator as a parameter, which no prover
here can instantiate; `SequenceLemmas!Induction` says the same of a set that is closed
under +1, and follows from cardinalities of finite sets. `FlattenSteps` and
`FlattenIs` then unfold the recursion of `FlattenSeq`.
The invariant of the scan says what the counters stand for however often they
wrapped: before byte `i` of a header there are only the scheme and spaces, and the
`j` bytes from there on belong to one token. So a scan that ends has found the token
`Token` names (`StartIsFound`, `EndIsFound`).

`DohProofs`, for every host, every zone, every size of a partial `send()`, every
cut, every number of failures and every set of addresses that refuse, from
`DohAssumption`:

- `TypesHold`: `Spec => []TypeOK`.
- `AddressesAreTheHostsHolds`: `Spec => []AddressesAreTheHosts`.
- `LookupIsImplemented`: `Spec => ImplementsLookup`.

The assumption is about what the proxy is given: a name has labels of 1 to 63
octets without dots; a record of the DoH server has fields of two octets and names
its owner by a pointer or in at most the 24 characters of `getAnswerSectionName`;
and an answer has addresses of the type that was asked for only, each of its size.
The code checks none of this, and takes an A record in a AAAA answer for one more
address. The rest of `Doh` is as the runs have it, with no bound on labels, records
or addresses.

Three parts of the proof are about functions. `QuestionIsWireName`: replacing each
dot by the number of octets to the next one makes the name of RFC 1035 (an
induction over the labels). `ReplyIs`, `RecordHeld`: where the parts of an answer
are. `RecordRead`: what `parseAnswerFormat` reads from where a record begins, for a
record that is whole and for one that is cut short at any octet; the second goes
past the end of the message and takes the beginning of an address, or nothing
(what ends it is zeros only for messages within 1024 octets, see `Doh` in section 2).
The invariant says of each phase what its messages are: the query and what the DoH
server has of it, which a failed `send()` makes longer than the query (`InQuery`,
`Received`), the answer or its beginning (`InAnswer`), and that the parser is at
the beginning of a record, with the addresses of those before it, or past the end
(`InRecords`, `AlignedAt`, `CutOffAt`). A query with more octets than were meant is no
question about the host, so that its answer has no address (`AnswerToMore`). `Tried`
is what the refinement needs of the attempts to connect.

Only model-checked: all liveness (the prover handles neither fairness nor
ENABLED), and what the three runs that expect a violation show. Every safety
invariant and every action property of the passing runs has a theorem; those of
`RelayNeverStalls`, `RelayNeverSpins`, `FinalMessageAwaitsHttpClient` and
`SelectNeverFails` are under the hypotheses named above, without which they are
false.

## 5. Not modelled

In `Proxy` the parser is reduced to its outcomes, which `HttpParser` has in
detail; that these are all is `ParserIsRequest`, and the two run in no common
model. Of the parser: what only the event FIN of the start line reads (section
2), and the twelve classes of bytes no table names. Blocking: `connect()` and
`accept()` are atomic, so the time the whole proxy waits for a server is not
visible. FD_SETSIZE: the descriptor sets have no limit here, while 512 entries
may need more than 1024 descriptors, beyond which the program has no defined
behaviour. SIGPIPE, which a `send()` to a peer that is gone raises and nothing
handles: the models go on as if it were ignored. Memory allocation (except the
read buffer), EINTR (no handler is installed), start-up, the arguments of both
programs (read once, before anything is concurrent), logging, the constant error
pages, hashes. DNS records that name the root: `NameLength` has them, the zones of
the run do not, as none owns an address of a host.

## 6. Plan

Done, in this order: `Proxy`, `ProxyProperties`, `Lifecycle`, `MCProxy`,
`ProxyProofs`, `Relay`, `Tunnel`, `Mcp`, `Buffer`, `Queue`, `BufferProofs`, `Doh`,
`HttpParser`, `HttpParserProperties`, `HttpParserProofs`, `Base64`,
`Authorization`, `Lookup`, `Request`, `CharClasses`, `TunnelProofs`, `McpProofs`,
`SequenceLemmas`, `AuthorizationProofs`, `DohProofs`. To come:

1. `Proxy` shown to use no more of its parser and look-ups than `Request` and
   `Lookup` promise.
