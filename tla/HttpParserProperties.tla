------------------------ MODULE HttpParserProperties ------------------------
(***************************************************************************)
(* What the parser must make of a message, said of the whole message: a    *)
(* reference that splits it into lines and never looks at an automaton.    *)
(***************************************************************************)
EXTENDS HttpParser, FiniteSets, SequencesExt

\* Every automaton is in one of its states (a row that is not there would be
\* read outside the table), every matcher within its name.
TypeOK ==
  /\ side \in {"request", "response"}
  /\ ctx \in Ctx
  /\ pending \in Seq(Byte) /\ received \in Seq(Byte)
  /\ reads \in 0 .. MaxReads

-----------------------------------------------------------------------------
(* The reference *)

\* Where lines end, where blank lines end.
Ends   == {i \in 2 .. Len(received) : received[i - 1] = "CR" /\ received[i] = "LF"}
Blanks == LET ends == Ends IN {i \in ends : i - 2 \in ends}

\* Where the lines of the header end, the start line and the blank line among them.
LineEnds == LET blanks == Blanks IN {i \in Ends : \A b \in blanks : i <= b}

HeaderEnd == Max(LineEnds \cup {0})

\* The k-th of a set of numbers, the least first.
Nth(S, k) == CHOOSE i \in S : Cardinality({j \in S : j <= i}) = k

\* The k-th line: what is between two ends, without CR LF.
EndOf(k) == IF k = 0 THEN 0 ELSE Nth(LineEnds, k)

Lines ==
  [k \in 1 .. Cardinality(LineEnds) |-> SubSeq(received, EndOf(k - 1) + 1, EndOf(k) - 2)]

First(bytes, c) ==
  LET at == {i \in DOMAIN bytes : bytes[i] = c} IN IF at = {} THEN 0 ELSE Min(at)

\* What is before the first c and what is after it, all when there is none.
Before(bytes, c) ==
  IF First(bytes, c) = 0 THEN bytes ELSE SubSeq(bytes, 1, First(bytes, c) - 1)
After(bytes, c) == SubSeq(bytes, First(bytes, c) + 1, Len(bytes))

NameOf(line)  == Before(line, "COLON")
ValueOf(line) ==
  LET rest == After(line, "COLON")
      text == {i \in DOMAIN rest : rest[i] # "SP"}
  IN  SubSeq(rest, Min(text \cup {Len(rest) + 1}), Len(rest))

Named(line, h) ==
  LET name == NameOf(line)
  IN  [i \in DOMAIN name |-> lower(name[i])] = HeaderName[h]

HeaderLines == {k \in DOMAIN Lines : k > 1 /\ Lines[k] # <<>>}
Of(h)       == {k \in HeaderLines : Named(Lines[k], h)}

FirstLine == IF LineEnds = {} THEN received ELSE Lines[1]

\* The method is what is before the first space of the first line, the target
\* what is between that one and the next.
MethodOf(line) == Before(line, "SP")
TargetOf(line) == LET rest == After(line, "SP")
                  IN  IF First(rest, "SP") = 0 THEN <<>> ELSE Before(rest, "SP")

Method == MethodOf(FirstLine)

\* The bytes of name are among those of bytes, in their order.
Within(name, bytes) ==
  \E f \in [DOMAIN name -> DOMAIN bytes] :
    /\ \A k \in DOMAIN name : bytes[f[k]] = name[k]
    /\ \A k \in DOMAIN name \ {1} : f[k - 1] < f[k]

\* The host in an absolute target with a path: what is between its second and its
\* next slash, but for one right there or after a dash (GUION), which is the host's.
HostAt(target)   == First(target, "SLASH") + 2
HostEnds(target) == {i \in HostAt(target) + 1 .. Len(target) :
                       target[i] = "SLASH" /\ target[i - 1] # "DASH"}
HostIn(target)   == IF HostEnds(target) = {} THEN <<>>
                    ELSE SubSeq(target, HostAt(target), Min(HostEnds(target)) - 1)

UriHost == HostIn(TargetOf(FirstLine))

\* A line as the proxy forwards it: a header with its value stripped of leading
\* spaces, the first Connection header dropped, the Host that of the URI.
ForwardedLine(k) ==
  LET line == Lines[k]
      host == IF UriHost # <<>> /\ k \in Of("host") /\ ValueOf(line) # <<>>
              THEN UriHost ELSE ValueOf(line)
  IN  IF k = 1 \/ line = <<>> THEN line \o <<"CR", "LF">>
      ELSE IF k \in Of("connection") /\ \A j \in Of("connection") : k <= j THEN <<>>
      ELSE NameOf(line) \o <<"COLON">> \o host \o <<"CR", "LF">>

Body == SubSeq(received, HeaderEnd + 1, Len(received))

\* The body has a blank line, at which the automaton of the message ends.
BlankInBody == \E b \in Blanks : b > HeaderEnd

BodyStates == {"DATA_NEW_LINE", "DATA", "DATA_CR", "DATA_CR_FIN"}

\* A carriage return in a name cuts it in two for the matchers.
BrokenName(line) == First(NameOf(line), "CR") # 0

\* The header parsed so far is whole lines, and right.
AtLineEnd ==
  /\ side = "request" /\ ~ctx.error
  /\ ctx.HTTP_master \in {"HEADER_NEW_LINE"} \cup BodyStates
  /\ \A k \in HeaderLines : ~BrokenName(Lines[k])

-----------------------------------------------------------------------------
(* Safety *)

\* The automaton of the message and that of the header see the same lines end,
\* and the header at the same byte: no byte of the body is parsed as a header,
\* no header is forwarded unparsed (http_master feeds one with the events of the
\* other, and each looks for CR LF by itself).
Agree(master, header) ==
  \/ /\ master \in {"START_LINE", "START_LINE_CR", "HEADER_NEW_LINE"}
     /\ header = "NEW_LINE"
  \/ master = "HEADER" /\ header \in {"FIELD_NAME", "COLON", "OWS", "FIELD_VALUE"}
  \/ master = "HEADER_CR" /\ header \in {"CR_FIELD_NAME", "CR_FIELD_VALUE"}
  \/ master = "HEADER_CR_FIN" /\ header = "CR_FIN"
  \/ master \in BodyStates \cup {"FIN", "ERROR"} /\ header = "FIN"

ParsersAgree ==
  side = "request" /\ ~ctx.error => Agree(ctx.HTTP_master, ctx.HTTP_header)

\* A request whose method is CONNECT is taken for one and gets its tunnel, however
\* it is split and whatever comes later in the request line or in the header, and
\* none is taken for one that has not the letters of CONNECT in its method, in
\* this order.  That only the method CONNECT is, as parser_utils.h:24-28 has it, is
\* not so: the matcher steps over bytes it does not wait for.
ConnectIsSeen ==
  side = "request" /\ ~ctx.error =>
    /\ Method = CONNECT => ctx.connect_method_used
    /\ ctx.connect_method_used => Within(CONNECT, Method)

\* The host is known exactly when a Host header has a value, and there is one
\* such header at most, however the request was split into reads.  The host that
\* is looked up for a request other than CONNECT is the one it names: that of the
\* URI when it has one, else the whole value of the header.  Nothing is said of
\* that of a CONNECT: it is the value of the header, where HTTP_parser.c:151-158
\* gives precedence to the first line and :407 takes its host from there.
HostIsTheRequests ==
  AtLineEnd =>
    /\ Cardinality(Of("host")) <= 1
    /\ ctx.found.host <=> \E k \in Of("host") : ValueOf(Lines[k]) # <<>>
    /\ ctx.found.host /\ ~ctx.connect_method_used => ctx.value.host =
         IF UriHost # <<>> THEN UriHost ELSE ValueOf(Lines[CHOOSE k \in Of("host") : TRUE])

\* What is forwarded is what was received, but for the first Connection header,
\* the Host that gives way to the URI and the spaces before values: the request
\* line, the other headers and the body are all there, once and in order.  (Of a
\* CONNECT nothing is forwarded: handleStayConnected discards what was read.)
ForwardsTheRequest ==
  AtLineEnd /\ ~ctx.connect_method_used /\ ctx.HTTP_start_line = "VERSION" /\ ~BlankInBody =>
    ctx.full_message =
      FlattenSeq([k \in DOMAIN Lines |-> ForwardedLine(k)]) \o Body

\* message is the body of a message, for which DoH answers are parsed.
BodyIsWhole ==
  ctx.HTTP_master \in BodyStates /\ ~ctx.error /\ ~BlankInBody => ctx.message = Body

AsRequest ==
  INSTANCE Request WITH
    host    <- IF ctx.found.host THEN ctx.value.host ELSE <<>>,
    connect <- ctx.found.host /\ ctx.connect_method_used,
    error   <- ctx.error

\* The five automata and their flags are, to the rest of the proxy, one request
\* that names host and method once: Proxy may take them from Parsed, and nothing
\* parsed later changes the host whose look-up has begun (DoHHandlingZone reads
\* the buffer again for the second query).
ImplementsRequest == AsRequest!Spec
=============================================================================
