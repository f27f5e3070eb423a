-------------------------- MODULE HttpParserProofs --------------------------
(***************************************************************************)
(* For every set of bytes, names and limits, whatever is received and      *)
(* however it is split into reads: the parser keeps to its tables, its two *)
(* automata agree on where lines end, and to the rest of the proxy it is a *)
(* Request, whose host never changes once it is known.  And what it makes  *)
(* of a message is what the reference says of the whole of it, by          *)
(* invariants that follow the bytes as they come: MasterInv (where the     *)
(* message is), MessageInv (its body), RequestInv (the request line) and   *)
(* HeaderInv (the header, line by line and within the line).               *)
(***************************************************************************)
EXTENDS HttpParserProperties, SequenceLemmas, SequenceTheorems, FiniteSetTheorems, TLAPS

\* What the actions of an event keep: the type of the context, the states of the
\* two automata that split the message, a host that was found and an error.
SamePlace(x, y) == y.HTTP_master = x.HTTP_master /\ y.HTTP_header = x.HTTP_header
SameHost(x, y)  == x.found.host => y.found.host /\ y.value.host = x.value.host
Keeps(x, y)     == y \in Ctx /\ SamePlace(x, y) /\ SameHost(x, y) /\ (x.error => y.error)

LEMMA KeepsTransitive ==
  ASSUME NEW x, NEW y, NEW z, Keeps(x, y), Keeps(y, z)
  PROVE  Keeps(x, z)
  BY DEF Keeps, SamePlace, SameHost

LEMMA KeepsItself == ASSUME NEW x \in Ctx PROVE Keeps(x, x)
  BY DEF Keeps, SamePlace, SameHost

-----------------------------------------------------------------------------
(* Assignments to one member of a context *)

LEMMA KeepsError == ASSUME NEW x \in Ctx PROVE Keeps(x, Error(x)) /\ Error(x).error
  BY DEF Ctx, Error, Keeps, SamePlace, SameHost

LEMMA KeepsWritten ==
  ASSUME NEW x \in Ctx, NEW bytes \in Seq(Byte)
  PROVE  Keeps(x, Written(x, bytes))
<1>1. x.full_message \o bytes \in Seq(Byte)
  BY DEF Ctx
<1> QED
  BY <1>1 DEF Ctx, Written, Keeps, SamePlace, SameHost

LEMMA KeepsByte ==
  ASSUME NEW x \in Ctx, NEW c \in Byte
  PROVE  Keeps(x, Written(x, <<c>>))
<1>1. <<c>> \in Seq(Byte)
  OBVIOUS
<1> QED
  BY <1>1, KeepsWritten

LEMMA KeepsAbs ==
  ASSUME NEW x \in Ctx, NEW q \in DOMAIN HTTP_request_abs
  PROVE  Keeps(x, [x EXCEPT !.HTTP_request_abs = q])
  BY DEF Ctx, Keeps, SamePlace, SameHost

LEMMA KeepsTarget ==
  ASSUME NEW x \in Ctx, NEW q \in DOMAIN HTTP_request_target
  PROVE  Keeps(x, [x EXCEPT !.HTTP_request_target = q])
  BY DEF Ctx, Keeps, SamePlace, SameHost

LEMMA KeepsStartLine ==
  ASSUME NEW x \in Ctx, NEW q \in DOMAIN HTTP_start_line
  PROVE  Keeps(x, [x EXCEPT !.HTTP_start_line = q])
  BY DEF Ctx, Keeps, SamePlace, SameHost

LEMMA KeepsUriHost ==
  ASSUME NEW x \in Ctx, NEW c \in Byte
  PROVE  Keeps(x, [x EXCEPT !.uri_host = Append(@, c)])
<1>1. Append(x.uri_host, c) \in Seq(Byte)
  BY DEF Ctx
<1> QED
  BY <1>1 DEF Ctx, Keeps, SamePlace, SameHost

LEMMA KeepsMethod ==
  ASSUME NEW x \in Ctx, NEW e \in BOOLEAN, NEW m \in Matcher, NEW u \in BOOLEAN,
         NEW n \in Nat, x.error => e
  PROVE  Keeps(x, [x EXCEPT !.error = e, !.HTTP_connect = m,
                            !.connect_method_used = u, !.method = n])
  BY DEF Ctx, Keeps, SamePlace, SameHost

LEMMA KeepsMatch ==
  ASSUME NEW x \in Ctx, NEW m \in [Names -> Matcher]
  PROVE  Keeps(x, [x EXCEPT !.match = m])
  BY DEF Ctx, Keeps, SamePlace, SameHost

LEMMA KeepsValue ==
  ASSUME NEW x \in Ctx, NEW v \in [Kept -> Seq(Byte)], x.found.host => v.host = x.value.host
  PROVE  Keeps(x, [x EXCEPT !.value = v])
  BY DEF Ctx, Keeps, SamePlace, SameHost

LEMMA KeepsCount ==
  ASSUME NEW x \in Ctx, NEW n \in Nat, NEW e \in BOOLEAN, x.error => e
  PROVE  Keeps(x, [x EXCEPT !.host_count = n, !.error = e])
  BY DEF Ctx, Keeps, SamePlace, SameHost

LEMMA KeepsLine ==
  ASSUME NEW x \in Ctx, NEW f \in [Names -> BOOLEAN], NEW m \in [Names -> Matcher],
         x.found.host => f.host
  PROVE  Keeps(x, [x EXCEPT !.found = f, !.match = m, !.connection_avoid = FALSE])
  BY DEF Ctx, Keeps, SamePlace, SameHost

LEMMA KeepsConnection ==
  ASSUME NEW x \in Ctx, NEW f \in [Names -> BOOLEAN], NEW m \in Seq(Byte), f.host = x.found.host
  PROVE  Keeps(x, [x EXCEPT !.found = f, !.connection_avoid = TRUE, !.full_message = m])
  BY DEF Ctx, Keeps, SamePlace, SameHost

LEMMA KeepsFinished == ASSUME NEW x \in Ctx PROVE Keeps(x, [x EXCEPT !.has_finished = TRUE])
  BY DEF Ctx, Keeps, SamePlace, SameHost

-----------------------------------------------------------------------------
(* Matchers *)

LEMMA ResetType == ASSUME NEW m \in Matcher PROVE parser_reset(m) \in Matcher
  BY DEF Matcher, parser_reset

LEMMA StrcmpsType ==
  ASSUME NEW m \in Matcher, NEW name \in Seq(Byte), NEW c
  PROVE  strcmps(name, m, c) \in Matcher
  BY DEF Matcher, strcmps, Advance, Failed

LEMMA StrcmpiType ==
  ASSUME NEW m \in Matcher, NEW name \in Seq(Byte), NEW c
  PROVE  strcmpi(name, m, c) \in Matcher
  BY DEF Matcher, strcmpi, Advance, Failed

-----------------------------------------------------------------------------
(* The actions of HTTP_parser.c *)

LEMMA KeepsMethodByte ==
  ASSUME ParserAssumption, NEW x \in Ctx, NEW c \in Byte
  PROVE  Keeps(x, MethodByte(x, c))
<1> DEFINE w == Written(x, <<c>>)
           m == strcmps(CONNECT, x.HTTP_connect, c)
           e == w.error \/ x.method > MethodLimit
           u == w.connect_method_used \/ m.event = "EQ"
<1>1. m \in Matcher
  <2>1. CONNECT \in Seq(Byte \ Marks)
    BY DEF ParserAssumption
  <2>2. CONNECT \in Seq(Byte)
    BY <2>1, SeqMonotonic
  <2> QED
    BY <2>2, StrcmpsType DEF Ctx
<1>2. Keeps(x, w)
  BY KeepsByte
<1>3. w.method + 1 \in Nat
  BY <1>2 DEF Keeps, Ctx
<1>4. Keeps(w, [w EXCEPT !.error = e, !.HTTP_connect = m, !.connect_method_used = u,
                         !.method = w.method + 1])
  <2> e \in BOOLEAN /\ u \in BOOLEAN /\ (w.error => e)
    OBVIOUS
  <2> HIDE DEF m, e, u, w
  <2> QED
    BY <1>1, <1>2, <1>3, KeepsMethod DEF Keeps
<1>5. MethodByte(x, c) = [w EXCEPT !.error = e, !.HTTP_connect = m,
                                   !.connect_method_used = u, !.method = w.method + 1]
  BY DEF MethodByte
<1> HIDE DEF w, m, e, u
<1> QED
  BY <1>2, <1>4, <1>5, KeepsTransitive

LEMMA KeepsNameByte ==
  ASSUME ParserAssumption, NEW x \in Ctx, NEW c \in Byte
  PROVE  Keeps(x, NameByte(x, c))
<1> DEFINE w == Written(x, <<c>>)
           m == [h \in Names |-> strcmpi(HeaderName[h], w.match[h], c)]
<1>1. Keeps(x, w)
  BY KeepsByte
<1>2. m \in [Names -> Matcher]
  <2> SUFFICES ASSUME NEW h \in Names PROVE strcmpi(HeaderName[h], w.match[h], c) \in Matcher
    OBVIOUS
  <2>1. HeaderName[h] \in Seq(Byte)
    BY DEF ParserAssumption
  <2>2. w.match[h] \in Matcher
    BY <1>1 DEF Keeps, Ctx
  <2> QED
    BY <2>1, <2>2, StrcmpiType
<1>3. Keeps(w, [w EXCEPT !.match = m])
  BY <1>1, <1>2, KeepsMatch DEF Keeps
<1>4. NameByte(x, c) = [w EXCEPT !.match = m]
  BY DEF NameByte, Written
<1> HIDE DEF w, m
<1> QED
  BY <1>1, <1>3, <1>4, KeepsTransitive

LEMMA KeepsValueBytes ==
  ASSUME NEW x \in Ctx, NEW bytes \in Seq(Byte)
  PROVE  Keeps(x, ValueBytes(x, bytes))
<1> DEFINE v == [h \in Kept |-> IF Is(x, h) /\ ~x.found[h]
                                THEN x.value[h] \o bytes ELSE x.value[h]]
           y == [x EXCEPT !.value = v]
<1>1. v \in [Kept -> Seq(Byte)]
  BY DEF Ctx
<1>2. x.found.host => v.host = x.value.host
  BY DEF Kept, Names
<1>3. Keeps(x, y)
  <2> HIDE DEF v
  <2> QED
    BY <1>1, <1>2, KeepsValue
<1>4. Keeps(y, Written(y, bytes))
  BY <1>3, KeepsWritten DEF Keeps
<1>5. ValueBytes(x, bytes) = IF Forwarded(x) THEN Written(y, bytes) ELSE y
  BY DEF ValueBytes
<1> HIDE DEF y
<1> QED
  BY <1>3, <1>4, <1>5, KeepsTransitive

LEMMA KeepsColon ==
  ASSUME ParserAssumption, NEW x \in Ctx
  PROVE  Keeps(x, Colon(x))
<1> DEFINE kept == Len(x.full_message) - (Len(HeaderName.connection) + 2)
           m    == SubSeq(x.full_message, 1, kept)
           f    == [x.found EXCEPT !.connection = TRUE]
<1>1. kept \in Int /\ kept <= Len(x.full_message)
  BY DEF Ctx, ParserAssumption, Names
<1>2. m \in Seq(Byte)
  <2> HIDE DEF kept
  <2>1. x.full_message \in Seq(Byte)
    BY DEF Ctx
  <2> QED
    BY <1>1, <2>1
<1>3. f \in [Names -> BOOLEAN] /\ f.host = x.found.host
  BY DEF Ctx, Names
<1>4. CASE Is(x, "connection") /\ ~x.found.connection
  <2>1. Colon(x) = [x EXCEPT !.found = f, !.connection_avoid = TRUE, !.full_message = m]
    BY <1>4 DEF Colon
  <2> HIDE DEF f, m
  <2>2. Keeps(x, [x EXCEPT !.found = f, !.connection_avoid = TRUE, !.full_message = m])
    BY <1>2, <1>3, KeepsConnection
  <2> QED
    BY <2>1, <2>2
<1>5. CASE ~(Is(x, "connection") /\ ~x.found.connection)
  <2> DEFINE w == Written(x, <<"COLON">>)
  <2>1. "COLON" \in Byte
    BY DEF ParserAssumption, Marks
  <2>2. Keeps(x, w)
    BY <2>1, KeepsByte
  <2>3. Keeps(w, [w EXCEPT !.connection_avoid = FALSE])
    BY <2>2 DEF Ctx, Keeps, SamePlace, SameHost
  <2>4. Colon(x) = [w EXCEPT !.connection_avoid = FALSE]
    BY <1>5 DEF Colon
  <2> HIDE DEF w
  <2> QED
    BY <2>2, <2>3, <2>4, KeepsTransitive
<1> QED
  BY <1>4, <1>5

LEMMA KeepsHostOfLine ==
  ASSUME NEW x \in Ctx
  PROVE  Keeps(x, HostOfLine(x))
<1>1. CASE x.uri_has_host /\ ~x.found.host /\ x.value.host # <<>>
  <2> DEFINE w == Written(x, x.uri_host)
             v == [w.value EXCEPT !.host = x.uri_host]
  <2>1. Keeps(x, w)
    BY KeepsWritten DEF Ctx
  <2>2. v \in [Kept -> Seq(Byte)]
    BY <2>1 DEF Keeps, Ctx, Kept, Names
  <2>3. ~w.found.host
    BY <1>1 DEF Written, Ctx
  <2>4. Keeps(w, [w EXCEPT !.value = v])
    <3> HIDE DEF v
    <3> QED
      BY <2>1, <2>2, <2>3, KeepsValue DEF Keeps
  <2>5. HostOfLine(x) = [w EXCEPT !.value = v]
    BY <1>1 DEF HostOfLine
  <2> HIDE DEF w, v
  <2> QED
    BY <2>1, <2>4, <2>5, KeepsTransitive
<1>2. CASE ~(x.uri_has_host /\ ~x.found.host /\ x.value.host # <<>>)
  BY <1>2, KeepsItself DEF HostOfLine
<1> QED
  BY <1>1, <1>2

LEMMA KeepsNewLine ==
  ASSUME ParserAssumption, NEW x \in Ctx
  PROVE  Keeps(x, NewLine(x))
<1> DEFINE count == x.host_count + IF Is(x, "host") THEN 1 ELSE 0
           e == x.error \/ (Is(x, "host") /\ count > 1)
           n == [x EXCEPT !.host_count = count, !.error = e]
           y == HostOfLine(n)
           w == Written(y, <<"CR", "LF">>)
           f == [h \in Names |-> w.found[h] \/ (h \in Kept /\ y.value[h] # <<>>)]
           m == [h \in Names |-> IF h \in Kept \/ ~x.found.connection
                                 THEN parser_reset(w.match[h]) ELSE w.match[h]]
<1>1. count \in Nat
  BY DEF Ctx
<1>2. Keeps(x, n)
  <2> e \in BOOLEAN /\ (x.error => e)
    OBVIOUS
  <2> HIDE DEF count, e
  <2> QED
    BY <1>1, KeepsCount
<1>3. Keeps(n, y)
  BY <1>2, KeepsHostOfLine DEF Keeps
<1>4. <<"CR", "LF">> \in Seq(Byte)
  BY DEF ParserAssumption, Marks
<1>5. Keeps(y, w)
  <2> HIDE DEF y
  <2> QED
    BY <1>3, <1>4, KeepsWritten DEF Keeps
<1>6. f \in [Names -> BOOLEAN] /\ (w.found.host => f.host)
  BY DEF Names
<1>7. m \in [Names -> Matcher]
  <2> SUFFICES ASSUME NEW h \in Names
               PROVE  w.match[h] \in Matcher /\ parser_reset(w.match[h]) \in Matcher
    OBVIOUS
  <2> HIDE DEF w
  <2>1. w.match[h] \in Matcher
    BY <1>5 DEF Keeps, Ctx
  <2> QED
    BY <2>1, ResetType
<1>8. Keeps(w, [w EXCEPT !.found = f, !.match = m, !.connection_avoid = FALSE])
  <2> HIDE DEF w, f, m
  <2> QED
    BY <1>5, <1>6, <1>7, KeepsLine DEF Keeps
<1>9. NewLine(x) = [w EXCEPT !.found = f, !.match = m, !.connection_avoid = FALSE]
  BY DEF NewLine
<1> HIDE DEF n, y, w, f, m
<1> QED
  BY <1>2, <1>3, <1>5, <1>8, <1>9, KeepsTransitive

LEMMA KeepsDataByte ==
  ASSUME NEW x \in Ctx, NEW c \in Byte
  PROVE  Keeps(x, DataByte(x, c))
<1> DEFINE w == Written(x, <<c>>)
<1>1. Keeps(x, w)
  BY KeepsByte
<1>2. Append(w.message, c) \in Seq(Byte)
  <2> HIDE DEF w
  <2>1. w.message \in Seq(Byte)
    BY <1>1 DEF Keeps, Ctx
  <2> QED
    BY <2>1, AppendProperties
<1>3. Keeps(w, [w EXCEPT !.has_finished = TRUE, !.message = Append(w.message, c)])
  <2> HIDE DEF w
  <2> QED
    BY <1>1, <1>2 DEF Ctx, Keeps, SamePlace, SameHost
<1>4. DataByte(x, c) = [w EXCEPT !.has_finished = TRUE, !.message = Append(w.message, c)]
  BY DEF DataByte
<1> HIDE DEF w
<1> QED
  BY <1>1, <1>3, <1>4, KeepsTransitive

-----------------------------------------------------------------------------
(* The tables: no transition leads out of them *)

\* Every transition of the automaton of the message leads to one of its states.
LEMMA MasterStates ==
  ASSUME NEW q \in DOMAIN HTTP_master, NEW c
  PROVE  LET t == parser_feed(HTTP_master[q], c)
         IN  t.dest \in DOMAIN HTTP_master
<1>0. DOMAIN HTTP_master =
       {"START_LINE", "START_LINE_CR", "HEADER_NEW_LINE", "HEADER",
        "HEADER_CR", "HEADER_CR_FIN", "DATA_NEW_LINE", "DATA", "DATA_CR",
        "DATA_CR_FIN", "FIN", "ERROR"}
  BY DEF HTTP_master
<1>1. CASE q = "START_LINE"
  BY <1>0, <1>1 DEF HTTP_master, parser_feed, To
<1>2. CASE q = "START_LINE_CR"
  BY <1>0, <1>2 DEF HTTP_master, parser_feed, To
<1>3. CASE q = "HEADER_NEW_LINE"
  BY <1>0, <1>3 DEF HTTP_master, parser_feed, To
<1>4. CASE q = "HEADER"
  BY <1>0, <1>4 DEF HTTP_master, parser_feed, To
<1>5. CASE q = "HEADER_CR"
  BY <1>0, <1>5 DEF HTTP_master, parser_feed, To
<1>6. CASE q = "HEADER_CR_FIN"
  BY <1>0, <1>6 DEF HTTP_master, parser_feed, To
<1>7. CASE q = "DATA_NEW_LINE"
  BY <1>0, <1>7 DEF HTTP_master, parser_feed, To
<1>8. CASE q = "DATA"
  BY <1>0, <1>8 DEF HTTP_master, parser_feed, To
<1>9. CASE q = "DATA_CR"
  BY <1>0, <1>9 DEF HTTP_master, parser_feed, To
<1>10. CASE q = "DATA_CR_FIN"
  BY <1>0, <1>10 DEF HTTP_master, parser_feed, To
<1>11. CASE q = "FIN"
  BY <1>0, <1>11 DEF HTTP_master, parser_feed, To
<1>12. CASE q = "ERROR"
  BY <1>0, <1>12 DEF HTTP_master, parser_feed, To
<1> QED
  BY <1>0, <1>1, <1>2, <1>3, <1>4, <1>5, <1>6, <1>7, <1>8, <1>9, <1>10, <1>11, <1>12

\* Every transition of the automaton of the start line leads to one of its states.
LEMMA StartLineStates ==
  ASSUME NEW q \in DOMAIN HTTP_start_line, NEW c
  PROVE  LET t == parser_feed(HTTP_start_line[q], c)
         IN  t.dest \in DOMAIN HTTP_start_line
<1>0. DOMAIN HTTP_start_line =
       {"METHOD", "REQUEST_TARGET", "VERSION", "MAY_FIN", "CR", "FIN",
        "ERROR"}
  BY DEF HTTP_start_line
<1>1. CASE q = "METHOD"
  BY <1>0, <1>1 DEF HTTP_start_line, parser_feed, To
<1>2. CASE q = "REQUEST_TARGET"
  BY <1>0, <1>2 DEF HTTP_start_line, parser_feed, To
<1>3. CASE q = "VERSION"
  BY <1>0, <1>3 DEF HTTP_start_line, parser_feed, To
<1>4. CASE q = "MAY_FIN"
  BY <1>0, <1>4 DEF HTTP_start_line, parser_feed, To
<1>5. CASE q = "CR"
  BY <1>0, <1>5 DEF HTTP_start_line, parser_feed, To
<1>6. CASE q = "FIN"
  BY <1>0, <1>6 DEF HTTP_start_line, parser_feed, To
<1>7. CASE q = "ERROR"
  BY <1>0, <1>7 DEF HTTP_start_line, parser_feed, To
<1> QED
  BY <1>0, <1>1, <1>2, <1>3, <1>4, <1>5, <1>6, <1>7

\* Every transition of the automaton of the target leads to one of its states.
LEMMA TargetStates ==
  ASSUME NEW q \in DOMAIN HTTP_request_target, NEW c
  PROVE  LET t == parser_feed(HTTP_request_target[q], c)
         IN  t.dest \in DOMAIN HTTP_request_target
<1>0. DOMAIN HTTP_request_target =
       {"START", "URI", "IS_ASTERISK", "FIN", "ERROR"}
  BY DEF HTTP_request_target
<1>1. CASE q = "START"
  BY <1>0, <1>1 DEF HTTP_request_target, parser_feed, To
<1>2. CASE q = "URI"
  BY <1>0, <1>2 DEF HTTP_request_target, parser_feed, To
<1>3. CASE q = "IS_ASTERISK"
  BY <1>0, <1>3 DEF HTTP_request_target, parser_feed, To
<1>4. CASE q = "FIN"
  BY <1>0, <1>4 DEF HTTP_request_target, parser_feed, To
<1>5. CASE q = "ERROR"
  BY <1>0, <1>5 DEF HTTP_request_target, parser_feed, To
<1> QED
  BY <1>0, <1>1, <1>2, <1>3, <1>4, <1>5

\* Every transition of the automaton of an absolute target leads to one of its states.
LEMMA AbsStates ==
  ASSUME NEW q \in DOMAIN HTTP_request_abs, NEW c
  PROVE  LET t == parser_feed(HTTP_request_abs[q], c)
         IN  t.dest \in DOMAIN HTTP_request_abs
<1>0. DOMAIN HTTP_request_abs =
       {"SCHEME_FIRST", "SCHEME", "MAY_HOST1", "MAY_HOST2", "HOST", "GUION",
        "REST", "FIN", "ERROR"}
  BY DEF HTTP_request_abs
<1>1. CASE q = "SCHEME_FIRST"
  BY <1>0, <1>1 DEF HTTP_request_abs, parser_feed, To
<1>2. CASE q = "SCHEME"
  BY <1>0, <1>2 DEF HTTP_request_abs, parser_feed, To
<1>3. CASE q = "MAY_HOST1"
  BY <1>0, <1>3 DEF HTTP_request_abs, parser_feed, To
<1>4. CASE q = "MAY_HOST2"
  BY <1>0, <1>4 DEF HTTP_request_abs, parser_feed, To
<1>5. CASE q = "HOST"
  BY <1>0, <1>5 DEF HTTP_request_abs, parser_feed, To
<1>6. CASE q = "GUION"
  BY <1>0, <1>6 DEF HTTP_request_abs, parser_feed, To
<1>7. CASE q = "REST"
  BY <1>0, <1>7 DEF HTTP_request_abs, parser_feed, To
<1>8. CASE q = "FIN"
  BY <1>0, <1>8 DEF HTTP_request_abs, parser_feed, To
<1>9. CASE q = "ERROR"
  BY <1>0, <1>9 DEF HTTP_request_abs, parser_feed, To
<1> QED
  BY <1>0, <1>1, <1>2, <1>3, <1>4, <1>5, <1>6, <1>7, <1>8, <1>9

\* Every transition of the automaton of the header leads to one of its states,
\* with an action the handler knows.
LEMMA HeaderStates ==
  ASSUME NEW q \in DOMAIN HTTP_header, NEW c
  PROVE  LET t == parser_feed(HTTP_header[q], c)
         IN  /\ t.dest \in DOMAIN HTTP_header
             /\ t.acts \in
                    {"error", "byte_fn", "cr_fn", "byte_fv", "cr_fv", "cr_fn_byte_fv",
                     "cr_fv_byte_fv", "wait_colon", "byte_nl", "fin", "wait"}
<1>0. DOMAIN HTTP_header =
       {"NEW_LINE", "FIELD_NAME", "COLON", "OWS", "FIELD_VALUE",
        "CR_FIELD_NAME", "CR_FIELD_VALUE", "CR_FIN", "FIN", "ERROR"}
  BY DEF HTTP_header
<1>1. CASE q = "NEW_LINE"
  BY <1>0, <1>1 DEF HTTP_header, ST_OWS, ST_CR_FIELD_VALUE, parser_feed, To
<1>2. CASE q = "FIELD_NAME"
  BY <1>0, <1>2 DEF HTTP_header, ST_OWS, ST_CR_FIELD_VALUE, parser_feed, To
<1>3. CASE q = "COLON"
  BY <1>0, <1>3 DEF HTTP_header, ST_OWS, ST_CR_FIELD_VALUE, parser_feed, To
<1>4. CASE q = "OWS"
  BY <1>0, <1>4 DEF HTTP_header, ST_OWS, ST_CR_FIELD_VALUE, parser_feed, To
<1>5. CASE q = "FIELD_VALUE"
  BY <1>0, <1>5 DEF HTTP_header, ST_OWS, ST_CR_FIELD_VALUE, parser_feed, To
<1>6. CASE q = "CR_FIELD_NAME"
  BY <1>0, <1>6 DEF HTTP_header, ST_OWS, ST_CR_FIELD_VALUE, parser_feed, To
<1>7. CASE q = "CR_FIELD_VALUE"
  BY <1>0, <1>7 DEF HTTP_header, ST_OWS, ST_CR_FIELD_VALUE, parser_feed, To
<1>8. CASE q = "CR_FIN"
  BY <1>0, <1>8 DEF HTTP_header, ST_OWS, ST_CR_FIELD_VALUE, parser_feed, To
<1>9. CASE q = "FIN"
  BY <1>0, <1>9 DEF HTTP_header, ST_OWS, ST_CR_FIELD_VALUE, parser_feed, To
<1>10. CASE q = "ERROR"
  BY <1>0, <1>10 DEF HTTP_header, ST_OWS, ST_CR_FIELD_VALUE, parser_feed, To
<1> QED
  BY <1>0, <1>1, <1>2, <1>3, <1>4, <1>5, <1>6, <1>7, <1>8, <1>9, <1>10
-----------------------------------------------------------------------------
(* The handlers, each of which feeds its automaton and acts on its event *)

LEMMA KeepsAbsParser ==
  ASSUME NEW x \in Ctx, NEW c \in Byte
  PROVE  Keeps(x, http_abs_parser(x, c))
<1> DEFINE t == parser_feed(HTTP_request_abs[x.HTTP_request_abs], c)
           y == [x EXCEPT !.HTTP_request_abs = t.dest]
<1>1. Keeps(x, y)
  <2>1. t.dest \in DOMAIN HTTP_request_abs
    BY AbsStates DEF Ctx
  <2> HIDE DEF t
  <2> QED
    BY <2>1, KeepsAbs
<1>2. y \in Ctx
  BY <1>1 DEF Keeps
<1>3. Keeps(y, Error(y)) /\ Keeps(y, [y EXCEPT !.uri_host = Append(@, c)]) /\ Keeps(y, y)
  <2> HIDE DEF y
  <2> QED
    BY <1>2, KeepsError, KeepsUriHost, KeepsItself
<1>4. Keeps(y, [y EXCEPT !.uri_has_host = @ \/ x.uri_host # <<>>])
  <2> HIDE DEF y
  <2> QED
    BY <1>2 DEF Ctx, Keeps, SamePlace, SameHost
<1>5. http_abs_parser(x, c) =
        CASE t.acts = "error"     -> Error(y)
          [] t.acts = "byte_host" -> [y EXCEPT !.uri_host = Append(@, c)]
          [] t.acts = "fin"       -> [y EXCEPT !.uri_has_host = @ \/ x.uri_host # <<>>]
          [] OTHER                -> y
  BY DEF http_abs_parser
<1>6. Keeps(y, http_abs_parser(x, c))
  <2> HIDE DEF t, y
  <2> QED
    BY <1>3, <1>4, <1>5
<1> QED
  <2> HIDE DEF t, y
  <2> QED
    BY <1>1, <1>6, KeepsTransitive

LEMMA KeepsRequestTarget ==
  ASSUME ParserAssumption, NEW x \in Ctx, NEW c \in Byte
  PROVE  Keeps(x, http_request_target(x, c))
<1> DEFINE t == parser_feed(HTTP_request_target[x.HTTP_request_target], c)
           y == [x EXCEPT !.HTTP_request_target = t.dest]
<1>1. Keeps(x, y)
  <2>1. t.dest \in DOMAIN HTTP_request_target
    BY TargetStates DEF Ctx
  <2> HIDE DEF t
  <2> QED
    BY <2>1, KeepsTarget
<1>2. y \in Ctx
  BY <1>1 DEF Keeps
<1>3. "STAR" \in Byte /\ "SP" \in Byte
  BY DEF ParserAssumption, Marks
<1>4. http_request_target(x, c) =
        CASE t.acts = "error"       -> Error(y)
          [] t.acts = "may_abs"     -> http_abs_parser(Written(y, <<c>>), c)
          [] t.acts = "is_asterisk" -> Written(y, <<"STAR">>)
          [] t.acts = "fin"         -> http_abs_parser(y, "SP")
          [] OTHER                  -> y
  BY DEF http_request_target
<1> HIDE DEF t, y
<1>5. Keeps(y, Error(y)) /\ Keeps(y, y) /\ Keeps(y, Written(y, <<"STAR">>))
  BY <1>2, <1>3, KeepsError, KeepsByte, KeepsItself
<1>6. Keeps(y, http_abs_parser(y, "SP"))
  BY <1>2, <1>3, KeepsAbsParser
<1>7. Keeps(y, http_abs_parser(Written(y, <<c>>), c))
  <2>1. Keeps(y, Written(y, <<c>>))
    BY <1>2, KeepsByte
  <2>2. Keeps(Written(y, <<c>>), http_abs_parser(Written(y, <<c>>), c))
    BY <2>1, KeepsAbsParser DEF Keeps
  <2> QED
    BY <2>1, <2>2, KeepsTransitive
<1>8. Keeps(y, http_request_target(x, c))
  BY <1>4, <1>5, <1>6, <1>7
<1> QED
  BY <1>1, <1>8, KeepsTransitive

LEMMA KeepsTargetByte ==
  ASSUME ParserAssumption, NEW x \in Ctx, NEW c \in Byte
  PROVE  Keeps(x, TargetByte(x, c))
<1> DEFINE y == [x EXCEPT !.error = @ \/ Len(x.uri_host) > UriLimit]
           w == Written(y, <<c>>)
<1>1. Keeps(x, y)
  BY DEF Ctx, Keeps, SamePlace, SameHost
<1>2. y \in Ctx
  BY <1>1 DEF Keeps
<1>3. TargetByte(x, c) = IF x.connect_method_used
                         THEN [w EXCEPT !.uri_host = Append(@, c)]
                         ELSE http_request_target(y, c)
  BY DEF TargetByte
<1> HIDE DEF y
<1>4. Keeps(y, w)
  BY <1>2, KeepsByte
<1>5. w \in Ctx
  BY <1>4 DEF Keeps
<1> HIDE DEF w
<1>6. Keeps(w, [w EXCEPT !.uri_host = Append(@, c)])
  BY <1>5, KeepsUriHost
<1>7. Keeps(y, http_request_target(y, c))
  BY <1>2, KeepsRequestTarget
<1> QED
  BY <1>1, <1>3, <1>4, <1>6, <1>7, KeepsTransitive

LEMMA KeepsStartLineByte ==
  ASSUME ParserAssumption, NEW x \in Ctx, NEW c \in Byte
  PROVE  Keeps(x, http_start_line(x, c))
<1> DEFINE t == parser_feed(HTTP_start_line[x.HTTP_start_line], c)
           y == [x EXCEPT !.HTTP_start_line = t.dest]
           s == IF y.connect_method_used THEN y ELSE http_request_target(y, "SP")
<1>1. Keeps(x, y)
  <2>1. t.dest \in DOMAIN HTTP_start_line
    BY StartLineStates DEF Ctx
  <2> HIDE DEF t
  <2> QED
    BY <2>1, KeepsStartLine
<1>2. y \in Ctx
  BY <1>1 DEF Keeps
<1>3. "SP" \in Byte
  BY DEF ParserAssumption, Marks
<1>4. http_start_line(x, c) =
        CASE t.acts = "byte_method"  -> MethodByte(y, c)
          [] t.acts = "byte_target"  -> TargetByte(y, c)
          [] t.acts = "byte_version" -> Written(y, <<c>>)
          [] t.acts = "wait_space1"  -> Written(y, <<"SP">>)
          [] t.acts = "wait_space2"  -> Written(s, <<"SP">>)
          [] OTHER                   -> y
  BY DEF http_start_line
<1> HIDE DEF t, y
<1>5. Keeps(y, MethodByte(y, c)) /\ Keeps(y, TargetByte(y, c))
  BY <1>2, KeepsMethodByte, KeepsTargetByte
<1>6. Keeps(y, Written(y, <<c>>)) /\ Keeps(y, Written(y, <<"SP">>)) /\ Keeps(y, y)
  BY <1>2, <1>3, KeepsByte, KeepsItself
<1>7. Keeps(y, Written(s, <<"SP">>))
  <2>1. Keeps(y, s)
    BY <1>2, <1>3, <1>6, KeepsRequestTarget
  <2>2. s \in Ctx
    BY <2>1 DEF Keeps
  <2> HIDE DEF s
  <2>3. Keeps(s, Written(s, <<"SP">>))
    BY <2>2, <1>3, KeepsByte
  <2> QED
    BY <2>1, <2>3, KeepsTransitive
<1> HIDE DEF s
<1>8. Keeps(y, http_start_line(x, c))
  BY <1>4, <1>5, <1>6, <1>7
<1> QED
  BY <1>1, <1>8, KeepsTransitive

\* A byte of the header moves its automaton, and nothing but that.
LEMMA HeaderByte ==
  ASSUME ParserAssumption, NEW x \in Ctx, NEW c \in Byte
  PROVE  LET t == parser_feed(HTTP_header[x.HTTP_header], c)
             z == http_header(x, c)
         IN  /\ z \in Ctx
             /\ z.HTTP_master = x.HTTP_master
             /\ z.HTTP_header = t.dest
             /\ SameHost(x, z)
             /\ t.acts = "error" \/ x.error => z.error
<1> DEFINE t == parser_feed(HTTP_header[x.HTTP_header], c)
           y == [x EXCEPT !.HTTP_header = t.dest]
           z == http_header(x, c)
           n == NameByte(y, "CR")
<1>1. /\ t.dest \in DOMAIN HTTP_header
      /\ t.acts \in {"error", "byte_fn", "cr_fn", "byte_fv", "cr_fv", "cr_fn_byte_fv",
                     "cr_fv_byte_fv", "wait_colon", "byte_nl", "fin", "wait"}
  BY HeaderStates DEF Ctx
<1>2. /\ y \in Ctx /\ y.HTTP_master = x.HTTP_master /\ y.HTTP_header = t.dest
      /\ SameHost(x, y) /\ (x.error => y.error)
  <2> HIDE DEF t
  <2> QED
    BY <1>1 DEF Ctx, SameHost
<1>3. "CR" \in Byte /\ "LF" \in Byte
  BY DEF ParserAssumption, Marks
<1>4. <<c>> \in Seq(Byte) /\ <<"CR">> \in Seq(Byte) /\ <<"CR", c>> \in Seq(Byte)
        /\ <<"CR", "LF">> \in Seq(Byte)
  BY <1>3
<1>5. z = CASE t.acts = "error"         -> Error(y)
            [] t.acts = "byte_fn"       -> NameByte(y, c)
            [] t.acts = "cr_fn"         -> n
            [] t.acts = "byte_fv"       -> ValueBytes(y, <<c>>)
            [] t.acts = "cr_fv"         -> ValueBytes(y, <<"CR">>)
            [] t.acts = "cr_fn_byte_fv" -> ValueBytes(n, <<c>>)
            [] t.acts = "cr_fv_byte_fv" -> ValueBytes(y, <<"CR", c>>)
            [] t.acts = "wait_colon"    -> Colon(y)
            [] t.acts = "byte_nl"       -> NewLine(y)
            [] t.acts = "fin"           -> Written(y, <<"CR", "LF">>)
            [] t.acts = "wait"          -> y
  BY DEF http_header
<1> HIDE DEF t, y, z
<1>6. Keeps(y, NameByte(y, c)) /\ Keeps(y, n)
  BY <1>2, <1>3, KeepsNameByte
<1>7. Keeps(y, ValueBytes(n, <<c>>))
  <2> HIDE DEF n
  <2>1. Keeps(n, ValueBytes(n, <<c>>))
    BY <1>4, <1>6, KeepsValueBytes DEF Keeps
  <2> QED
    BY <1>6, <2>1, KeepsTransitive
<1>8. Keeps(y, ValueBytes(y, <<c>>)) /\ Keeps(y, ValueBytes(y, <<"CR">>))
        /\ Keeps(y, ValueBytes(y, <<"CR", c>>))
  BY <1>2, <1>4, KeepsValueBytes
<1>9. Keeps(y, Colon(y)) /\ Keeps(y, NewLine(y)) /\ Keeps(y, Written(y, <<"CR", "LF">>))
  BY <1>2, <1>4, KeepsColon, KeepsNewLine, KeepsWritten
<1>10. Keeps(y, y) /\ Keeps(y, Error(y)) /\ Error(y).error
  BY <1>2, KeepsItself, KeepsError
<1> HIDE DEF n
<1>11. Keeps(y, z) /\ (t.acts = "error" => z.error)
  BY <1>1, <1>5, <1>6, <1>7, <1>8, <1>9, <1>10
<1>12. z \in Ctx /\ z.HTTP_master = x.HTTP_master /\ z.HTTP_header = t.dest
       /\ SameHost(x, z) /\ (t.acts = "error" \/ x.error => z.error)
  BY <1>2, <1>11 DEF Keeps, SamePlace, SameHost
<1> QED
  BY <1>12 DEF t, z
\* A byte of a message moves the automaton of the message and, when it is one of
\* the header of a request, that of the header.
LEMMA MasterByte ==
  ASSUME ParserAssumption, side \in {"request", "response"}, NEW x \in Ctx, NEW c \in Byte
  PROVE  LET t == parser_feed(HTTP_master[x.HTTP_master], c)
             u == parser_feed(HTTP_header[x.HTTP_header], c)
             z == http_master(x, c)
         IN  /\ z \in Ctx
             /\ SameHost(x, z)
             /\ x.error => z.error
             /\ side = "request" /\ ~x.error =>
                  /\ z.HTTP_master = t.dest
                  /\ t.acts = "header" => z.HTTP_header = u.dest /\ (u.acts = "error" => z.error)
                  /\ t.acts # "header" => z.HTTP_header = x.HTTP_header
<1> DEFINE t == parser_feed(HTTP_master[x.HTTP_master], c)
           u == parser_feed(HTTP_header[x.HTTP_header], c)
           y == [x EXCEPT !.HTTP_master = t.dest]
           z == http_master(x, c)
<1>1. t.dest \in DOMAIN HTTP_master /\ "START_LINE" \in DOMAIN HTTP_master
  <2>1. t.dest \in DOMAIN HTTP_master
    BY MasterStates DEF Ctx
  <2>2. "START_LINE" \in DOMAIN HTTP_master
    BY DEF HTTP_master
  <2> QED
    BY <2>1, <2>2
<1>2. /\ y \in Ctx /\ y.HTTP_master = t.dest /\ y.HTTP_header = x.HTTP_header
      /\ y.error = x.error /\ SameHost(x, y)
  <2> HIDE DEF t
  <2> QED
    BY <1>1 DEF Ctx, SameHost
<1>3. z =
        IF x.error THEN y
        ELSE CASE t.acts = "start_line" ->
                    IF side = "request" THEN http_start_line(y, c) ELSE Written(y, <<c>>)
               [] t.acts = "header"     -> http_header(y, c)
               [] t.acts = "data"       -> DataByte(y, c)
               [] t.acts = "fin"        ->
                    IF side = "request" THEN [y EXCEPT !.has_finished = TRUE]
                                        ELSE [y EXCEPT !.HTTP_master = "START_LINE"]
               [] OTHER                 -> y
  BY DEF http_master
<1> HIDE DEF t, y, z
<1>4. CASE x.error
  <2>1. z = y
    BY <1>3, <1>4
  <2> QED
    BY <1>2, <1>4, <2>1 DEF t, u, z
<1>5. CASE ~x.error /\ t.acts = "header"
  <2>1. z = http_header(y, c)
    BY <1>3, <1>5
  <2>2. /\ z \in Ctx /\ z.HTTP_master = y.HTTP_master /\ SameHost(y, z)
        /\ z.HTTP_header = parser_feed(HTTP_header[y.HTTP_header], c).dest
        /\ parser_feed(HTTP_header[y.HTTP_header], c).acts = "error" => z.error
    BY <1>2, <2>1, HeaderByte
  <2>3. u = parser_feed(HTTP_header[y.HTTP_header], c)
    BY <1>2
  <2> HIDE DEF u
  <2>4. z.HTTP_header = u.dest /\ (u.acts = "error" => z.error)
    BY <2>2, <2>3
  <2>5. z \in Ctx /\ SameHost(x, z) /\ z.HTTP_master = t.dest
    BY <1>2, <2>2 DEF SameHost
  <2> QED
    BY <1>5, <2>4, <2>5 DEF t, u, z
<1>6. CASE ~x.error /\ t.acts = "fin" /\ side = "response"
  <2>1. z = [y EXCEPT !.HTTP_master = "START_LINE"]
    BY <1>3, <1>6
  <2>2. z \in Ctx /\ SameHost(x, z)
    BY <1>1, <1>2, <2>1 DEF Ctx, SameHost
  <2> QED
    BY <1>6, <2>2 DEF z
<1>7. CASE ~x.error /\ t.acts # "header" /\ ~(t.acts = "fin" /\ side = "response")
  <2>1. Keeps(y, http_start_line(y, c)) /\ Keeps(y, Written(y, <<c>>))
          /\ Keeps(y, DataByte(y, c)) /\ Keeps(y, y)
          /\ Keeps(y, [y EXCEPT !.has_finished = TRUE])
    BY <1>2, KeepsStartLineByte, KeepsByte, KeepsDataByte, KeepsItself, KeepsFinished
  <2>2. Keeps(y, z)
    BY <1>3, <1>7, <2>1
  <2>3. z \in Ctx /\ SameHost(x, z) /\ z.HTTP_master = t.dest /\ z.HTTP_header = x.HTTP_header
    BY <1>2, <2>2 DEF Keeps, SamePlace, SameHost
  <2> QED
    BY <1>7, <2>3 DEF t, z
<1> QED
  BY <1>4, <1>5, <1>6, <1>7

-----------------------------------------------------------------------------
(* Types *)

LEMMA TypeStep == ParserAssumption /\ TypeOK /\ [Next]_vars => TypeOK'
<1> SUFFICES ASSUME ParserAssumption, TypeOK, [Next]_vars PROVE TypeOK'
  OBVIOUS
<1>1. CASE Read
  <2>1. pending' \in Seq(Byte)
    BY <1>1 DEF Read, TypeOK, ParserAssumption
  <2>2. reads' \in 0 .. MaxReads
    BY <1>1 DEF Read, TypeOK, ParserAssumption
  <2> QED
    BY <1>1, <2>1, <2>2 DEF Read, TypeOK
<1>2. CASE Parse
  <2>1. Head(pending) \in Byte /\ Tail(pending) \in Seq(Byte)
    BY <1>2, HeadTailProperties DEF Parse, TypeOK
  <2>2. ctx' \in Ctx
    BY <1>2, <2>1, MasterByte DEF Parse, TypeOK
  <2>3. received' \in Seq(Byte)
    BY <1>2, <2>1 DEF Parse, TypeOK
  <2> QED
    BY <1>2, <2>1, <2>2, <2>3 DEF Parse, TypeOK
<1>3. CASE UNCHANGED vars
  BY <1>3 DEF vars, TypeOK
<1> QED
  BY <1>1, <1>2, <1>3 DEF Next

LEMMA InitialContext ==
  initCtx \in Ctx /\ initCtxResponse \in Ctx /\ Agree(initCtx.HTTP_master, initCtx.HTTP_header)
<1>1. "START_LINE" \in DOMAIN HTTP_master /\ "NEW_LINE" \in DOMAIN HTTP_header
  BY DEF HTTP_master, HTTP_header
<1>2. /\ "METHOD" \in DOMAIN HTTP_start_line /\ "START" \in DOMAIN HTTP_request_target
      /\ "SCHEME_FIRST" \in DOMAIN HTTP_request_abs
  BY DEF HTTP_start_line, HTTP_request_target, HTTP_request_abs
<1>3. NewMatcher \in Matcher
  BY DEF NewMatcher, Matcher
<1>4. initCtx \in Ctx
  BY <1>1, <1>2, <1>3 DEF initCtx, Ctx
<1>5. initCtxResponse \in Ctx
  BY <1>4 DEF initCtxResponse, Ctx
<1>6. Agree(initCtx.HTTP_master, initCtx.HTTP_header)
  BY DEF initCtx, Agree
<1> QED
  BY <1>4, <1>5, <1>6

\* Whatever is received, no automaton is ever in a state without a row and no
\* matcher reads past the name it knows (states[] of each automaton, parser_feed).
THEOREM ParserTypeCorrect == Spec => []TypeOK
<1>1. Init => TypeOK
  BY InitialContext, ParserAssumption DEF Init, TypeOK, ParserAssumption
<1>2. TypeOK /\ [Next]_vars => TypeOK'
  BY TypeStep, ParserAssumption
<1> QED
  BY <1>1, <1>2, PTL DEF Spec

-----------------------------------------------------------------------------
(* The two automata *)

\* How each automaton sees the end of a line.
LEMMA LinesOfMaster ==
  ASSUME NEW q \in {"HEADER_NEW_LINE", "HEADER", "HEADER_CR", "HEADER_CR_FIN"}, NEW c
  PROVE  LET t == parser_feed(HTTP_master[q], c)
         IN  /\ t.acts = "header"
             /\ t.dest =
                  IF c = "CR" THEN IF q = "HEADER_NEW_LINE" THEN "HEADER_CR_FIN" ELSE "HEADER_CR"
                  ELSE IF c = "LF" /\ q = "HEADER_CR" THEN "HEADER_NEW_LINE"
                  ELSE IF c = "LF" /\ q = "HEADER_CR_FIN" THEN "DATA_NEW_LINE"
                  ELSE "HEADER"
<1>1. CASE q = "HEADER_NEW_LINE"
  BY <1>1 DEF HTTP_master, parser_feed, To
<1>2. CASE q = "HEADER"
  BY <1>2 DEF HTTP_master, parser_feed, To
<1>3. CASE q = "HEADER_CR"
  BY <1>3 DEF HTTP_master, parser_feed, To
<1>4. CASE q = "HEADER_CR_FIN"
  BY <1>4 DEF HTTP_master, parser_feed, To
<1> QED
  BY <1>1, <1>2, <1>3, <1>4

LEMMA LinesOfHeader ==
  ASSUME NEW h \in {"NEW_LINE", "FIELD_NAME", "COLON", "OWS", "FIELD_VALUE",
                    "CR_FIELD_NAME", "CR_FIELD_VALUE", "CR_FIN"}, NEW c,
         parser_feed(HTTP_header[h], c).acts # "error"
  PROVE  parser_feed(HTTP_header[h], c).dest \in
           IF c = "CR" THEN IF h = "NEW_LINE" THEN {"CR_FIN"}
                                              ELSE {"CR_FIELD_NAME", "CR_FIELD_VALUE"}
           ELSE IF c = "LF" /\ h \in {"CR_FIELD_NAME", "CR_FIELD_VALUE"} THEN {"NEW_LINE"}
           ELSE IF c = "LF" /\ h = "CR_FIN" THEN {"FIN"}
           ELSE {"FIELD_NAME", "COLON", "OWS", "FIELD_VALUE"}
<1>1. CASE h = "NEW_LINE"
  BY <1>1 DEF HTTP_header, parser_feed, To
<1>2. CASE h = "FIELD_NAME"
  BY <1>2 DEF HTTP_header, parser_feed, To
<1>3. CASE h = "COLON"
  BY <1>3 DEF HTTP_header, parser_feed, To
<1>4. CASE h = "OWS"
  BY <1>4 DEF HTTP_header, ST_OWS, parser_feed, To
<1>5. CASE h = "FIELD_VALUE"
  BY <1>5 DEF HTTP_header, parser_feed, To
<1>6. CASE h = "CR_FIELD_NAME"
  BY <1>6 DEF HTTP_header, parser_feed, To
<1>7. CASE h = "CR_FIELD_VALUE"
  BY <1>7 DEF HTTP_header, ST_CR_FIELD_VALUE, parser_feed, To
<1>8. CASE h = "CR_FIN"
  BY <1>8 DEF HTTP_header, parser_feed, To
<1> QED
  BY <1>1, <1>2, <1>3, <1>4, <1>5, <1>6, <1>7, <1>8

\* Outside the header the automaton of the message stays in the start line up to
\* its end, or in the body.
LEMMA LinesElsewhere ==
  ASSUME NEW q \in {"START_LINE", "START_LINE_CR"} \cup BodyStates \cup {"FIN", "ERROR"}, NEW c
  PROVE  LET t == parser_feed(HTTP_master[q], c)
         IN  /\ t.acts # "header"
             /\ t.dest \in IF q \in {"START_LINE", "START_LINE_CR"}
                           THEN {"START_LINE", "START_LINE_CR", "HEADER_NEW_LINE"}
                           ELSE BodyStates \cup {"FIN", "ERROR"}
<1>1. CASE q = "START_LINE"
  BY <1>1 DEF BodyStates, HTTP_master, parser_feed, To
<1>2. CASE q = "START_LINE_CR"
  BY <1>2 DEF BodyStates, HTTP_master, parser_feed, To
<1>3. CASE q = "DATA_NEW_LINE"
  BY <1>3 DEF BodyStates, HTTP_master, parser_feed, To
<1>4. CASE q = "DATA"
  BY <1>4 DEF BodyStates, HTTP_master, parser_feed, To
<1>5. CASE q = "DATA_CR"
  BY <1>5 DEF BodyStates, HTTP_master, parser_feed, To
<1>6. CASE q = "DATA_CR_FIN"
  BY <1>6 DEF BodyStates, HTTP_master, parser_feed, To
<1>7. CASE q = "FIN"
  BY <1>7 DEF BodyStates, HTTP_master, parser_feed, To
<1>8. CASE q = "ERROR"
  BY <1>8 DEF BodyStates, HTTP_master, parser_feed, To
<1> QED
  BY <1>1, <1>2, <1>3, <1>4, <1>5, <1>6, <1>7, <1>8 DEF BodyStates

\* In the states where both can be, a byte of the header takes them to such a
\* pair again, or is an error of the header.
LEMMA AgreeInHeader ==
  ASSUME NEW q, NEW h, NEW c, Agree(q, h), parser_feed(HTTP_master[q], c).acts = "header",
         parser_feed(HTTP_header[h], c).acts # "error"
  PROVE  Agree(parser_feed(HTTP_master[q], c).dest, parser_feed(HTTP_header[h], c).dest)
<1>1. q \in {"HEADER_NEW_LINE", "HEADER", "HEADER_CR", "HEADER_CR_FIN"}
  BY LinesElsewhere DEF Agree
<1>2. h \in {"NEW_LINE", "FIELD_NAME", "COLON", "OWS", "FIELD_VALUE",
             "CR_FIELD_NAME", "CR_FIELD_VALUE", "CR_FIN"}
  BY <1>1 DEF Agree, BodyStates
<1> QED
  BY <1>1, <1>2, LinesOfMaster, LinesOfHeader DEF Agree, BodyStates

\* The other bytes leave the automaton of the header where it is.
LEMMA AgreeElsewhere ==
  ASSUME NEW q, NEW h, NEW c, Agree(q, h), parser_feed(HTTP_master[q], c).acts # "header"
  PROVE  Agree(parser_feed(HTTP_master[q], c).dest, h)
<1>1. q \in {"START_LINE", "START_LINE_CR"} \cup BodyStates \cup {"FIN", "ERROR"}
  BY LinesOfMaster DEF Agree
<1> QED
  BY <1>1, LinesElsewhere DEF Agree, BodyStates

LEMMA AgreeStep == ParserAssumption /\ TypeOK /\ ParsersAgree /\ [Next]_vars => ParsersAgree'
<1> SUFFICES ASSUME ParserAssumption, TypeOK, ParsersAgree, [Next]_vars,
                    side' = "request", ~ctx'.error
             PROVE  Agree(ctx'.HTTP_master, ctx'.HTTP_header)
  BY DEF ParsersAgree
<1>1. CASE Parse
  <2> DEFINE c == Head(pending)
             t == parser_feed(HTTP_master[ctx.HTTP_master], c)
             u == parser_feed(HTTP_header[ctx.HTTP_header], c)
  <2>1. c \in Byte
    BY <1>1, HeadTailProperties DEF Parse, TypeOK
  <2>2. side = "request" /\ ctx' = http_master(ctx, c)
    BY <1>1 DEF Parse
  <2>3. /\ ctx.error => ctx'.error
        /\ ~ctx.error =>
             /\ ctx'.HTTP_master = t.dest
             /\ t.acts = "header" => ctx'.HTTP_header = u.dest /\ (u.acts = "error" => ctx'.error)
             /\ t.acts # "header" => ctx'.HTTP_header = ctx.HTTP_header
    BY <2>1, <2>2, MasterByte DEF TypeOK
  <2>4. Agree(ctx.HTTP_master, ctx.HTTP_header)
    BY <2>2, <2>3 DEF ParsersAgree
  <2>5. CASE t.acts = "header"
    BY <2>3, <2>4, <2>5, AgreeInHeader
  <2>6. CASE t.acts # "header"
    BY <2>3, <2>4, <2>6, AgreeElsewhere
  <2> QED
    BY <2>5, <2>6
<1>2. CASE Read
  BY <1>2 DEF Read, ParsersAgree
<1>3. CASE UNCHANGED vars
  BY <1>3 DEF vars, ParsersAgree
<1> QED
  BY <1>1, <1>2, <1>3 DEF Next

\* Whatever bytes a client sends, the automaton of the message and that of the
\* header end lines and the header at the same bytes (http_master, http_header).
THEOREM LinesAgree == Spec => []ParsersAgree
<1>1. Init => ParsersAgree
  BY InitialContext DEF Init, ParsersAgree
<1>2. TypeOK /\ ParsersAgree /\ [Next]_vars => ParsersAgree'
  BY AgreeStep, ParserAssumption
<1> QED
  BY <1>1, <1>2, ParserTypeCorrect, PTL DEF Spec

-----------------------------------------------------------------------------
(* The parser is a Request to the rest of the proxy.  Host and method are    *)
(* known to five automata and some flags, and it takes all of them: the      *)
(* request line finds no host, the header leaves the method alone, and no    *)
(* line is a request line again once a header has been read.                 *)

\* What the actions of the start line leave alone.
SameFound(x, y) == y.found = x.found

\* What those of the header and of the body do: the method stays, and a host is
\* found only when there is one.
SameMethod(x, y) ==
  /\ y.connect_method_used = x.connect_method_used
  /\ y.found.host => x.found.host \/ y.value.host # <<>>

-----------------------------------------------------------------------------
(* The start line *)

LEMMA AbsFindsNothing ==
  ASSUME NEW x \in Ctx, NEW c \in Byte
  PROVE  SameFound(x, http_abs_parser(x, c))
<1> DEFINE t == parser_feed(HTTP_request_abs[x.HTTP_request_abs], c)
           y == [x EXCEPT !.HTTP_request_abs = t.dest]
<1>1. "found" \in DOMAIN x /\ "found" \in DOMAIN y /\ y.found = x.found
  BY DEF Ctx
<1>2. http_abs_parser(x, c) =
        CASE t.acts = "error"     -> Error(y)
          [] t.acts = "byte_host" -> [y EXCEPT !.uri_host = Append(@, c)]
          [] t.acts = "fin"       -> [y EXCEPT !.uri_has_host = @ \/ x.uri_host # <<>>]
          [] OTHER                -> y
  BY DEF http_abs_parser
<1> HIDE DEF t, y
<1> QED
  BY <1>1, <1>2 DEF SameFound, Error

LEMMA WrittenFindsNothing ==
  ASSUME NEW x \in Ctx, NEW bytes
  PROVE  SameFound(x, Written(x, bytes))
  BY DEF Ctx, Written, SameFound

LEMMA TargetFindsNothing ==
  ASSUME ParserAssumption, NEW x \in Ctx, NEW c \in Byte
  PROVE  SameFound(x, http_request_target(x, c))
<1> DEFINE t == parser_feed(HTTP_request_target[x.HTTP_request_target], c)
           y == [x EXCEPT !.HTTP_request_target = t.dest]
<1>1. y \in Ctx /\ y.found = x.found
  <2>1. t.dest \in DOMAIN HTTP_request_target
    BY TargetStates DEF Ctx
  <2> HIDE DEF t
  <2> QED
    BY <2>1 DEF Ctx
<1>2. "STAR" \in Byte /\ "SP" \in Byte
  BY DEF ParserAssumption, Marks
<1>3. http_request_target(x, c) =
        CASE t.acts = "error"       -> Error(y)
          [] t.acts = "may_abs"     -> http_abs_parser(Written(y, <<c>>), c)
          [] t.acts = "is_asterisk" -> Written(y, <<"STAR">>)
          [] t.acts = "fin"         -> http_abs_parser(y, "SP")
          [] OTHER                  -> y
  BY DEF http_request_target
<1> HIDE DEF t, y
<1>4. Error(y).found = y.found
  BY <1>1 DEF Ctx, Error
<1>5. Written(y, <<c>>) \in Ctx
  BY <1>1, KeepsByte DEF Keeps
<1>6. SameFound(y, Written(y, <<"STAR">>)) /\ SameFound(y, Written(y, <<c>>))
        /\ SameFound(y, http_abs_parser(y, "SP"))
        /\ SameFound(Written(y, <<c>>), http_abs_parser(Written(y, <<c>>), c))
  BY <1>1, <1>2, <1>5, WrittenFindsNothing, AbsFindsNothing
<1> QED
  BY <1>1, <1>3, <1>4, <1>6 DEF SameFound

LEMMA StartLineFindsNothing ==
  ASSUME ParserAssumption, NEW x \in Ctx, NEW c \in Byte
  PROVE  SameFound(x, http_start_line(x, c))
<1> DEFINE t == parser_feed(HTTP_start_line[x.HTTP_start_line], c)
           y == [x EXCEPT !.HTTP_start_line = t.dest]
           e == [y EXCEPT !.error = @ \/ Len(y.uri_host) > UriLimit]
           w == Written(e, <<c>>)
           s == IF y.connect_method_used THEN y ELSE http_request_target(y, "SP")
<1>1. y \in Ctx /\ y.found = x.found
  <2>1. t.dest \in DOMAIN HTTP_start_line
    BY StartLineStates DEF Ctx
  <2> HIDE DEF t
  <2> QED
    BY <2>1 DEF Ctx
<1>2. "SP" \in Byte
  BY DEF ParserAssumption, Marks
<1>3. http_start_line(x, c) =
        CASE t.acts = "byte_method"  -> MethodByte(y, c)
          [] t.acts = "byte_target"  -> TargetByte(y, c)
          [] t.acts = "byte_version" -> Written(y, <<c>>)
          [] t.acts = "wait_space1"  -> Written(y, <<"SP">>)
          [] t.acts = "wait_space2"  -> Written(s, <<"SP">>)
          [] OTHER                   -> y
  BY DEF http_start_line
<1> HIDE DEF t, y
<1>4. MethodByte(y, c).found = y.found
  BY <1>1 DEF Ctx, MethodByte, Written
<1>5. TargetByte(y, c).found = y.found
  <2>1. e \in Ctx /\ e.found = y.found
    BY <1>1 DEF Ctx
  <2>2. TargetByte(y, c) = IF y.connect_method_used
                           THEN [w EXCEPT !.uri_host = Append(@, c)]
                           ELSE http_request_target(e, c)
    BY DEF TargetByte
  <2> HIDE DEF e
  <2>3. w \in Ctx /\ w.found = e.found
    BY <2>1, KeepsByte, WrittenFindsNothing DEF Keeps, SameFound
  <2> HIDE DEF w
  <2>4. [w EXCEPT !.uri_host = Append(@, c)].found = w.found
    BY <2>3 DEF Ctx
  <2>5. http_request_target(e, c).found = e.found
    BY <2>1, TargetFindsNothing DEF SameFound
  <2> QED
    BY <2>1, <2>2, <2>3, <2>4, <2>5
<1>6. s \in Ctx /\ s.found = y.found
  BY <1>1, <1>2, KeepsRequestTarget, TargetFindsNothing DEF Keeps, SameFound
<1> HIDE DEF s
<1>7. Written(y, <<c>>).found = y.found /\ Written(y, <<"SP">>).found = y.found
        /\ Written(s, <<"SP">>).found = s.found
  BY <1>1, <1>6, WrittenFindsNothing DEF SameFound
<1> QED
  BY <1>1, <1>3, <1>4, <1>5, <1>6, <1>7 DEF SameFound

-----------------------------------------------------------------------------
(* The header *)

LEMMA NameByteTells ==
  ASSUME NEW x \in Ctx, NEW c
  PROVE  SameMethod(x, NameByte(x, c)) /\ SameFound(x, NameByte(x, c))
<1> DEFINE w == Written(x, <<c>>)
<1>1. /\ "found" \in DOMAIN w /\ "connect_method_used" \in DOMAIN w /\ w.found = x.found
      /\ w.connect_method_used = x.connect_method_used
  BY DEF Ctx, Written
<1>2. NameByte(x, c) =
        [w EXCEPT !.match = [h \in Names |-> strcmpi(HeaderName[h], x.match[h], c)]]
  BY DEF NameByte
<1> HIDE DEF w
<1> QED
  BY <1>1, <1>2 DEF SameMethod, SameFound

LEMMA WrittenTells ==
  ASSUME NEW x \in Ctx, NEW bytes
  PROVE  SameMethod(x, Written(x, bytes))
  BY DEF Ctx, Written, SameMethod

LEMMA ValueBytesTells ==
  ASSUME NEW x \in Ctx, NEW bytes \in Seq(Byte)
  PROVE  SameMethod(x, ValueBytes(x, bytes))
<1> DEFINE v == [h \in Kept |-> IF Is(x, h) /\ ~x.found[h]
                                THEN x.value[h] \o bytes ELSE x.value[h]]
           y == [x EXCEPT !.value = v]
<1>1. /\ "found" \in DOMAIN y /\ "connect_method_used" \in DOMAIN y /\ y.found = x.found
      /\ y.connect_method_used = x.connect_method_used
  <2> HIDE DEF v
  <2> QED
    BY DEF Ctx
<1>2. ValueBytes(x, bytes) = IF Forwarded(x) THEN Written(y, bytes) ELSE y
  BY DEF ValueBytes
<1> HIDE DEF y
<1> QED
  BY <1>1, <1>2 DEF SameMethod, Written

LEMMA ColonTells ==
  ASSUME NEW x \in Ctx
  PROVE  SameMethod(x, Colon(x))
<1>1. CASE Is(x, "connection") /\ ~x.found.connection
  <2> DEFINE f == [x.found EXCEPT !.connection = TRUE]
             m == SubSeq(x.full_message, 1, Len(x.full_message) - (Len(HeaderName.connection) + 2))
  <2>1. Colon(x) = [x EXCEPT !.found = f, !.connection_avoid = TRUE, !.full_message = m]
    BY <1>1 DEF Colon, Ctx
  <2>2. f.host = x.found.host
    BY DEF Ctx, Names
  <2> HIDE DEF f, m
  <2> QED
    BY <2>1, <2>2 DEF SameMethod, Ctx
<1>2. CASE ~(Is(x, "connection") /\ ~x.found.connection)
  <2> DEFINE w == Written(x, <<"COLON">>)
  <2>1. Colon(x) = [w EXCEPT !.connection_avoid = FALSE]
    BY <1>2 DEF Colon
  <2>2. /\ "found" \in DOMAIN w /\ "connect_method_used" \in DOMAIN w /\ w.found = x.found
        /\ w.connect_method_used = x.connect_method_used
    BY DEF Ctx, Written
  <2> HIDE DEF w
  <2> QED
    BY <2>1, <2>2 DEF SameMethod
<1> QED
  BY <1>1, <1>2

\* The only place where a host is found, for a value that is not empty.
LEMMA NewLineTells ==
  ASSUME NEW x \in Ctx
  PROVE  SameMethod(x, NewLine(x))
<1> DEFINE count == x.host_count + IF Is(x, "host") THEN 1 ELSE 0
           e == x.error \/ (Is(x, "host") /\ count > 1)
           n == [x EXCEPT !.host_count = count, !.error = e]
           y == HostOfLine(n)
           w == Written(y, <<"CR", "LF">>)
           f == [h \in Names |-> w.found[h] \/ (h \in Kept /\ y.value[h] # <<>>)]
           m == [h \in Names |-> IF h \in Kept \/ ~x.found.connection
                                 THEN parser_reset(w.match[h]) ELSE w.match[h]]
<1>1. n \in Ctx /\ n.found = x.found /\ n.connect_method_used = x.connect_method_used
  <2>1. count \in Nat /\ e \in BOOLEAN
    BY DEF Ctx
  <2> HIDE DEF count, e
  <2> QED
    BY <2>1 DEF Ctx
<1>2. y \in Ctx
  <2> HIDE DEF n
  <2> QED
    BY <1>1, KeepsHostOfLine DEF Keeps
<1>3. y.found = n.found /\ y.connect_method_used = n.connect_method_used
  <2> HIDE DEF n
  <2> DEFINE u == Written(n, n.uri_host)
             v == [u.value EXCEPT !.host = n.uri_host]
  <2>1. y = n \/ y = [u EXCEPT !.value = v]
    BY DEF HostOfLine
  <2>2. /\ "found" \in DOMAIN u /\ "connect_method_used" \in DOMAIN u /\ u.found = n.found
        /\ u.connect_method_used = n.connect_method_used
    BY <1>1 DEF Ctx, Written
  <2> HIDE DEF u, v, y
  <2> QED
    BY <2>1, <2>2
<1>4. NewLine(x) = [w EXCEPT !.found = f, !.match = m, !.connection_avoid = FALSE]
  BY DEF NewLine
<1> HIDE DEF n, y
<1>5. /\ {"found", "value", "connect_method_used"} \subseteq DOMAIN w
      /\ w.found = y.found /\ w.value = y.value
      /\ w.connect_method_used = y.connect_method_used
  BY <1>2 DEF Ctx, Written
<1>6. f.host => w.found.host \/ y.value.host # <<>>
  BY DEF Names
<1> HIDE DEF w, f, m
<1> QED
  BY <1>1, <1>3, <1>4, <1>5, <1>6 DEF SameMethod

\* A byte of the header or of the body.
LEMMA HeaderTells ==
  ASSUME ParserAssumption, NEW x \in Ctx, NEW c \in Byte
  PROVE  SameMethod(x, http_header(x, c))
<1> DEFINE t == parser_feed(HTTP_header[x.HTTP_header], c)
           y == [x EXCEPT !.HTTP_header = t.dest]
           z == http_header(x, c)
           n == NameByte(y, "CR")
<1>1. /\ t.dest \in DOMAIN HTTP_header
      /\ t.acts \in {"error", "byte_fn", "cr_fn", "byte_fv", "cr_fv", "cr_fn_byte_fv",
                     "cr_fv_byte_fv", "wait_colon", "byte_nl", "fin", "wait"}
  BY HeaderStates DEF Ctx
<1>2. /\ y \in Ctx /\ y.found = x.found
      /\ y.connect_method_used = x.connect_method_used
  <2> HIDE DEF t
  <2> QED
    BY <1>1 DEF Ctx
<1>3. /\ "CR" \in Byte
      /\ <<c>> \in Seq(Byte) /\ <<"CR">> \in Seq(Byte) /\ <<"CR", c>> \in Seq(Byte)
  <2>1. "CR" \in Byte
    BY DEF ParserAssumption, Marks
  <2> QED
    BY <2>1
<1>4. z = CASE t.acts = "error"         -> Error(y)
            [] t.acts = "byte_fn"       -> NameByte(y, c)
            [] t.acts = "cr_fn"         -> n
            [] t.acts = "byte_fv"       -> ValueBytes(y, <<c>>)
            [] t.acts = "cr_fv"         -> ValueBytes(y, <<"CR">>)
            [] t.acts = "cr_fn_byte_fv" -> ValueBytes(n, <<c>>)
            [] t.acts = "cr_fv_byte_fv" -> ValueBytes(y, <<"CR", c>>)
            [] t.acts = "wait_colon"    -> Colon(y)
            [] t.acts = "byte_nl"       -> NewLine(y)
            [] t.acts = "fin"           -> Written(y, <<"CR", "LF">>)
            [] t.acts = "wait"          -> y
  BY DEF http_header
<1> HIDE DEF t, y, z
<1>5. SameMethod(y, NameByte(y, c)) /\ SameMethod(y, n) /\ SameFound(y, n) /\ n \in Ctx
  BY <1>2, <1>3, NameByteTells, KeepsNameByte DEF Keeps
<1> HIDE DEF n
<1>6. SameMethod(y, ValueBytes(n, <<c>>))
  <2>1. SameMethod(n, ValueBytes(n, <<c>>))
    BY <1>3, <1>5, ValueBytesTells
  <2> QED
    BY <1>5, <2>1 DEF SameMethod, SameFound
<1>7. /\ SameMethod(y, ValueBytes(y, <<c>>)) /\ SameMethod(y, ValueBytes(y, <<"CR">>))
      /\ SameMethod(y, ValueBytes(y, <<"CR", c>>))
  BY <1>2, <1>3, ValueBytesTells
<1>8. /\ SameMethod(y, Colon(y)) /\ SameMethod(y, NewLine(y))
      /\ SameMethod(y, Written(y, <<"CR", "LF">>)) /\ SameMethod(y, y)
  BY <1>2, ColonTells, NewLineTells, WrittenTells DEF SameMethod
<1>9. SameMethod(y, Error(y))
  BY <1>2 DEF Ctx, Error, SameMethod
<1>10. SameMethod(y, z)
  BY <1>1, <1>4, <1>5, <1>6, <1>7, <1>8, <1>9
<1> QED
  BY <1>2, <1>10 DEF SameMethod, z

-----------------------------------------------------------------------------
(* The message *)

\* The bytes of the request line are those of its two states.
LEMMA StartLineBytes ==
  ASSUME NEW q \in DOMAIN HTTP_master, NEW c
  PROVE  LET t == parser_feed(HTTP_master[q], c)
         IN  /\ t.acts = "start_line" => q \in {"START_LINE", "START_LINE_CR"}
             /\ q \in {"START_LINE", "START_LINE_CR"} => t.acts # "header"
             /\ q \notin {"START_LINE", "START_LINE_CR"} =>
                  t.dest \notin {"START_LINE", "START_LINE_CR"}
<1>0. DOMAIN HTTP_master =
       {"START_LINE", "START_LINE_CR", "HEADER_NEW_LINE", "HEADER",
        "HEADER_CR", "HEADER_CR_FIN", "DATA_NEW_LINE", "DATA", "DATA_CR",
        "DATA_CR_FIN", "FIN", "ERROR"}
  BY DEF HTTP_master
<1>1. CASE q \in {"HEADER_NEW_LINE", "HEADER", "HEADER_CR", "HEADER_CR_FIN"}
  BY <1>1, LinesOfMaster
<1>2. CASE q \in {"START_LINE", "START_LINE_CR"}
  BY <1>2, LinesElsewhere
<1>3. CASE q \in BodyStates \cup {"FIN", "ERROR"}
  <2>1. parser_feed(HTTP_master[q], c).dest \in BodyStates \cup {"FIN", "ERROR"}
    BY <1>3, LinesElsewhere DEF BodyStates
  <2>2. parser_feed(HTTP_master[q], c).acts # "start_line"
    <3>1. CASE q = "DATA_NEW_LINE"
      BY <3>1 DEF HTTP_master, parser_feed, To
    <3>2. CASE q = "DATA"
      BY <3>2 DEF HTTP_master, parser_feed, To
    <3>3. CASE q = "DATA_CR"
      BY <3>3 DEF HTTP_master, parser_feed, To
    <3>4. CASE q = "DATA_CR_FIN"
      BY <3>4 DEF HTTP_master, parser_feed, To
    <3>5. CASE q = "FIN"
      BY <3>5 DEF HTTP_master, parser_feed, To
    <3>6. CASE q = "ERROR"
      BY <3>6 DEF HTTP_master, parser_feed, To
    <3> QED
      BY <1>3, <3>1, <3>2, <3>3, <3>4, <3>5, <3>6 DEF BodyStates
  <2> QED
    BY <1>3, <2>1, <2>2 DEF BodyStates
<1> QED
  BY <1>0, <1>1, <1>2, <1>3 DEF BodyStates

LEMMA MasterTells ==
  ASSUME ParserAssumption, side \in {"request", "response"}, NEW x \in Ctx, NEW c \in Byte
  PROVE  LET t == parser_feed(HTTP_master[x.HTTP_master], c)
             z == http_master(x, c)
         IN  /\ x.error => SameMethod(x, z) /\ SameFound(x, z) /\ z.value = x.value
             /\ ~x.error /\ t.acts # "header" => SameFound(x, z)
             /\ ~(side = "request" /\ t.acts = "start_line") => SameMethod(x, z)
<1> DEFINE t == parser_feed(HTTP_master[x.HTTP_master], c)
           y == [x EXCEPT !.HTTP_master = t.dest]
           z == http_master(x, c)
<1>1. /\ y \in Ctx /\ y.found = x.found /\ y.value = x.value
      /\ y.connect_method_used = x.connect_method_used
  <2>1. t.dest \in DOMAIN HTTP_master
    BY MasterStates DEF Ctx
  <2> HIDE DEF t
  <2> QED
    BY <2>1 DEF Ctx
<1>2. z =
        IF x.error THEN y
        ELSE CASE t.acts = "start_line" ->
                    IF side = "request" THEN http_start_line(y, c) ELSE Written(y, <<c>>)
               [] t.acts = "header"     -> http_header(y, c)
               [] t.acts = "data"       -> DataByte(y, c)
               [] t.acts = "fin"        ->
                    IF side = "request" THEN [y EXCEPT !.has_finished = TRUE]
                                        ELSE [y EXCEPT !.HTTP_master = "START_LINE"]
               [] OTHER                 -> y
  BY DEF http_master
<1> HIDE DEF t, y, z
<1>3. SameFound(y, http_start_line(y, c)) /\ SameMethod(y, http_header(y, c))
  BY <1>1, StartLineFindsNothing, HeaderTells
<1>4. SameFound(y, Written(y, <<c>>)) /\ SameMethod(y, Written(y, <<c>>))
        /\ SameFound(y, y) /\ SameMethod(y, y)
  BY <1>1, WrittenFindsNothing, WrittenTells DEF SameFound, SameMethod
<1>5. SameFound(y, DataByte(y, c)) /\ SameMethod(y, DataByte(y, c))
  BY <1>1 DEF Ctx, DataByte, Written, SameFound, SameMethod
<1>6. /\ SameFound(y, [y EXCEPT !.has_finished = TRUE])
      /\ SameMethod(y, [y EXCEPT !.has_finished = TRUE])
      /\ SameFound(y, [y EXCEPT !.HTTP_master = "START_LINE"])
      /\ SameMethod(y, [y EXCEPT !.HTTP_master = "START_LINE"])
  BY <1>1 DEF Ctx, SameFound, SameMethod
<1>7. CASE x.error
  BY <1>1, <1>2, <1>4, <1>7 DEF SameFound, SameMethod, z
<1>8. CASE ~x.error
  <2>1. t.acts # "header" => SameFound(y, z)
    BY <1>2, <1>3, <1>4, <1>5, <1>6, <1>8
  <2>2. ~(side = "request" /\ t.acts = "start_line") => SameMethod(y, z)
    BY <1>2, <1>3, <1>4, <1>5, <1>6, <1>8
  <2> QED
    BY <1>1, <1>8, <2>1, <2>2 DEF SameFound, SameMethod, t, z
<1> QED
  BY <1>7, <1>8

-----------------------------------------------------------------------------
(* The request *)

\* A host is found in the header, after which there is no request line.
HostAfterStart ==
  side = "request" /\ ~ctx.error /\ ctx.found.host =>
    ctx.HTTP_master \notin {"START_LINE", "START_LINE_CR"}

LEMMA HostAfterStartStep == TypeOK /\ HostAfterStart /\ [Next]_vars => HostAfterStart'
<1> SUFFICES ASSUME TypeOK, HostAfterStart, [Next]_vars,
                    side' = "request", ~ctx'.error, ctx'.found.host
             PROVE  ctx'.HTTP_master \notin {"START_LINE", "START_LINE_CR"}
  BY DEF HostAfterStart
<1>1. CASE Parse
  <2> DEFINE c == Head(pending)
             t == parser_feed(HTTP_master[ctx.HTTP_master], c)
  <2>1. c \in Byte /\ ctx' = http_master(ctx, c) /\ side = "request" /\ ctx \in Ctx
    BY <1>1, HeadTailProperties DEF Parse, TypeOK
  <2>2. ~ctx.error /\ ctx'.HTTP_master = t.dest
    BY <2>1, MasterByte, ParserAssumption DEF TypeOK
  <2>3. CASE ctx.HTTP_master \in {"START_LINE", "START_LINE_CR"}
    <3>1. t.acts # "header"
      BY <2>1, <2>3, StartLineBytes DEF Ctx
    <3>2. SameFound(ctx, ctx')
      BY <2>1, <2>2, <3>1, MasterTells, ParserAssumption DEF TypeOK
    <3> QED
      BY <2>1, <2>2, <2>3, <3>2 DEF HostAfterStart, SameFound
  <2>4. CASE ctx.HTTP_master \notin {"START_LINE", "START_LINE_CR"}
    BY <2>1, <2>2, <2>4, StartLineBytes DEF Ctx
  <2> QED
    BY <2>3, <2>4
<1>2. CASE Read \/ UNCHANGED vars
  BY <1>2 DEF Read, vars, HostAfterStart
<1> QED
  BY <1>1, <1>2 DEF Next

LEMMA StepOfRequest ==
  TypeOK /\ TypeOK' /\ HostAfterStart /\ [Next]_vars => [AsRequest!Parse]_(AsRequest!vars)
<1> SUFFICES ASSUME TypeOK, TypeOK', HostAfterStart, [Next]_vars
             PROVE  [AsRequest!Parse]_(AsRequest!vars)
  OBVIOUS
<1>1. CASE Parse
  <2> DEFINE c == Head(pending)
             t == parser_feed(HTTP_master[ctx.HTTP_master], c)
  <2>1. c \in Byte /\ ctx' = http_master(ctx, c) /\ side' = side
        /\ side \in {"request", "response"} /\ ctx \in Ctx /\ ctx' \in Ctx
    BY <1>1, HeadTailProperties DEF Parse, TypeOK
  <2>2. SameHost(ctx, ctx') /\ (ctx.error => ctx'.error)
    BY <2>1, MasterByte, ParserAssumption
  <2>3. /\ ctx.error => SameMethod(ctx, ctx') /\ SameFound(ctx, ctx')
        /\ ~ctx.error /\ t.acts # "header" => SameFound(ctx, ctx')
        /\ ~(side = "request" /\ t.acts = "start_line") => SameMethod(ctx, ctx')
    BY <2>1, MasterTells, ParserAssumption
  <2>4. /\ ctx'.error \in BOOLEAN /\ ctx.error \in BOOLEAN
        /\ ctx'.connect_method_used \in BOOLEAN /\ ctx.connect_method_used \in BOOLEAN
        /\ ctx'.found.host \in BOOLEAN /\ ctx.found.host \in BOOLEAN
    BY <2>1 DEF Ctx, Names
  <2> HIDE DEF c, t
  <2>5. CASE ctx.error
    <3>1. /\ ctx'.found.host = ctx.found.host /\ ctx'.error = ctx.error
          /\ ctx.found.host => ctx'.value.host = ctx.value.host
          /\ ctx'.connect_method_used = ctx.connect_method_used
      BY <2>2, <2>3, <2>4, <2>5 DEF SameHost, SameFound, SameMethod
    <3> QED
      BY <3>1 DEF AsRequest!vars
  <2>6. CASE ~ctx.error /\ side = "request" /\ t.acts = "start_line"
    <3>1. ~ctx.found.host /\ ~ctx'.found.host
      <4>1. ctx.HTTP_master \in {"START_LINE", "START_LINE_CR"}
        BY <2>1, <2>6, StartLineBytes DEF Ctx, t
      <4> QED
        BY <2>3, <2>6, <4>1 DEF HostAfterStart, SameFound
    <3> QED
      BY <2>4, <2>6, <3>1 DEF AsRequest!Parse
  <2>7. CASE ~ctx.error /\ ~(side = "request" /\ t.acts = "start_line")
    <3>1. /\ ctx'.connect_method_used = ctx.connect_method_used
          /\ ctx'.found.host => ctx.found.host \/ ctx'.value.host # <<>>
      BY <2>3, <2>7 DEF SameMethod
    <3>2. CASE ctx.found.host
      <4>1. ctx'.found.host /\ ctx'.value.host = ctx.value.host
        BY <2>2, <3>2 DEF SameHost
      <4> QED
        BY <2>4, <2>7, <3>1, <3>2, <4>1 DEF AsRequest!Parse
    <3>3. CASE ~ctx.found.host /\ ~ctx'.found.host
      BY <2>4, <2>7, <3>3 DEF AsRequest!Parse
    <3>4. CASE ~ctx.found.host /\ ctx'.found.host
      BY <2>4, <2>7, <3>1, <3>4 DEF AsRequest!Parse, AsRequest!Name
    <3> QED
      BY <3>2, <3>3, <3>4
  <2> QED
    BY <2>5, <2>6, <2>7
<1>2. CASE Read \/ UNCHANGED vars
  <2>1. UNCHANGED ctx
    BY <1>2 DEF Read, vars
  <2> QED
    BY <2>1 DEF AsRequest!vars
<1> QED
  BY <1>1, <1>2 DEF Next

\* To the rest of the proxy the parser is a request that names its host, and the
\* method that goes with it, at once and for good (readAndParseRequest): all that
\* Proxy takes for granted in Parsed.
THEOREM ParserIsRequest == Spec => ImplementsRequest
<1>1. Init => AsRequest!Init /\ HostAfterStart
  BY DEF Init, initCtx, initCtxResponse, Names, Kept, AsRequest!Init, HostAfterStart
<1>2. TypeOK /\ HostAfterStart /\ [Next]_vars => HostAfterStart'
  BY HostAfterStartStep
<1>3. TypeOK /\ TypeOK' /\ HostAfterStart /\ [Next]_vars => [AsRequest!Parse]_(AsRequest!vars)
  BY StepOfRequest
<1> QED
  BY <1>1, <1>2, <1>3, ParserTypeCorrect, PTL DEF Spec, ImplementsRequest, AsRequest!Spec


-----------------------------------------------------------------------------
(* What a handler leaves alone, by the names of the members *)

Fields ==
  {"HTTP_master", "HTTP_start_line", "HTTP_request_target", "HTTP_request_abs", "HTTP_header",
   "HTTP_connect", "connect_method_used", "method", "uri_host", "uri_has_host", "match",
   "value", "found", "host_count", "connection_avoid", "error", "has_finished",
   "full_message", "message"}

StartFields ==
  {"HTTP_start_line", "HTTP_request_target", "HTTP_request_abs", "HTTP_connect",
   "connect_method_used", "method", "uri_host", "uri_has_host", "error", "full_message"}

HeaderFields ==
  {"HTTP_header", "match", "value", "found", "host_count", "connection_avoid", "error",
   "full_message"}

\* Of the members, only those of F may differ between x and y.
Only(F, x, y) == \A f \in Fields \ F : y[f] = x[f]

LEMMA CtxFields == ASSUME NEW x \in Ctx PROVE DOMAIN x = Fields
  BY DEF Ctx, Fields

LEMMA OnlyTransitive ==
  ASSUME NEW F, NEW x, NEW y, NEW z, Only(F, x, y), Only(F, y, z)
  PROVE  Only(F, x, z)
  BY DEF Only

LEMMA OnlyMore ==
  ASSUME NEW F, NEW G, NEW x, NEW y, Only(F, x, y), F \subseteq G
  PROVE  Only(G, x, y)
  BY DEF Only

LEMMA OnlyItself == ASSUME NEW F, NEW x PROVE Only(F, x, x)
  BY DEF Only

LEMMA OnlyWritten ==
  ASSUME NEW x \in Ctx, NEW bytes
  PROVE  Only({"full_message"}, x, Written(x, bytes))
  BY CtxFields DEF Only, Fields, Written

LEMMA OnlyError == ASSUME NEW x \in Ctx PROVE Only({"error"}, x, Error(x))
  BY CtxFields DEF Only, Fields, Error

LEMMA OnlyAbs ==
  ASSUME NEW x \in Ctx, NEW c
  PROVE  Only(StartFields, x, http_abs_parser(x, c))
<1> DEFINE t == parser_feed(HTTP_request_abs[x.HTTP_request_abs], c)
           y == [x EXCEPT !.HTTP_request_abs = t.dest]
<1>1. DOMAIN y = Fields /\ Only(StartFields, x, y)
  BY CtxFields DEF Only, Fields, StartFields
<1>2. http_abs_parser(x, c) =
        CASE t.acts = "error"     -> Error(y)
          [] t.acts = "byte_host" -> [y EXCEPT !.uri_host = Append(@, c)]
          [] t.acts = "fin"       -> [y EXCEPT !.uri_has_host = @ \/ x.uri_host # <<>>]
          [] OTHER                -> y
  BY DEF http_abs_parser
<1> HIDE DEF t, y
<1>3. Only(StartFields, y, Error(y))
  BY <1>1 DEF Only, Fields, StartFields, Error
<1>4. Only(StartFields, y, [y EXCEPT !.uri_host = Append(@, c)])
  BY <1>1 DEF Only, Fields, StartFields
<1>5. Only(StartFields, y, [y EXCEPT !.uri_has_host = @ \/ x.uri_host # <<>>])
  BY <1>1 DEF Only, Fields, StartFields
<1>6. Only(StartFields, y, http_abs_parser(x, c))
  BY <1>2, <1>3, <1>4, <1>5, OnlyItself
<1> QED
  BY <1>1, <1>6, OnlyTransitive

LEMMA OnlyTarget ==
  ASSUME ParserAssumption, NEW x \in Ctx, NEW c \in Byte
  PROVE  Only(StartFields, x, http_request_target(x, c))
<1> DEFINE t == parser_feed(HTTP_request_target[x.HTTP_request_target], c)
           y == [x EXCEPT !.HTTP_request_target = t.dest]
<1>1. y \in Ctx
  <2>1. t.dest \in DOMAIN HTTP_request_target
    BY TargetStates DEF Ctx
  <2> QED
    BY <2>1, KeepsTarget DEF Keeps
<1>2. Only(StartFields, x, y)
  BY CtxFields DEF Only, Fields, StartFields
<1>3. http_request_target(x, c) =
        CASE t.acts = "error"       -> Error(y)
          [] t.acts = "may_abs"     -> http_abs_parser(Written(y, <<c>>), c)
          [] t.acts = "is_asterisk" -> Written(y, <<"STAR">>)
          [] t.acts = "fin"         -> http_abs_parser(y, "SP")
          [] OTHER                  -> y
  BY DEF http_request_target
<1> HIDE DEF t, y
<1>4. {"full_message"} \subseteq StartFields /\ {"error"} \subseteq StartFields
  BY DEF StartFields
<1>5. Only(StartFields, y, Error(y)) /\ Only(StartFields, y, Written(y, <<"STAR">>))
        /\ Only(StartFields, y, Written(y, <<c>>))
  BY <1>1, <1>4, OnlyError, OnlyWritten, OnlyMore
<1>6. Written(y, <<c>>) \in Ctx
  BY <1>1, KeepsByte DEF Keeps
<1>7. Only(StartFields, Written(y, <<c>>), http_abs_parser(Written(y, <<c>>), c))
        /\ Only(StartFields, y, http_abs_parser(y, "SP"))
  BY <1>1, <1>6, OnlyAbs
<1>8. Only(StartFields, y, http_abs_parser(Written(y, <<c>>), c))
  BY <1>5, <1>7, OnlyTransitive
<1>9. Only(StartFields, y, http_request_target(x, c))
  BY <1>3, <1>5, <1>7, <1>8, OnlyItself
<1> QED
  BY <1>2, <1>9, OnlyTransitive

LEMMA OnlyStartLine ==
  ASSUME ParserAssumption, NEW x \in Ctx, NEW c \in Byte
  PROVE  Only(StartFields, x, http_start_line(x, c))
<1> DEFINE t == parser_feed(HTTP_start_line[x.HTTP_start_line], c)
           y == [x EXCEPT !.HTTP_start_line = t.dest]
           e == [y EXCEPT !.error = @ \/ Len(y.uri_host) > UriLimit]
           w == Written(e, <<c>>)
           s == IF y.connect_method_used THEN y ELSE http_request_target(y, "SP")
<1>1. y \in Ctx
  <2>1. t.dest \in DOMAIN HTTP_start_line
    BY StartLineStates DEF Ctx
  <2> QED
    BY <2>1, KeepsStartLine DEF Keeps
<1>2. Only(StartFields, x, y)
  BY CtxFields DEF Only, Fields, StartFields
<1>3. "SP" \in Byte
  BY DEF ParserAssumption, Marks
<1>4. http_start_line(x, c) =
        CASE t.acts = "byte_method"  -> MethodByte(y, c)
          [] t.acts = "byte_target"  -> TargetByte(y, c)
          [] t.acts = "byte_version" -> Written(y, <<c>>)
          [] t.acts = "wait_space1"  -> Written(y, <<"SP">>)
          [] t.acts = "wait_space2"  -> Written(s, <<"SP">>)
          [] OTHER                   -> y
  BY DEF http_start_line
<1> HIDE DEF t, y
<1>5. {"full_message"} \subseteq StartFields
  BY DEF StartFields
<1>6. Only(StartFields, y, MethodByte(y, c))
  BY <1>1, CtxFields DEF Only, Fields, StartFields, MethodByte, Written
<1>7. Only(StartFields, y, TargetByte(y, c))
  <2>1. e \in Ctx /\ Only(StartFields, y, e)
    BY <1>1, CtxFields DEF Ctx, Only, Fields, StartFields
  <2>2. TargetByte(y, c) = IF y.connect_method_used
                           THEN [w EXCEPT !.uri_host = Append(@, c)]
                           ELSE http_request_target(e, c)
    BY DEF TargetByte
  <2> HIDE DEF e
  <2>3. w \in Ctx /\ Only(StartFields, e, w)
    BY <1>5, <2>1, KeepsByte, OnlyWritten, OnlyMore DEF Keeps
  <2> HIDE DEF w
  <2>4. Only(StartFields, w, [w EXCEPT !.uri_host = Append(@, c)])
    BY <2>3, CtxFields DEF Only, Fields, StartFields
  <2>5. Only(StartFields, e, http_request_target(e, c))
    BY <2>1, OnlyTarget
  <2> QED
    BY <2>1, <2>2, <2>3, <2>4, <2>5, OnlyTransitive
<1>8. s \in Ctx /\ Only(StartFields, y, s)
  BY <1>1, <1>3, KeepsRequestTarget, OnlyTarget, OnlyItself DEF Keeps
<1> HIDE DEF s
<1>9. Only(StartFields, y, Written(y, <<c>>)) /\ Only(StartFields, y, Written(y, <<"SP">>))
        /\ Only(StartFields, s, Written(s, <<"SP">>))
  BY <1>1, <1>5, <1>8, OnlyWritten, OnlyMore
<1>10. Only(StartFields, y, Written(s, <<"SP">>))
  BY <1>8, <1>9, OnlyTransitive
<1>11. Only(StartFields, y, http_start_line(x, c))
  BY <1>4, <1>6, <1>7, <1>9, <1>10, OnlyItself
<1> QED
  BY <1>2, <1>11, OnlyTransitive
LEMMA OnlyNameByte ==
  ASSUME NEW x \in Ctx, NEW c
  PROVE  Only(HeaderFields, x, NameByte(x, c))
  BY CtxFields DEF Only, Fields, HeaderFields, NameByte, Written

LEMMA OnlyValueBytes ==
  ASSUME NEW x \in Ctx, NEW bytes
  PROVE  Only(HeaderFields, x, ValueBytes(x, bytes))
<1> DEFINE v == [h \in Kept |-> IF Is(x, h) /\ ~x.found[h]
                                THEN x.value[h] \o bytes ELSE x.value[h]]
           y == [x EXCEPT !.value = v]
<1>1. ValueBytes(x, bytes) = IF Forwarded(x) THEN Written(y, bytes) ELSE y
  BY DEF ValueBytes
<1> HIDE DEF v
<1>2. Only(HeaderFields, x, y) /\ Only(HeaderFields, x, Written(y, bytes))
  BY CtxFields DEF Only, Fields, HeaderFields, Written
<1> QED
  BY <1>1, <1>2

LEMMA OnlyColon == ASSUME NEW x \in Ctx PROVE Only(HeaderFields, x, Colon(x))
  BY CtxFields DEF Only, Fields, HeaderFields, Colon, Written

LEMMA OnlyNewLine == ASSUME NEW x \in Ctx PROVE Only(HeaderFields, x, NewLine(x))
  BY CtxFields DEF Only, Fields, HeaderFields, Written, NewLine, HostOfLine

LEMMA OnlyHeader ==
  ASSUME ParserAssumption, NEW x \in Ctx, NEW c \in Byte
  PROVE  Only(HeaderFields, x, http_header(x, c))
<1> DEFINE t == parser_feed(HTTP_header[x.HTTP_header], c)
           y == [x EXCEPT !.HTTP_header = t.dest]
           z == http_header(x, c)
           n == NameByte(y, "CR")
<1>1. /\ t.dest \in DOMAIN HTTP_header
      /\ t.acts \in {"error", "byte_fn", "cr_fn", "byte_fv", "cr_fv", "cr_fn_byte_fv",
                     "cr_fv_byte_fv", "wait_colon", "byte_nl", "fin", "wait"}
  BY HeaderStates DEF Ctx
<1>2. y \in Ctx
  <2> HIDE DEF t
  <2> QED
    BY <1>1 DEF Ctx
<1>3. Only(HeaderFields, x, y)
  BY CtxFields DEF Only, Fields, HeaderFields
<1>4. z = CASE t.acts = "error"         -> Error(y)
            [] t.acts = "byte_fn"       -> NameByte(y, c)
            [] t.acts = "cr_fn"         -> n
            [] t.acts = "byte_fv"       -> ValueBytes(y, <<c>>)
            [] t.acts = "cr_fv"         -> ValueBytes(y, <<"CR">>)
            [] t.acts = "cr_fn_byte_fv" -> ValueBytes(n, <<c>>)
            [] t.acts = "cr_fv_byte_fv" -> ValueBytes(y, <<"CR", c>>)
            [] t.acts = "wait_colon"    -> Colon(y)
            [] t.acts = "byte_nl"       -> NewLine(y)
            [] t.acts = "fin"           -> Written(y, <<"CR", "LF">>)
            [] t.acts = "wait"          -> y
  BY DEF http_header
<1> HIDE DEF t, y, z
<1>5. "CR" \in Byte
  BY DEF ParserAssumption, Marks
<1>6. n \in Ctx
  BY <1>2, <1>5, KeepsNameByte DEF Keeps
<1>7. Only(HeaderFields, y, NameByte(y, c)) /\ Only(HeaderFields, y, n)
  BY <1>2, OnlyNameByte
<1> HIDE DEF n
<1>8. Only(HeaderFields, y, ValueBytes(n, <<c>>))
  BY <1>6, <1>7, OnlyValueBytes, OnlyTransitive
<1>9. {"full_message"} \subseteq HeaderFields /\ {"error"} \subseteq HeaderFields
  BY DEF HeaderFields
<1>10. /\ Only(HeaderFields, y, ValueBytes(y, <<c>>)) /\ Only(HeaderFields, y, ValueBytes(y, <<"CR">>))
       /\ Only(HeaderFields, y, ValueBytes(y, <<"CR", c>>))
       /\ Only(HeaderFields, y, Colon(y)) /\ Only(HeaderFields, y, NewLine(y))
       /\ Only(HeaderFields, y, Written(y, <<"CR", "LF">>)) /\ Only(HeaderFields, y, Error(y))
  BY <1>2, <1>9, OnlyValueBytes, OnlyColon, OnlyNewLine, OnlyWritten, OnlyError, OnlyMore
<1>11. Only(HeaderFields, y, z)
  BY <1>1, <1>4, <1>7, <1>8, <1>10, OnlyItself
<1> QED
  BY <1>3, <1>11, OnlyTransitive DEF z

\* What a byte does to the members that tell where the message is.
LEMMA MasterLeaves ==
  ASSUME ParserAssumption, side \in {"request", "response"}, NEW x \in Ctx, NEW c \in Byte
  PROVE  LET t == parser_feed(HTTP_master[x.HTTP_master], c)
             y == [x EXCEPT !.HTTP_master = t.dest]
             z == http_master(x, c)
         IN  /\ y \in Ctx /\ y.HTTP_master = t.dest /\ Only({"HTTP_master"}, x, y)
             /\ x.error => z = y
             /\ ~x.error /\ t.acts = "start_line" /\ side = "request" => z = http_start_line(y, c)
             /\ ~x.error /\ t.acts = "start_line" /\ side = "response" => z = Written(y, <<c>>)
             /\ ~x.error /\ t.acts = "header" => z = http_header(y, c)
             /\ ~x.error /\ t.acts = "data" => z = DataByte(y, c)
             /\ ~x.error /\ t.acts \notin {"start_line", "header", "data", "fin"} => z = y
             /\ ~x.error /\ t.acts = "fin" =>
                  z = IF side = "request" THEN [y EXCEPT !.has_finished = TRUE]
                                          ELSE [y EXCEPT !.HTTP_master = "START_LINE"]
<1> DEFINE t == parser_feed(HTTP_master[x.HTTP_master], c)
           y == [x EXCEPT !.HTTP_master = t.dest]
           z == http_master(x, c)
<1>1. y \in Ctx /\ y.HTTP_master = t.dest
  <2>1. t.dest \in DOMAIN HTTP_master
    BY MasterStates DEF Ctx
  <2> HIDE DEF t
  <2> QED
    BY <2>1 DEF Ctx
<1>2. Only({"HTTP_master"}, x, y)
  BY CtxFields DEF Only, Fields
<1>3. z =
        IF x.error THEN y
        ELSE CASE t.acts = "start_line" ->
                    IF side = "request" THEN http_start_line(y, c) ELSE Written(y, <<c>>)
               [] t.acts = "header"     -> http_header(y, c)
               [] t.acts = "data"       -> DataByte(y, c)
               [] t.acts = "fin"        ->
                    IF side = "request" THEN [y EXCEPT !.has_finished = TRUE]
                                        ELSE [y EXCEPT !.HTTP_master = "START_LINE"]
               [] OTHER                 -> y
  BY DEF http_master
<1> HIDE DEF t, y, z
<1>4. /\ y \in Ctx /\ y.HTTP_master = t.dest /\ Only({"HTTP_master"}, x, y)
      /\ x.error => z = y
      /\ ~x.error /\ t.acts = "start_line" /\ side = "request" => z = http_start_line(y, c)
      /\ ~x.error /\ t.acts = "start_line" /\ side = "response" => z = Written(y, <<c>>)
      /\ ~x.error /\ t.acts = "header" => z = http_header(y, c)
      /\ ~x.error /\ t.acts = "data" => z = DataByte(y, c)
      /\ ~x.error /\ t.acts \notin {"start_line", "header", "data", "fin"} => z = y
      /\ ~x.error /\ t.acts = "fin" =>
           z = IF side = "request" THEN [y EXCEPT !.has_finished = TRUE]
                                   ELSE [y EXCEPT !.HTTP_master = "START_LINE"]
  BY <1>1, <1>2, <1>3
<1> QED
  BY <1>4 DEF t, y, z

-----------------------------------------------------------------------------
(* The automaton of the message and the bytes received *)

AtEnd  == Len(received) \in Ends
LastCR == Len(received) > 0 /\ received[Len(received)] = "CR"
BlankNext == LastCR /\ Len(received) - 1 \in Ends

\* What one more byte does to the ends of lines.
LEMMA EndsNext ==
  ASSUME received \in Seq(Byte), NEW c \in Byte, received' = Append(received, c)
  PROVE  /\ LastCR' <=> c = "CR"
         /\ AtEnd' <=> LastCR /\ c = "LF"
         /\ BlankNext' <=> AtEnd /\ c = "CR"
         /\ Ends' = Ends \cup (IF LastCR /\ c = "LF" THEN {Len(received) + 1} ELSE {})
         /\ Blanks' = Blanks \cup (IF BlankNext /\ c = "LF" THEN {Len(received) + 1} ELSE {})
         /\ Ends \subseteq 2 .. Len(received)
<1> DEFINE n == Len(received)
<1>1. /\ n \in Nat /\ Len(received') = n + 1 /\ received'[n + 1] = c
      /\ \A i \in 1 .. n : received'[i] = received[i]
  BY AppendProperties, LenProperties
<1>2. Ends' = {i \in 2 .. n + 1 : received'[i - 1] = "CR" /\ received'[i] = "LF"}
  BY <1>1 DEF Ends
<1>3. \A i \in 2 .. n : i \in Ends' <=> i \in Ends
  <2> SUFFICES ASSUME NEW i \in 2 .. n
               PROVE  i \in Ends' <=> i \in Ends
    OBVIOUS
  <2>1. received'[i] = received[i] /\ received'[i - 1] = received[i - 1]
    BY <1>1
  <2> QED
    BY <1>1, <1>2, <2>1 DEF Ends
<1>4. n + 1 \in Ends' <=> LastCR /\ c = "LF"
  <2>1. CASE n = 0
    BY <1>1, <1>2, <2>1 DEF LastCR
  <2>2. CASE n > 0
    <3>1. (n + 1) - 1 = n /\ n + 1 \in 2 .. n + 1 /\ received'[n] = received[n]
      BY <1>1, <2>2
    <3> QED
      BY <1>1, <1>2, <2>2, <3>1 DEF LastCR
  <2> QED
    BY <1>1, <2>1, <2>2
<1>5. Ends \subseteq 2 .. n /\ Ends' \subseteq 2 .. n + 1
  BY <1>2 DEF Ends
<1>6. Ends' = Ends \cup (IF LastCR /\ c = "LF" THEN {n + 1} ELSE {})
  <2>1. \A i \in 2 .. n + 1 : i \in 2 .. n \/ i = n + 1
    BY <1>1
  <2>2. n + 1 \notin 2 .. n
    BY <1>1
  <2> HIDE DEF n
  <2> QED
    BY <1>3, <1>4, <1>5, <2>1, <2>2
<1>7. LastCR' <=> c = "CR"
  BY <1>1 DEF LastCR
<1>8. AtEnd' <=> LastCR /\ c = "LF"
  BY <1>1, <1>4 DEF AtEnd
<1>9. BlankNext' <=> AtEnd /\ c = "CR"
  <2>1. Len(received') - 1 = n
    BY <1>1
  <2>2. n \in Ends' <=> n \in Ends
    <3>1. n # n + 1
      BY <1>1
    <3> QED
      BY <1>6, <3>1
  <2> QED
    BY <1>7, <2>1, <2>2 DEF BlankNext, AtEnd
<1>10. Blanks' = Blanks \cup (IF BlankNext /\ c = "LF" THEN {n + 1} ELSE {})
  <2>1. Blanks' = {i \in Ends' : i - 2 \in Ends'}
    BY DEF Blanks
  <2>2. ASSUME NEW i \in Ends'
        PROVE  i - 2 \in Ends' <=> i - 2 \in Ends
    <3>1. i - 2 # n + 1
      BY <1>1, <1>5
    <3> QED
      BY <1>6, <3>1
  <2>3. n + 1 \in Ends' /\ (n + 1) - 2 \in Ends <=> BlankNext /\ c = "LF"
    <3>1. (n + 1) - 2 = n - 1
      BY <1>1
    <3> QED
      BY <1>4, <3>1 DEF BlankNext
  <2>4. n + 1 \notin Ends
    BY <1>1, <1>5
  <2> HIDE DEF n
  <2> QED
    BY <1>6, <2>1, <2>2, <2>3, <2>4 DEF Blanks
<1> QED
  BY <1>5, <1>6, <1>7, <1>8, <1>9, <1>10

\* The state of the automaton m, from what there was: an end of a line, a blank
\* line, an end just now, a CR just now, one that follows an end.
StartStates  == {"START_LINE", "START_LINE_CR"}
HeadStates == {"HEADER_NEW_LINE", "HEADER", "HEADER_CR", "HEADER_CR_FIN"}

IsAt(m, started, over, end, cr, blank) ==
  /\ m \in StartStates \cup HeadStates \cup BodyStates
  /\ m \in StartStates <=> ~started
  /\ m \in BodyStates <=> over
  /\ m \in {"HEADER_NEW_LINE", "DATA_NEW_LINE"} <=> end
  /\ m \in {"START_LINE_CR", "HEADER_CR", "HEADER_CR_FIN", "DATA_CR", "DATA_CR_FIN"} <=> cr
  /\ m \in {"HEADER_CR_FIN", "DATA_CR_FIN"} <=> blank

LEMMA MasterMoves ==
  ASSUME NEW q \in StartStates \cup HeadStates \cup BodyStates, NEW c
  PROVE  LET t == parser_feed(HTTP_master[q], c)
         IN  /\ t.acts = IF q \in StartStates THEN "start_line"
                         ELSE IF q \in HeadStates THEN "header"
                         ELSE IF q = "DATA_CR_FIN" /\ c = "LF" THEN "fin" ELSE "data"
             /\ q \in StartStates => t.dest =
                  IF c = "CR" THEN "START_LINE_CR"
                  ELSE IF c = "LF" /\ q = "START_LINE_CR" THEN "HEADER_NEW_LINE" ELSE "START_LINE"
             /\ q \in BodyStates => t.dest =
                  IF c = "CR" THEN IF q = "DATA_NEW_LINE" THEN "DATA_CR_FIN" ELSE "DATA_CR"
                  ELSE IF c = "LF" /\ q = "DATA_CR" THEN "DATA_NEW_LINE"
                  ELSE IF c = "LF" /\ q = "DATA_CR_FIN" THEN "FIN" ELSE "DATA"
<1>1. CASE q = "START_LINE"
  BY <1>1 DEF StartStates, HeadStates, BodyStates, HTTP_master, parser_feed, To
<1>2. CASE q = "START_LINE_CR"
  BY <1>2 DEF StartStates, HeadStates, BodyStates, HTTP_master, parser_feed, To
<1>3. CASE q = "DATA_NEW_LINE"
  BY <1>3 DEF StartStates, HeadStates, BodyStates, HTTP_master, parser_feed, To
<1>4. CASE q = "DATA"
  BY <1>4 DEF StartStates, HeadStates, BodyStates, HTTP_master, parser_feed, To
<1>5. CASE q = "DATA_CR"
  BY <1>5 DEF StartStates, HeadStates, BodyStates, HTTP_master, parser_feed, To
<1>6. CASE q = "DATA_CR_FIN"
  BY <1>6 DEF StartStates, HeadStates, BodyStates, HTTP_master, parser_feed, To
<1>7. CASE q \in HeadStates
  BY <1>7, LinesOfMaster DEF StartStates, HeadStates, BodyStates
<1> QED
  BY <1>1, <1>2, <1>3, <1>4, <1>5, <1>6, <1>7 DEF StartStates, BodyStates

LEMMA MasterParts ==
  DOMAIN HTTP_master = StartStates \cup HeadStates \cup BodyStates \cup {"FIN", "ERROR"}
<1>1. DOMAIN HTTP_master =
        {"START_LINE", "START_LINE_CR", "HEADER_NEW_LINE", "HEADER", "HEADER_CR", "HEADER_CR_FIN",
         "DATA_NEW_LINE", "DATA", "DATA_CR", "DATA_CR_FIN", "FIN", "ERROR"}
  BY DEF HTTP_master
<1> QED
  BY <1>1 DEF StartStates, HeadStates, BodyStates

\* A part of the message that is past does not come back.
LEMMA MasterPast ==
  ASSUME NEW q \in DOMAIN HTTP_master, NEW c
  PROVE  LET t == parser_feed(HTTP_master[q], c)
         IN  /\ q \notin StartStates => t.acts # "start_line" /\ t.dest \notin StartStates
             /\ q \notin StartStates \cup HeadStates =>
                  /\ t.acts \notin {"start_line", "header"}
                  /\ t.dest \notin StartStates \cup HeadStates
                  /\ q \in BodyStates /\ ~(q = "DATA_CR_FIN" /\ c = "LF") => t.acts = "data"
<1> DEFINE t == parser_feed(HTTP_master[q], c)
<1>1. ASSUME q \in HeadStates
      PROVE  t.acts # "start_line" /\ t.dest \notin StartStates
  <2>1. /\ t.acts = "header"
        /\ t.dest \in {"HEADER_CR_FIN", "HEADER_CR", "HEADER_NEW_LINE", "DATA_NEW_LINE", "HEADER"}
    BY <1>1, LinesOfMaster DEF HeadStates
  <2> HIDE DEF t
  <2> QED
    BY <2>1 DEF StartStates
<1>2. ASSUME q \in BodyStates
      PROVE  /\ t.acts = IF q = "DATA_CR_FIN" /\ c = "LF" THEN "fin" ELSE "data"
             /\ t.dest \notin StartStates \cup HeadStates
  <2>1. q \notin StartStates \cup HeadStates
    BY <1>2 DEF StartStates, HeadStates, BodyStates
  <2>2. /\ t.acts = IF q = "DATA_CR_FIN" /\ c = "LF" THEN "fin" ELSE "data"
        /\ t.dest \in BodyStates \cup {"FIN"}
    BY <1>2, <2>1, MasterMoves DEF BodyStates
  <2> HIDE DEF t
  <2> QED
    BY <2>2 DEF StartStates, HeadStates, BodyStates
<1>3. ASSUME q \in {"FIN", "ERROR"}
      PROVE  /\ t.acts = "error" /\ t.dest \notin StartStates \cup HeadStates
             /\ q \notin BodyStates
  <2>1. t.acts = "error" /\ t.dest = "ERROR"
    BY <1>3 DEF HTTP_master, parser_feed, To
  <2> HIDE DEF t
  <2> QED
    BY <1>3, <2>1 DEF StartStates, HeadStates, BodyStates
<1> HIDE DEF t
<1>4. CASE q \in StartStates
  BY <1>4 DEF t
<1>5. CASE q \in HeadStates
  BY <1>1, <1>5 DEF t
<1>6. CASE q \in BodyStates
  BY <1>2, <1>6 DEF t
<1>7. CASE q \in {"FIN", "ERROR"}
  BY <1>3, <1>7 DEF t
<1> QED
  BY <1>4, <1>5, <1>6, <1>7, MasterParts


\* Where the header, or what there is of it, ends.
LEMMA Greatest ==
  ASSUME NEW n \in Nat, NEW T \in SUBSET (0 .. n), T # {}
  PROVE  \E m \in T : \A i \in T : i <= m
<1> DEFINE D == {n - i : i \in T}
<1>1. D \in SUBSET Nat
  OBVIOUS
<1>2. PICK t \in T : TRUE
  OBVIOUS
<1>3. n - t \in D
  BY <1>2
<1>4. PICK k \in D : \A m \in D : k <= m
  BY <1>1, <1>3, Least
<1>5. PICK m \in T : k = n - m
  BY <1>4
<1>6. ASSUME NEW i \in T
      PROVE  i <= m
  <2>1. n - i \in D
    OBVIOUS
  <2>2. n - m <= n - i
    BY <1>4, <1>5, <2>1
  <2> QED
    BY <2>2
<1> QED
  BY <1>6

LEMMA MaxIs ==
  ASSUME NEW n \in Nat, NEW T \in SUBSET (0 .. n), NEW m \in T, \A i \in T : i <= m
  PROVE  Max(T) = m
<1>1. \A k \in T : (\A i \in T : i <= k) => k = m
  OBVIOUS
<1> QED
  BY <1>1 DEF Max

LEMMA HeaderEndIs ==
  ASSUME received \in Seq(Byte)
  PROVE  /\ HeaderEnd \in 0 .. Len(received)
         /\ \A i \in LineEnds : i <= HeaderEnd
         /\ HeaderEnd \in LineEnds \/ (LineEnds = {} /\ HeaderEnd = 0)
         /\ LineEnds \subseteq 2 .. Len(received)
<1>1. Len(received) \in Nat
  OBVIOUS
<1>2. LineEnds \subseteq 2 .. Len(received)
  BY DEF LineEnds, Ends
<1>3. LineEnds \cup {0} \in SUBSET (0 .. Len(received)) /\ LineEnds \cup {0} # {}
  BY <1>1, <1>2
<1>4. PICK m \in LineEnds \cup {0} : \A i \in LineEnds \cup {0} : i <= m
  BY <1>1, <1>3, Greatest
<1>5. HeaderEnd = m
  BY <1>1, <1>3, <1>4, MaxIs DEF HeaderEnd
<1>6. m = 0 => LineEnds = {}
  BY <1>2, <1>4
<1> QED
  BY <1>2, <1>3, <1>4, <1>5, <1>6

LEMMA HeaderEndNext ==
  ASSUME received \in Seq(Byte), NEW c \in Byte, received' = Append(received, c)
  PROVE  /\ Blanks # {} => LineEnds' = LineEnds
         /\ Blanks = {} => LineEnds = Ends /\ LineEnds' = Ends'
         /\ HeaderEnd' = IF Blanks = {} /\ LastCR /\ c = "LF" THEN Len(received) + 1
                         ELSE HeaderEnd
<1> DEFINE n == Len(received)
<1>1. /\ Ends' = Ends \cup (IF LastCR /\ c = "LF" THEN {n + 1} ELSE {})
      /\ Blanks' = Blanks \cup (IF BlankNext /\ c = "LF" THEN {n + 1} ELSE {})
      /\ Ends \subseteq 2 .. n
  BY EndsNext
<1>2. n \in Nat
  OBVIOUS
<1>3. LineEnds' = {i \in Ends' : \A b \in Blanks' : i <= b}
  BY DEF LineEnds
<1>4. Blanks \subseteq Ends
  BY DEF Blanks
<1>5. /\ \A i \in Ends : i \in Nat /\ i <= n + 1 /\ i # n + 1
      /\ \A b \in Blanks : ~(n + 1 <= b)
  BY <1>1, <1>2, <1>4
<1> HIDE DEF n
<1>6. CASE Blanks # {}
  <2>1. LineEnds' = LineEnds
    BY <1>1, <1>3, <1>5, <1>6 DEF LineEnds
  <2>2. HeaderEnd' = HeaderEnd
    BY <2>1 DEF HeaderEnd
  <2> QED
    BY <1>6, <2>1, <2>2 DEF n
<1>7. CASE Blanks = {}
  <2>1. LineEnds = Ends
    BY <1>7 DEF LineEnds
  <2>2. LineEnds' = Ends'
    <3>1. \A i \in Ends' : \A b \in Blanks' : i <= b
      <4>1. \A b \in Blanks' : b = n + 1
        BY <1>1, <1>7
      <4>2. \A i \in Ends' : i <= n + 1
        BY <1>1, <1>2, <1>5
      <4> QED
        BY <4>1, <4>2
    <3> QED
      BY <1>3, <3>1
  <2>3. CASE LastCR /\ c = "LF"
    <3>1. Ends' \cup {0} \in SUBSET (0 .. n + 1) /\ n + 1 \in Ends' \cup {0} /\ n + 1 \in Nat
      BY <1>1, <1>2, <2>3
    <3>2. \A i \in Ends' \cup {0} : i <= n + 1
      BY <1>2, <3>1
    <3>3. HeaderEnd' = n + 1
      BY <2>2, <3>1, <3>2, MaxIs DEF HeaderEnd
    <3> QED
      BY <1>7, <2>1, <2>2, <2>3, <3>3 DEF n
  <2>4. CASE ~(LastCR /\ c = "LF")
    <3>1. LineEnds' = LineEnds
      BY <1>1, <2>1, <2>2, <2>4
    <3>2. HeaderEnd' = HeaderEnd
      BY <3>1 DEF HeaderEnd
    <3> QED
      BY <1>7, <2>1, <2>2, <2>4, <3>2 DEF n
  <2> QED
    BY <2>3, <2>4
<1> QED
  BY <1>6, <1>7

\* The rest of a sequence grows with it.
LEMMA RestNext ==
  ASSUME NEW S, NEW s \in Seq(S), NEW c \in S, NEW k \in 0 .. Len(s)
  PROVE  /\ SubSeq(s, k + 1, Len(s)) \in Seq(S)
         /\ Len(SubSeq(s, k + 1, Len(s))) = Len(s) - k
         /\ SubSeq(Append(s, c), k + 1, Len(Append(s, c))) = Append(SubSeq(s, k + 1, Len(s)), c)
         /\ SubSeq(Append(s, c), Len(s) + 2, Len(Append(s, c))) = <<>>
<1> DEFINE n == Len(s)
           r == SubSeq(s, k + 1, n)
           u == SubSeq(Append(s, c), k + 1, n + 1)
<1>1. n \in Nat /\ Append(s, c) \in Seq(S) /\ Len(Append(s, c)) = n + 1
  BY LenProperties, AppendProperties
<1>2. /\ r \in Seq(S) /\ Len(r) = n - k
      /\ \A i \in 1 .. n - k : r[i] = s[k + i]
  <2>1. \A i \in k + 1 .. n : s[i] \in S
    BY <1>1
  <2>2. n - (k + 1) + 1 = n - k /\ \A i \in 1 .. n - k : (k + 1) + i - 1 = k + i
    BY <1>1
  <2>3. k + 1 \in Int /\ n \in Int /\ (k + 1 > n => n - k = 0)
    BY <1>1
  <2> HIDE DEF n
  <2>4. r \in Seq(S) /\ Len(r) = IF k + 1 <= n THEN n - (k + 1) + 1 ELSE 0
    BY <2>1, <2>3, SubSeqProperties
  <2>5. \A i \in 1 .. n - (k + 1) + 1 : r[i] = s[(k + 1) + i - 1]
    BY <2>1, <2>3, SubSeqProperties
  <2>6. Len(r) = n - k
    BY <2>2, <2>3, <2>4
  <2> HIDE DEF r
  <2> QED
    BY <2>2, <2>4, <2>5, <2>6
<1>3. /\ u \in Seq(S) /\ Len(u) = n + 1 - k
      /\ \A i \in 1 .. n + 1 - k : u[i] = Append(s, c)[k + i]
  <2>1. \A i \in k + 1 .. n + 1 : Append(s, c)[i] \in S
    BY <1>1
  <2>2. (n + 1) - (k + 1) + 1 = n + 1 - k /\ \A i \in 1 .. n + 1 - k : (k + 1) + i - 1 = k + i
    BY <1>1
  <2> QED
    BY <1>1, <2>1, <2>2, SubSeqProperties, SMTT(30)
<1>4. /\ Append(r, c) \in Seq(S) /\ Len(Append(r, c)) = n - k + 1
      /\ \A i \in 1 .. n - k : Append(r, c)[i] = r[i]
      /\ Append(r, c)[n - k + 1] = c
  BY <1>2, AppendProperties
<1>5. /\ \A i \in 1 .. n : Append(s, c)[i] = s[i]
      /\ Append(s, c)[n + 1] = c
  BY AppendProperties
<1>6. ASSUME NEW i \in 1 .. n + 1 - k
      PROVE  u[i] = Append(r, c)[i]
  <2>1. CASE i = n - k + 1
    <3>1. k + i = n + 1
      BY <1>1, <2>1
    <3> QED
      BY <1>3, <1>4, <1>5, <2>1, <3>1
  <2>2. CASE i # n - k + 1
    <3>1. i \in 1 .. n - k /\ k + i \in 1 .. n
      BY <1>1, <2>2
    <3> QED
      BY <1>2, <1>3, <1>4, <1>5, <3>1
  <2> QED
    BY <2>1, <2>2
<1>7. Len(u) = Len(Append(r, c))
  BY <1>1, <1>3, <1>4
<1> HIDE DEF r, u
<1>8. u = Append(r, c)
  BY <1>3, <1>4, <1>6, <1>7, SeqEqual
<1>9. SubSeq(Append(s, c), n + 2, n + 1) = <<>>
  BY <1>1, SubSeqEmpty
<1> QED
  BY <1>1, <1>2, <1>8, <1>9 DEF r, u

LEMMA BodyNext ==
  ASSUME received \in Seq(Byte), NEW c \in Byte, received' = Append(received, c)
  PROVE  /\ Body \in Seq(Byte)
         /\ Body' = IF Blanks = {} /\ LastCR /\ c = "LF" THEN <<>> ELSE Append(Body, c)
<1>1. HeaderEnd \in 0 .. Len(received)
  BY HeaderEndIs
<1>2. CASE Blanks = {} /\ LastCR /\ c = "LF"
  <2>1. HeaderEnd' = Len(received) + 1
    BY <1>2, HeaderEndNext
  <2>2. Body' = SubSeq(Append(received, c), HeaderEnd' + 1, Len(Append(received, c)))
    BY DEF Body
  <2>3. HeaderEnd' + 1 = Len(received) + 2
    BY <2>1
  <2>4. /\ SubSeq(received, HeaderEnd + 1, Len(received)) \in Seq(Byte)
        /\ SubSeq(Append(received, c), Len(received) + 2, Len(Append(received, c))) = <<>>
    BY <1>1, RestNext
  <2> QED
    BY <1>2, <2>2, <2>3, <2>4 DEF Body
<1>3. CASE ~(Blanks = {} /\ LastCR /\ c = "LF")
  <2>1. HeaderEnd' = HeaderEnd
    BY <1>3, HeaderEndNext
  <2>2. Body' = SubSeq(Append(received, c), HeaderEnd + 1, Len(Append(received, c)))
    BY <2>1 DEF Body
  <2>3. /\ SubSeq(received, HeaderEnd + 1, Len(received)) \in Seq(Byte)
        /\ SubSeq(Append(received, c), HeaderEnd + 1, Len(Append(received, c))) =
             Append(SubSeq(received, HeaderEnd + 1, Len(received)), c)
    BY <1>1, RestNext
  <2> QED
    BY <1>3, <2>2, <2>3 DEF Body
<1> QED
  BY <1>2, <1>3

-----------------------------------------------------------------------------
(* The body *)

\* The automaton of the message is where the bytes received say, up to a blank line
\* in the body.
MasterInv ==
  BlankInBody \/ IsAt(ctx.HTTP_master, Ends # {}, Blanks # {}, AtEnd, LastCR, BlankNext)

LEMMA BlankStays ==
  ASSUME received \in Seq(Byte), NEW c \in Byte, received' = Append(received, c), BlankInBody
  PROVE  BlankInBody'
<1>1. PICK b \in Blanks : b > HeaderEnd
  BY DEF BlankInBody
<1>2. HeaderEnd' = HeaderEnd
  BY <1>1, HeaderEndNext
<1>3. b \in Blanks'
  BY <1>1, EndsNext
<1> QED
  BY <1>1, <1>2, <1>3 DEF BlankInBody

\* What a byte parsed leaves: the state of the automaton of the message, and message.
LEMMA MasterEffect ==
  ASSUME ParserAssumption, side \in {"request", "response"}, NEW x \in Ctx, NEW c \in Byte
  PROVE  LET t == parser_feed(HTTP_master[x.HTTP_master], c)
             z == http_master(x, c)
         IN  /\ t.acts # "fin" => z.HTTP_master = t.dest
             /\ ~x.error => z.message = IF t.acts = "data" THEN Append(x.message, c)
                                                           ELSE x.message
<1> DEFINE t == parser_feed(HTTP_master[x.HTTP_master], c)
           y == [x EXCEPT !.HTTP_master = t.dest]
           z == http_master(x, c)
<1>1. /\ y \in Ctx /\ y.HTTP_master = t.dest /\ Only({"HTTP_master"}, x, y)
      /\ x.error => z = y
      /\ ~x.error /\ t.acts = "start_line" /\ side = "request" => z = http_start_line(y, c)
      /\ ~x.error /\ t.acts = "start_line" /\ side = "response" => z = Written(y, <<c>>)
      /\ ~x.error /\ t.acts = "header" => z = http_header(y, c)
      /\ ~x.error /\ t.acts = "data" => z = DataByte(y, c)
      /\ ~x.error /\ t.acts \notin {"start_line", "header", "data", "fin"} => z = y
      /\ ~x.error /\ t.acts = "fin" =>
           z = IF side = "request" THEN [y EXCEPT !.has_finished = TRUE]
                                   ELSE [y EXCEPT !.HTTP_master = "START_LINE"]
  BY MasterLeaves
<1> HIDE DEF t, y, z
<1>2. Only(StartFields, y, http_start_line(y, c)) /\ Only(HeaderFields, y, http_header(y, c))
        /\ Only({"full_message"}, y, Written(y, <<c>>))
  BY <1>1, OnlyStartLine, OnlyHeader, OnlyWritten
<1>3. /\ DataByte(y, c).HTTP_master = y.HTTP_master
      /\ DataByte(y, c).message = Append(y.message, c)
      /\ [y EXCEPT !.has_finished = TRUE].message = y.message
      /\ [y EXCEPT !.HTTP_master = "START_LINE"].message = y.message
  BY <1>1 DEF Ctx, DataByte, Written
<1>4. /\ http_start_line(y, c).HTTP_master = y.HTTP_master
      /\ http_start_line(y, c).message = y.message
      /\ http_header(y, c).HTTP_master = y.HTTP_master
      /\ http_header(y, c).message = y.message
      /\ Written(y, <<c>>).HTTP_master = y.HTTP_master
      /\ Written(y, <<c>>).message = y.message
      /\ y.message = x.message
  BY <1>1, <1>2 DEF Only, Fields, StartFields, HeaderFields
<1>5. t.acts # "fin" => z.HTTP_master = t.dest
  BY <1>1, <1>3, <1>4
<1>6. ~x.error => z.message = IF t.acts = "data" THEN Append(x.message, c) ELSE x.message
  BY <1>1, <1>3, <1>4
<1> QED
  BY <1>5, <1>6 DEF t, z

LEMMA MasterStep ==
  ASSUME TypeOK, MasterInv, Parse
  PROVE  LET c == Head(pending)
         IN  /\ c \in Byte /\ received' = Append(received, c) /\ ctx' = http_master(ctx, c)
             /\ side' = side /\ ctx \in Ctx
             /\ BlankInBody => BlankInBody'
             /\ ~BlankInBody' => ~(ctx.HTTP_master = "DATA_CR_FIN" /\ c = "LF")
             /\ MasterInv'
<1> DEFINE c == Head(pending)
           q == ctx.HTTP_master
           t == parser_feed(HTTP_master[q], c)
<1>1. /\ c \in Byte /\ received' = Append(received, c) /\ ctx' = http_master(ctx, c)
      /\ side' = side /\ ctx \in Ctx /\ received \in Seq(Byte) /\ side \in {"request", "response"}
  BY HeadTailProperties DEF Parse, TypeOK
<1>2. BlankInBody => BlankInBody'
  BY <1>1, BlankStays
<1> HIDE DEF c
<1>3. CASE BlankInBody
  BY <1>1, <1>2, <1>3 DEF MasterInv, c
<1>4. CASE ~BlankInBody /\ q = "DATA_CR_FIN" /\ c = "LF"
  <2>1. IsAt(q, Ends # {}, Blanks # {}, AtEnd, LastCR, BlankNext)
    BY <1>4 DEF MasterInv
  <2>2. BlankNext /\ Blanks # {}
    BY <1>4, <2>1 DEF IsAt, BodyStates
  <2>3. Len(received) + 1 \in Blanks' /\ HeaderEnd' = HeaderEnd
    BY <1>1, <1>4, <2>2, EndsNext, HeaderEndNext
  <2>4. HeaderEnd \in 0 .. Len(received) /\ Len(received) \in Nat
    BY <1>1, HeaderEndIs
  <2>5. Len(received) + 1 > HeaderEnd'
    BY <2>3, <2>4
  <2>6. BlankInBody'
    BY <2>3, <2>5 DEF BlankInBody
  <2> QED
    BY <1>1, <1>4, <2>6 DEF MasterInv, c
<1>5. CASE ~BlankInBody /\ ~(q = "DATA_CR_FIN" /\ c = "LF")
  <2>1. IsAt(q, Ends # {}, Blanks # {}, AtEnd, LastCR, BlankNext)
    BY <1>5 DEF MasterInv
  <2>2. t.acts # "fin"
    BY <1>5, <2>1, MasterMoves DEF IsAt
  <2>3. ctx'.HTTP_master = t.dest
    BY <1>1, <2>2, MasterEffect, ParserAssumption
  <2>4. /\ (Ends # {})' <=> Ends # {} \/ (LastCR /\ c = "LF")
        /\ (Blanks # {})' <=> Blanks # {} \/ (BlankNext /\ c = "LF")
        /\ AtEnd' <=> LastCR /\ c = "LF"
        /\ LastCR' <=> c = "CR"
        /\ BlankNext' <=> AtEnd /\ c = "CR"
    <3>1. /\ LastCR' <=> c = "CR"
          /\ AtEnd' <=> LastCR /\ c = "LF"
          /\ BlankNext' <=> AtEnd /\ c = "CR"
          /\ Ends' = Ends \cup (IF LastCR /\ c = "LF" THEN {Len(received) + 1} ELSE {})
          /\ Blanks' = Blanks \cup (IF BlankNext /\ c = "LF" THEN {Len(received) + 1} ELSE {})
      BY <1>1, EndsNext
    <3>2. \A S, T, P : P \in BOOLEAN /\ T = S \cup (IF P THEN {Len(received) + 1} ELSE {}) =>
            (T # {} <=> S # {} \/ P)
      OBVIOUS
    <3> QED
      BY <3>1, <3>2
  <2> DEFINE started == Ends # {}
             over    == Blanks # {}
             d       == t.dest
  <2>5. /\ d = parser_feed(HTTP_master[q], c).dest /\ ctx'.HTTP_master = d
        /\ IsAt(q, started, over, AtEnd, LastCR, BlankNext)
        /\ (Ends # {})' <=> started \/ (LastCR /\ c = "LF")
        /\ (Blanks # {})' <=> over \/ (BlankNext /\ c = "LF")
    BY <2>1, <2>3, <2>4
  <2> HIDE DEF started, over, t, q
  <2>6. IsAt(ctx'.HTTP_master, Ends' # {}, Blanks' # {}, AtEnd', LastCR', BlankNext')
    <3> HIDE DEF d
    <3>1. CASE q \in StartStates
      BY <1>5, <2>4, <2>5, <3>1, MasterMoves DEF IsAt, StartStates, HeadStates, BodyStates
    <3>2. CASE q \in HeadStates
      BY <1>5, <2>4, <2>5, <3>2, LinesOfMaster DEF IsAt, StartStates, HeadStates, BodyStates
    <3>3. CASE q \in BodyStates
      BY <1>5, <2>4, <2>5, <3>3, MasterMoves DEF IsAt, StartStates, HeadStates, BodyStates
    <3> QED
      BY <2>5, <3>1, <3>2, <3>3 DEF IsAt
  <2>7. MasterInv'
    BY <2>6 DEF MasterInv
  <2> QED
    BY <1>1, <1>5, <2>7 DEF c, q
<1> QED
  BY <1>3, <1>4, <1>5

\* message is what was received of the body.
MessageInv ==
  ~ctx.error /\ ~BlankInBody => ctx.message = IF Blanks = {} THEN <<>> ELSE Body

LEMMA MessageStep == ASSUME TypeOK, MasterInv, MessageInv, Parse PROVE MessageInv'
<1> SUFFICES ASSUME ~ctx'.error, ~BlankInBody'
             PROVE  ctx'.message = IF Blanks' = {} THEN <<>> ELSE Body'
  BY DEF MessageInv
<1> DEFINE c == Head(pending)
           q == ctx.HTTP_master
           t == parser_feed(HTTP_master[q], c)
<1>1. /\ c \in Byte /\ received' = Append(received, c) /\ ctx' = http_master(ctx, c)
      /\ ctx \in Ctx /\ ~BlankInBody /\ ~(q = "DATA_CR_FIN" /\ c = "LF")
      /\ received \in Seq(Byte) /\ side \in {"request", "response"}
  BY MasterStep DEF TypeOK
<1> HIDE DEF c
<1>2. ~ctx.error
  BY <1>1, MasterByte, ParserAssumption
<1>3. ctx'.message = IF t.acts = "data" THEN Append(ctx.message, c) ELSE ctx.message
  BY <1>1, <1>2, MasterEffect, ParserAssumption
<1>4. IsAt(q, Ends # {}, Blanks # {}, AtEnd, LastCR, BlankNext)
  BY <1>1 DEF MasterInv
<1>5. t.acts = "data" <=> Blanks # {}
  BY <1>1, <1>4, MasterMoves DEF IsAt, StartStates, HeadStates, BodyStates
<1>6. ctx.message = IF Blanks = {} THEN <<>> ELSE Body
  BY <1>1, <1>2 DEF MessageInv
<1>7. /\ Blanks' = Blanks \cup (IF BlankNext /\ c = "LF" THEN {Len(received) + 1} ELSE {})
      /\ Body' = IF Blanks = {} /\ LastCR /\ c = "LF" THEN <<>> ELSE Append(Body, c)
  BY <1>1, EndsNext, BodyNext
<1>8. CASE Blanks # {}
  BY <1>3, <1>5, <1>6, <1>7, <1>8
<1>9. CASE Blanks = {}
  <2>1. ctx'.message = <<>>
    BY <1>3, <1>5, <1>6, <1>9
  <2>2. Blanks' # {} => LastCR /\ c = "LF"
    BY <1>7, <1>9 DEF BlankNext
  <2> QED
    BY <1>7, <1>9, <2>1, <2>2
<1> QED
  BY <1>8, <1>9

LEMMA OtherSteps ==
  ASSUME Read \/ UNCHANGED vars
  PROVE  UNCHANGED <<side, ctx, received>>
  BY DEF Read, vars

LEMMA MasterAlways == Spec => []MasterInv
<1>1. Init => MasterInv
  <2> SUFFICES ASSUME Init PROVE MasterInv
    OBVIOUS
  <2>1. received = <<>> /\ ctx.HTTP_master = "START_LINE"
    BY DEF Init, initCtx, initCtxResponse
  <2>2. Ends = {} /\ Blanks = {} /\ ~LastCR /\ ~AtEnd /\ ~BlankNext
    BY <2>1 DEF Ends, Blanks, LastCR, AtEnd, BlankNext
  <2> QED
    BY <2>1, <2>2 DEF MasterInv, IsAt, StartStates, HeadStates, BodyStates
<1>2. TypeOK /\ MasterInv /\ [Next]_vars => MasterInv'
  <2> SUFFICES ASSUME TypeOK, MasterInv, [Next]_vars PROVE MasterInv'
    OBVIOUS
  <2>1. CASE Parse
    BY <2>1, MasterStep
  <2>2. CASE Read \/ UNCHANGED vars
    <3>1. UNCHANGED <<ctx, received>>
      BY <2>2, OtherSteps
    <3> QED
      BY <3>1 DEF MasterInv, BlankInBody, HeaderEnd, LineEnds, Ends, Blanks, LastCR, AtEnd,
                  BlankNext
  <2> QED
    BY <2>1, <2>2 DEF Next
<1> QED
  BY <1>1, <1>2, ParserTypeCorrect, PTL DEF Spec

\* Whatever arrives and however it is split into reads, message is the body of the
\* message, all of it and nothing but it, as long as the body has no blank line
\* (HTTP_MASTER_DATA in http_master and http_master_response; the answers of the DoH
\* server are read there, makeResponseStructure).
THEOREM BodyIsKept == Spec => []BodyIsWhole
<1>1. Init => MessageInv
  <2> SUFFICES ASSUME Init PROVE MessageInv
    OBVIOUS
  <2>1. received = <<>> /\ ctx.message = <<>>
    BY DEF Init, initCtx, initCtxResponse
  <2>2. Blanks = {}
    BY <2>1 DEF Ends, Blanks
  <2> QED
    BY <2>1, <2>2 DEF MessageInv
<1>2. TypeOK /\ MasterInv /\ MessageInv /\ [Next]_vars => MessageInv'
  <2> SUFFICES ASSUME TypeOK, MasterInv, MessageInv, [Next]_vars PROVE MessageInv'
    OBVIOUS
  <2>1. CASE Parse
    BY <2>1, MessageStep
  <2>2. CASE Read \/ UNCHANGED vars
    <3>1. UNCHANGED <<ctx, received>>
      BY <2>2, OtherSteps
    <3>2. Blanks' = Blanks
      BY <3>1 DEF Ends, Blanks
    <3>3. HeaderEnd' = HeaderEnd
      BY <3>1 DEF Ends, Blanks, LineEnds, HeaderEnd
    <3>4. (BlankInBody <=> BlankInBody') /\ Body' = Body
      BY <3>1, <3>2, <3>3 DEF BlankInBody, Body
    <3> QED
      BY <3>1, <3>2, <3>4 DEF MessageInv
  <2> QED
    BY <2>1, <2>2 DEF Next
<1>3. MasterInv /\ MessageInv => BodyIsWhole
  BY DEF MasterInv, MessageInv, BodyIsWhole, IsAt
<1> QED
  BY <1>1, <1>2, <1>3, ParserTypeCorrect, MasterAlways, PTL DEF Spec

-----------------------------------------------------------------------------
(* The parts of a line, one byte later *)

LEMMA FirstIs ==
  ASSUME NEW S, NEW s \in Seq(S), NEW d
  PROVE  /\ First(s, d) \in 0 .. Len(s)
         /\ First(s, d) # 0 => s[First(s, d)] = d
         /\ \A i \in 1 .. Len(s) : s[i] = d => First(s, d) # 0 /\ First(s, d) <= i
<1> DEFINE at == {i \in DOMAIN s : s[i] = d}
<1>1. Len(s) \in Nat /\ DOMAIN s = 1 .. Len(s)
  OBVIOUS
<1>2. First(s, d) = IF at = {} THEN 0 ELSE Min(at)
  BY DEF First
<1>3. CASE at = {}
  BY <1>1, <1>2, <1>3
<1>4. CASE at # {}
  <2>1. PICK k \in at : \A i \in at : k <= i
    <3>1. at \in SUBSET Nat
      BY <1>1
    <3>2. PICK k0 \in at : TRUE
      BY <1>4
    <3> QED
      BY <3>1, <3>2, Least
  <2>2. Min(at) = k
    <3>1. \A m \in at : (\A i \in at : m <= i) => m = k
      BY <1>1, <2>1
    <3> QED
      BY <2>1, <3>1 DEF Min
  <2>3. First(s, d) = k /\ k \in 1 .. Len(s) /\ s[k] = d
    BY <1>1, <1>2, <1>4, <2>1, <2>2
  <2>4. \A i \in 1 .. Len(s) : s[i] = d => k <= i
    BY <1>1, <2>1
  <2> HIDE DEF at
  <2> QED
    BY <1>1, <2>3, <2>4
<1> QED
  BY <1>3, <1>4

LEMMA FirstWhere ==
  ASSUME NEW S, NEW s \in Seq(S), NEW d, NEW k \in 1 .. Len(s), s[k] = d,
         \A i \in 1 .. k - 1 : s[i] # d
  PROVE  First(s, d) = k
<1>1. /\ First(s, d) \in 0 .. Len(s) /\ First(s, d) # 0 /\ First(s, d) <= k
      /\ s[First(s, d)] = d /\ Len(s) \in Nat
  BY FirstIs
<1> QED
  BY <1>1

LEMMA FirstNext ==
  ASSUME NEW S, NEW s \in Seq(S), NEW c \in S, NEW d
  PROVE  First(Append(s, c), d) = IF First(s, d) # 0 THEN First(s, d)
                                  ELSE IF c = d THEN Len(s) + 1 ELSE 0
<1> DEFINE t == Append(s, c)
<1>1. /\ t \in Seq(S) /\ Len(t) = Len(s) + 1 /\ Len(s) \in Nat /\ t[Len(s) + 1] = c
      /\ \A i \in 1 .. Len(s) : t[i] = s[i]
  BY AppendProperties, LenProperties
<1> HIDE DEF t
<1>2. /\ First(s, d) \in 0 .. Len(s)
      /\ First(s, d) # 0 => s[First(s, d)] = d
      /\ \A i \in 1 .. Len(s) : s[i] = d => First(s, d) # 0 /\ First(s, d) <= i
  BY FirstIs
<1>3. CASE First(s, d) # 0
  <2>1. First(s, d) \in 1 .. Len(t) /\ t[First(s, d)] = d /\ \A i \in 1 .. First(s, d) - 1 : t[i] # d
    BY <1>1, <1>2, <1>3
  <2>2. First(t, d) = First(s, d)
    BY <1>1, <2>1, FirstWhere
  <2> QED
    BY <1>3, <2>2 DEF t
<1>4. CASE First(s, d) = 0 /\ c = d
  <2>1. Len(s) + 1 \in 1 .. Len(t) /\ t[Len(s) + 1] = d /\ \A i \in 1 .. (Len(s) + 1) - 1 : t[i] # d
    BY <1>1, <1>2, <1>4
  <2>2. First(t, d) = Len(s) + 1
    BY <1>1, <2>1, FirstWhere
  <2> QED
    BY <1>4, <2>2 DEF t
<1>5. CASE First(s, d) = 0 /\ c # d
  <2>1. \A i \in 1 .. Len(t) : t[i] # d
    BY <1>1, <1>2, <1>5
  <2>2. First(t, d) \in 0 .. Len(t) /\ (First(t, d) # 0 => t[First(t, d)] = d)
    BY <1>1, FirstIs
  <2>3. First(t, d) = 0
    BY <1>1, <2>1, <2>2
  <2> QED
    BY <1>5, <2>3 DEF t
<1> QED
  BY <1>3, <1>4, <1>5

LEMMA SameStart ==
  ASSUME NEW S, NEW s \in Seq(S), NEW c \in S, NEW k \in 0 .. Len(s)
  PROVE  SubSeq(Append(s, c), 1, k) = SubSeq(s, 1, k)
<1> DEFINE t == Append(s, c)
<1>1. /\ t \in Seq(S) /\ Len(t) = Len(s) + 1 /\ Len(s) \in Nat
      /\ \A i \in 1 .. Len(s) : t[i] = s[i]
  BY AppendProperties, LenProperties
<1> HIDE DEF t
<1>2. k \in Nat /\ 0 \in Nat /\ k <= Len(s) /\ 0 + k <= Len(t) /\ \A i \in 1 .. k : s[i] = t[0 + i]
  BY <1>1
<1>3. SubSeq(s, 1, k) = SubSeq(t, 0 + 1, 0 + k)
  BY <1>1, <1>2, SameParts
<1>4. 0 + 1 = 1 /\ 0 + k = k
  BY <1>2
<1> QED
  BY <1>3, <1>4 DEF t

LEMMA BeforeNext ==
  ASSUME NEW S, NEW s \in Seq(S), NEW c \in S, NEW d
  PROVE  Before(Append(s, c), d) = IF First(s, d) # 0 \/ c = d THEN Before(s, d) ELSE Append(s, c)
<1>1. Len(s) \in Nat /\ First(s, d) \in 0 .. Len(s)
  BY FirstIs, LenProperties
<1>2. First(Append(s, c), d) = IF First(s, d) # 0 THEN First(s, d)
                               ELSE IF c = d THEN Len(s) + 1 ELSE 0
  BY FirstNext
<1>3. CASE First(s, d) # 0
  <2>1. First(s, d) - 1 \in 0 .. Len(s)
    BY <1>1, <1>3
  <2>2. SubSeq(Append(s, c), 1, First(s, d) - 1) = SubSeq(s, 1, First(s, d) - 1)
    BY <2>1, SameStart
  <2> QED
    BY <1>2, <1>3, <2>2 DEF Before
<1>4. CASE First(s, d) = 0 /\ c = d
  <2>1. Len(s) \in 0 .. Len(s) /\ (Len(s) + 1) - 1 = Len(s) /\ Len(s) + 1 # 0
    BY <1>1
  <2>2. SubSeq(Append(s, c), 1, Len(s)) = SubSeq(s, 1, Len(s))
    BY <2>1, SameStart
  <2>3. SubSeq(s, 1, Len(s)) = s
    BY SubSeqFull
  <2> QED
    BY <1>2, <1>4, <2>1, <2>2, <2>3 DEF Before
<1>5. CASE First(s, d) = 0 /\ c # d
  BY <1>2, <1>5 DEF Before
<1> QED
  BY <1>3, <1>4, <1>5

LEMMA AfterNext ==
  ASSUME NEW S, NEW s \in Seq(S), NEW c \in S, NEW d
  PROVE  /\ After(s, d) \in Seq(S)
         /\ After(Append(s, c), d) = IF First(s, d) = 0 /\ c = d THEN <<>> ELSE Append(After(s, d), c)
<1>1. Len(s) \in Nat /\ First(s, d) \in 0 .. Len(s)
  BY FirstIs, LenProperties
<1>2. First(Append(s, c), d) = IF First(s, d) # 0 THEN First(s, d)
                               ELSE IF c = d THEN Len(s) + 1 ELSE 0
  BY FirstNext
<1>3. /\ SubSeq(s, First(s, d) + 1, Len(s)) \in Seq(S)
      /\ SubSeq(Append(s, c), First(s, d) + 1, Len(Append(s, c))) =
           Append(SubSeq(s, First(s, d) + 1, Len(s)), c)
      /\ SubSeq(Append(s, c), Len(s) + 2, Len(Append(s, c))) = <<>>
  BY <1>1, RestNext, SMTT(30)
<1>4. After(Append(s, c), d) = SubSeq(Append(s, c), First(Append(s, c), d) + 1, Len(Append(s, c)))
  BY DEF After
<1>5. CASE First(s, d) = 0 /\ c = d
  <2>1. (Len(s) + 1) + 1 = Len(s) + 2
    BY <1>1
  <2> QED
    BY <1>2, <1>3, <1>4, <1>5, <2>1 DEF After
<1>6. CASE ~(First(s, d) = 0 /\ c = d)
  <2>1. First(Append(s, c), d) = First(s, d)
    BY <1>2, <1>6
  <2> QED
    BY <1>3, <1>4, <1>6, <2>1 DEF After
<1> QED
  BY <1>3, <1>5, <1>6 DEF After

\* A sequence is what comes before its last element, and that one.
LEMMA LastAdded ==
  ASSUME NEW S, NEW s \in Seq(S), Len(s) > 0
  PROVE  Append(SubSeq(s, 1, Len(s) - 1), s[Len(s)]) = s
<1> DEFINE n == Len(s) - 1
           f == SubSeq(s, 1, n)
           g == Append(f, s[Len(s)])
<1>1. Len(s) \in Nat /\ n \in 0 .. Len(s) /\ Len(s) = n + 1 /\ s[Len(s)] \in S
  BY ElementOfSeq
<1>2. f \in Seq(S) /\ Len(f) = n /\ \A i \in 1 .. n : f[i] = s[i]
  BY <1>1, SubSeqProperties
<1> HIDE DEF f, n
<1>3. g \in Seq(S) /\ Len(g) = n + 1 /\ g[n + 1] = s[n + 1] /\ \A i \in 1 .. n : g[i] = s[i]
  BY <1>1, <1>2, AppendProperties
<1> HIDE DEF g
<1>4. \A i \in 1 .. Len(s) : g[i] = s[i]
  BY <1>1, <1>3
<1>5. g = s
  BY <1>1, <1>3, <1>4, SeqEqual
<1> QED
  BY <1>5 DEF g, f, n

-----------------------------------------------------------------------------
(* The letters of a name, in their order *)

\* The first k bytes of name are among those of bytes, in their order.
Placed(f, k, name, bytes) ==
  /\ \A i \in 1 .. k : f[i] \in 1 .. Len(bytes) /\ bytes[f[i]] = name[i]
  /\ \A i \in 2 .. k : f[i - 1] < f[i]

Began(k, name, bytes) == \E f : Placed(f, k, name, bytes)

LEMMA WithinIs ==
  ASSUME NEW S, NEW name \in Seq(S), NEW bytes \in Seq(S)
  PROVE  Within(name, bytes) <=> Began(Len(name), name, bytes)
<1> DEFINE n == Len(name)
<1>1. n \in Nat /\ DOMAIN name = 1 .. n /\ DOMAIN bytes = 1 .. Len(bytes)
  OBVIOUS
<1>2. \A i : i \in DOMAIN name \ {1} <=> i \in 2 .. n
  BY <1>1
<1>3. Within(name, bytes) => Began(n, name, bytes)
  <2> SUFFICES ASSUME Within(name, bytes) PROVE Began(n, name, bytes)
    OBVIOUS
  <2>1. PICK f \in [DOMAIN name -> DOMAIN bytes] :
          /\ \A k \in DOMAIN name : bytes[f[k]] = name[k]
          /\ \A k \in DOMAIN name \ {1} : f[k - 1] < f[k]
    BY DEF Within
  <2>2. Placed(f, n, name, bytes)
    BY <1>1, <1>2, <2>1 DEF Placed
  <2> QED
    BY <2>2 DEF Began
<1>4. Began(n, name, bytes) => Within(name, bytes)
  <2> SUFFICES ASSUME Began(n, name, bytes) PROVE Within(name, bytes)
    OBVIOUS
  <2>1. PICK f : Placed(f, n, name, bytes)
    BY DEF Began
  <2> DEFINE g == [i \in 1 .. n |-> f[i]]
  <2>2. g \in [DOMAIN name -> DOMAIN bytes] /\ \A k \in DOMAIN name : bytes[g[k]] = name[k]
    BY <1>1, <2>1 DEF Placed
  <2>3. \A k \in 2 .. n : g[k - 1] < g[k]
    <3> SUFFICES ASSUME NEW k \in 2 .. n PROVE g[k - 1] < g[k]
      OBVIOUS
    <3>1. k \in 1 .. n /\ k - 1 \in 1 .. n
      BY <1>1
    <3> QED
      BY <2>1, <3>1 DEF Placed
  <2> HIDE DEF g
  <2> QED
    BY <1>2, <2>2, <2>3 DEF Within
<1> QED
  BY <1>3, <1>4

\* Their places grow.
LEMMA PlacedGrows ==
  ASSUME NEW S, NEW name, NEW bytes \in Seq(S), NEW k \in Nat, NEW f, Placed(f, k + 1, name, bytes)
  PROVE  \A i \in 1 .. k : f[i] < f[k + 1]
<1> DEFINE Bad == {i \in 1 .. k : ~(f[i] < f[k + 1])}
<1> SUFFICES ASSUME Bad # {} PROVE FALSE
  OBVIOUS
<1>1. \A i \in 1 .. k + 1 : f[i] \in 1 .. Len(bytes)
  BY DEF Placed
<1>2. Len(bytes) \in Nat /\ Bad \in SUBSET (0 .. k)
  OBVIOUS
<1>3. PICK m \in Bad : \A i \in Bad : i <= m
  <2> HIDE DEF Bad
  <2> QED
    BY <1>2, Greatest
<1>4. m \in 1 .. k /\ ~(f[m] < f[k + 1]) /\ m + 1 \in 2 .. k + 1 /\ (m + 1) - 1 = m
  BY <1>3
<1>5. f[m] < f[m + 1]
  BY <1>4 DEF Placed
<1>6. m + 1 # k + 1
  BY <1>4, <1>5
<1>7. m + 1 \in 1 .. k
  BY <1>4, <1>6
<1>8. f[m] \in Nat /\ f[m + 1] \in Nat /\ f[k + 1] \in Nat
  BY <1>1, <1>2, <1>4
<1>9. ~(f[m + 1] < f[k + 1])
  BY <1>4, <1>5, <1>8
<1>10. m + 1 \in Bad
  BY <1>7, <1>9
<1>11. m + 1 <= m
  BY <1>3, <1>10
<1> QED
  BY <1>4, <1>11

\* The byte c is the one the name, begun in bytes, goes on with.
GoesOn(k, name, bytes, c) == Began(k, name, bytes) /\ c = name[k + 1]

\* One byte more: the name began before, or goes on with this byte.
LEMMA BeganNext ==
  ASSUME NEW S, NEW name, NEW bytes \in Seq(S), NEW c \in S, NEW more, more = Append(bytes, c)
  PROVE  \A k \in Nat : Began(k + 1, name, more) <=>
           Began(k + 1, name, bytes) \/ GoesOn(k, name, bytes, c)
<1> TAKE k \in Nat
<1> DEFINE n == Len(bytes)
<1>1. /\ n \in Nat /\ more \in Seq(S) /\ Len(more) = n + 1 /\ more[n + 1] = c
      /\ \A i \in 1 .. n : more[i] = bytes[i]
  BY AppendProperties, LenProperties
<1> HIDE DEF n
<1>2. ASSUME Began(k + 1, name, bytes) PROVE Began(k + 1, name, more)
  <2>1. PICK f : Placed(f, k + 1, name, bytes)
    BY <1>2 DEF Began
  <2>2. Placed(f, k + 1, name, more)
    BY <1>1, <2>1 DEF Placed, n
  <2> QED
    BY <2>2 DEF Began
<1>3. ASSUME Began(k, name, bytes), c = name[k + 1] PROVE Began(k + 1, name, more)
  <2>1. PICK f : Placed(f, k, name, bytes)
    BY <1>3 DEF Began
  <2> DEFINE g == [i \in 1 .. k + 1 |-> IF i = k + 1 THEN n + 1 ELSE f[i]]
  <2>2. \A i \in 1 .. k : g[i] = f[i] /\ f[i] \in 1 .. n /\ bytes[f[i]] = name[i]
    BY <2>1 DEF Placed, n
  <2>3. g[k + 1] = n + 1
    OBVIOUS
  <2> HIDE DEF g
  <2>4. \A i \in 1 .. k + 1 : g[i] \in 1 .. Len(more) /\ more[g[i]] = name[i]
    <3> SUFFICES ASSUME NEW i \in 1 .. k + 1
                 PROVE  g[i] \in 1 .. Len(more) /\ more[g[i]] = name[i]
      OBVIOUS
    <3>1. CASE i = k + 1
      BY <1>1, <1>3, <2>3, <3>1
    <3>2. CASE i # k + 1
      <4>1. i \in 1 .. k
        BY <3>2
      <4> QED
        BY <1>1, <2>2, <4>1
    <3> QED
      BY <3>1, <3>2
  <2>5. \A i \in 2 .. k + 1 : g[i - 1] < g[i]
    <3> SUFFICES ASSUME NEW i \in 2 .. k + 1
                 PROVE  g[i - 1] < g[i]
      OBVIOUS
    <3>1. i - 1 \in 1 .. k
      OBVIOUS
    <3>2. CASE i = k + 1
      BY <1>1, <2>2, <2>3, <3>1, <3>2
    <3>3. CASE i # k + 1
      <4>1. i \in 2 .. k /\ i \in 1 .. k
        BY <3>3
      <4>2. f[i - 1] < f[i]
        BY <2>1, <4>1 DEF Placed
      <4> QED
        BY <2>2, <3>1, <4>1, <4>2
    <3> QED
      BY <3>2, <3>3
  <2>6. Placed(g, k + 1, name, more)
    BY <2>4, <2>5 DEF Placed
  <2> QED
    BY <2>6 DEF Began
<1>4. ASSUME Began(k + 1, name, more)
      PROVE  Began(k + 1, name, bytes) \/ (Began(k, name, bytes) /\ c = name[k + 1])
  <2>1. PICK f : Placed(f, k + 1, name, more)
    BY <1>4 DEF Began
  <2>2. \A i \in 1 .. k : f[i] < f[k + 1]
    BY <1>1, <2>1, PlacedGrows
  <2>3. \A i \in 1 .. k + 1 : f[i] \in 1 .. n + 1 /\ more[f[i]] = name[i]
    BY <1>1, <2>1 DEF Placed
  <2>4. \A i \in 2 .. k + 1 : f[i - 1] < f[i]
    BY <2>1 DEF Placed
  <2>5. k + 1 \in 1 .. k + 1
    OBVIOUS
  <2>6. \A i \in 1 .. k : f[i] \in 1 .. n /\ bytes[f[i]] = name[i]
    <3> SUFFICES ASSUME NEW i \in 1 .. k
                 PROVE  f[i] \in 1 .. n /\ bytes[f[i]] = name[i]
      OBVIOUS
    <3>1. i \in 1 .. k + 1
      OBVIOUS
    <3>2. f[i] \in 1 .. n
      BY <1>1, <2>2, <2>3, <2>5, <3>1
    <3> QED
      BY <1>1, <2>3, <3>1, <3>2
  <2>7. CASE f[k + 1] = n + 1
    <3>1. c = name[k + 1]
      BY <1>1, <2>3, <2>5, <2>7
    <3>2. Placed(f, k, name, bytes)
      BY <2>4, <2>6 DEF Placed, n
    <3> QED
      BY <3>1, <3>2 DEF Began
  <2>8. CASE f[k + 1] # n + 1
    <3>1. f[k + 1] \in 1 .. n
      BY <1>1, <2>3, <2>5, <2>8
    <3>2. bytes[f[k + 1]] = name[k + 1]
      BY <1>1, <2>3, <2>5, <3>1
    <3>3. \A i \in 1 .. k + 1 : i \in 1 .. k \/ i = k + 1
      OBVIOUS
    <3>4. Placed(f, k + 1, name, bytes)
      BY <2>4, <2>6, <3>1, <3>2, <3>3 DEF Placed, n
    <3> QED
      BY <3>4 DEF Began
  <2> QED
    BY <2>7, <2>8
<1> QED
  BY <1>2, <1>3, <1>4 DEF GoesOn

LEMMA BeganLess ==
  ASSUME NEW name, NEW bytes, NEW k \in Nat, NEW j \in 0 .. k, Began(k, name, bytes)
  PROVE  Began(j, name, bytes)
<1>1. PICK f : Placed(f, k, name, bytes)
  BY DEF Began
<1>2. Placed(f, j, name, bytes)
  BY <1>1 DEF Placed
<1> QED
  BY <1>2 DEF Began

LEMMA BeganNothing ==
  ASSUME NEW name
  PROVE  /\ \A bytes : Began(0, name, bytes)
         /\ \A k \in Nat : ~Began(k + 1, name, <<>>)
<1>1. ASSUME NEW bytes PROVE Began(0, name, bytes)
  <2>1. Placed(<<>>, 0, name, bytes)
    BY DEF Placed
  <2> QED
    BY <2>1 DEF Began
<1>2. ASSUME NEW k \in Nat, NEW f PROVE ~Placed(f, k + 1, name, <<>>)
  BY DEF Placed
<1> QED
  BY <1>1, <1>2 DEF Began

-----------------------------------------------------------------------------
(* The lines, one byte later *)

Rank(S, i) == Cardinality({j \in S : j <= i})

\* Nth enumerates S.
Ranked(S) ==
  /\ S \subseteq Nat /\ IsFiniteSet(S)
  /\ \A k \in 1 .. Cardinality(S) : Nth(S, k) \in S /\ Rank(S, Nth(S, k)) = k

LEMMA RankGrows ==
  ASSUME NEW S \in SUBSET Nat, IsFiniteSet(S), NEW i \in S, NEW j \in S, i < j
  PROVE  Rank(S, i) < Rank(S, j)
<1> DEFINE I == {m \in S : m <= i}
           J == {m \in S : m <= j}
<1>1. I \in SUBSET J /\ IsFiniteSet(J)
  <2>1. \A m \in S : m <= i => m <= j
    OBVIOUS
  <2>2. J \in SUBSET S /\ I \in SUBSET J
    BY <2>1
  <2> HIDE DEF I, J
  <2> QED
    BY <2>2, FS_Subset
<1>2. j \in J /\ j \notin I
  OBVIOUS
<1>3. Cardinality(I) <= Cardinality(J) /\ IsFiniteSet(I) /\ Cardinality(I) # Cardinality(J)
  <2> HIDE DEF I, J
  <2> QED
    BY <1>1, <1>2, FS_Subset
<1>4. Cardinality(I) \in Nat /\ Cardinality(J) \in Nat
  <2> HIDE DEF I, J
  <2> QED
    BY <1>1, <1>3, FS_CardinalityType
<1>5. Rank(S, i) = Cardinality(I) /\ Rank(S, j) = Cardinality(J)
  BY DEF Rank
<1> HIDE DEF I, J
<1> QED
  BY <1>3, <1>4, <1>5

LEMMA NthIs ==
  ASSUME NEW S \in SUBSET Nat, IsFiniteSet(S), NEW i \in S
  PROVE  Nth(S, Rank(S, i)) = i
<1> DEFINE P(m) == Rank(S, m) = Rank(S, i)
<1>1. ASSUME NEW m \in S, P(m) PROVE m = i
  <2>1. ~(m < i) /\ ~(i < m)
    <3>1. Rank(S, i) \in Nat
      BY FS_Subset, FS_CardinalityType DEF Rank
    <3> QED
      BY <1>1, <3>1, RankGrows
  <2> QED
    BY <2>1
<1>2. Nth(S, Rank(S, i)) = CHOOSE m \in S : P(m)
  BY DEF Nth, Rank
<1>3. (CHOOSE m \in S : P(m)) \in S /\ P(CHOOSE m \in S : P(m))
  <2> HIDE DEF P
  <2>1. P(i)
    BY DEF P
  <2> QED
    BY <2>1
<1> HIDE DEF P
<1> QED
  BY <1>1, <1>2, <1>3

\* A number greater than those there comes last.
LEMMA NthNext ==
  ASSUME NEW S, Ranked(S), NEW e \in Nat, \A i \in S : i < e
  PROVE  LET T == S \cup {e}
             n == Cardinality(S)
         IN  /\ Ranked(T) /\ n \in Nat /\ Cardinality(T) = n + 1
             /\ \A k \in 1 .. n : Nth(T, k) = Nth(S, k)
             /\ Nth(T, n + 1) = e
<1> DEFINE T == S \cup {e}
           n == Cardinality(S)
<1>1. /\ S \in SUBSET Nat /\ IsFiniteSet(S)
      /\ \A k \in 1 .. n : Nth(S, k) \in S /\ Rank(S, Nth(S, k)) = k
  BY DEF Ranked
<1>2. e \notin S
  BY <1>1
<1>3. IsFiniteSet(T) /\ Cardinality(T) = n + 1 /\ n \in Nat /\ T \in SUBSET Nat
  BY <1>1, <1>2, FS_AddElement, FS_CardinalityType
<1>4. ASSUME NEW i \in S PROVE Rank(T, i) = Rank(S, i)
  <2>1. {j \in T : j <= i} = {j \in S : j <= i}
    BY <1>1
  <2> QED
    BY <2>1 DEF Rank
<1>5. Rank(T, e) = n + 1
  <2>1. \A j \in T : j <= e
    BY <1>1
  <2>2. {j \in T : j <= e} = T
    BY <2>1
  <2> QED
    BY <1>3, <2>2 DEF Rank
<1> HIDE DEF T, n
<1>6. S \subseteq T /\ e \in T
  BY DEF T
<1>7. ASSUME NEW k \in 1 .. n
      PROVE  Nth(T, k) = Nth(S, k) /\ Nth(T, k) \in T /\ Rank(T, Nth(T, k)) = k
  <2>1. Nth(S, k) \in S /\ Rank(T, Nth(S, k)) = k
    BY <1>1, <1>4
  <2>2. Nth(T, Rank(T, Nth(S, k))) = Nth(S, k)
    BY <1>3, <1>6, <2>1, NthIs
  <2> QED
    BY <1>6, <2>1, <2>2
<1>8. Nth(T, n + 1) = e /\ Rank(T, Nth(T, n + 1)) = n + 1
  <2>1. Nth(T, Rank(T, e)) = e
    BY <1>3, <1>6, NthIs
  <2> QED
    BY <1>5, <2>1
<1>9. Ranked(T)
  <2>1. \A k \in 1 .. n + 1 : k \in 1 .. n \/ k = n + 1
    BY <1>3
  <2> QED
    BY <1>3, <1>6, <1>7, <1>8, <2>1 DEF Ranked
<1> QED
  BY <1>3, <1>7, <1>8, <1>9 DEF T, n

LEMMA EndsAre ==
  ASSUME received \in Seq(Byte), Ranked(LineEnds)
  PROVE  /\ Cardinality(LineEnds) \in Nat /\ (Cardinality(LineEnds) = 0 <=> LineEnds = {})
         /\ \A k \in 0 .. Cardinality(LineEnds) : EndOf(k) \in 0 .. Len(received)
         /\ \A k \in 1 .. Cardinality(LineEnds) : EndOf(k) \in LineEnds
         /\ EndOf(Cardinality(LineEnds)) = HeaderEnd
<1> DEFINE n == Cardinality(LineEnds)
<1>1. n \in Nat /\ (n = 0 <=> LineEnds = {}) /\ LineEnds \in SUBSET Nat /\ IsFiniteSet(LineEnds)
  BY FS_CardinalityType, FS_EmptySet DEF Ranked
<1>2. /\ HeaderEnd \in 0 .. Len(received) /\ LineEnds \subseteq 2 .. Len(received)
      /\ \A i \in LineEnds : i <= HeaderEnd
      /\ HeaderEnd \in LineEnds \/ (LineEnds = {} /\ HeaderEnd = 0)
  BY HeaderEndIs
<1>3. \A k \in 1 .. n : EndOf(k) \in LineEnds
  BY <1>1 DEF Ranked, EndOf
<1>4. EndOf(0) = 0
  BY DEF EndOf
<1>5. \A k \in 0 .. n : EndOf(k) \in 0 .. Len(received)
  <2>1. \A k \in 0 .. n : k = 0 \/ k \in 1 .. n
    BY <1>1
  <2>2. Len(received) \in Nat
    OBVIOUS
  <2> HIDE DEF n
  <2>3. ASSUME NEW k \in 0 .. n PROVE EndOf(k) \in 0 .. Len(received)
    <3>1. CASE k = 0
      BY <1>4, <2>2, <3>1
    <3>2. CASE k \in 1 .. n
      <4>1. EndOf(k) \in 2 .. Len(received)
        BY <1>2, <1>3, <3>2
      <4> QED
        BY <2>2, <4>1
    <3> QED
      BY <2>1, <3>1, <3>2
  <2> QED
    BY <2>3
<1>6. EndOf(n) = HeaderEnd
  <2>1. CASE LineEnds = {}
    BY <1>1, <1>2, <1>4, <2>1
  <2>2. CASE LineEnds # {}
    <3>1. {j \in LineEnds : j <= HeaderEnd} = LineEnds
      BY <1>2
    <3>2. Rank(LineEnds, HeaderEnd) = n
      BY <3>1 DEF Rank
    <3>3. Nth(LineEnds, n) = HeaderEnd
      BY <1>1, <1>2, <2>2, <3>2, NthIs
    <3> QED
      BY <1>1, <2>2, <3>3 DEF EndOf
  <2> QED
    BY <2>1, <2>2
<1> QED
  BY <1>1, <1>3, <1>5, <1>6

LEMMA PartStays ==
  ASSUME NEW S, NEW s \in Seq(S), NEW c \in S, NEW a \in Nat, NEW b \in Int, b <= Len(s)
  PROVE  /\ SubSeq(Append(s, c), a + 1, b) = SubSeq(s, a + 1, b)
         /\ SubSeq(s, a + 1, b) \in Seq(S)
<1> DEFINE t == Append(s, c)
           u == SubSeq(t, a + 1, b)
           v == SubSeq(s, a + 1, b)
<1>1. /\ t \in Seq(S) /\ Len(s) \in Nat
      /\ \A i \in 1 .. Len(s) : t[i] = s[i] /\ s[i] \in S
  BY AppendProperties, LenProperties
<1> HIDE DEF t
<1>2. \A i \in a + 1 .. b : t[i] = s[i] /\ t[i] \in S /\ s[i] \in S
  BY <1>1
<1>3. a + 1 \in Int
  OBVIOUS
<1>4. /\ u \in Seq(S) /\ v \in Seq(S) /\ Len(u) = Len(v)
      /\ \A i \in 1 .. b - (a + 1) + 1 : u[i] = t[a + 1 + i - 1] /\ v[i] = s[a + 1 + i - 1]
      /\ Len(u) = IF a + 1 <= b THEN b - (a + 1) + 1 ELSE 0
  BY <1>2, <1>3, SubSeqProperties
<1> HIDE DEF u, v
<1>5. \A i \in 1 .. Len(u) : u[i] = v[i]
  <2> SUFFICES ASSUME NEW i \in 1 .. Len(u) PROVE u[i] = v[i]
    OBVIOUS
  <2>1. i \in 1 .. b - (a + 1) + 1 /\ a + 1 + i - 1 \in a + 1 .. b
    BY <1>4
  <2> QED
    BY <1>2, <1>4, <2>1
<1>6. u = v
  BY <1>4, <1>5, SeqEqual
<1> QED
  BY <1>4, <1>6 DEF u, v, t

\* The lines known are sequences of bytes.
LEMMA LinesType ==
  ASSUME received \in Seq(Byte), Ranked(LineEnds)
  PROVE  Lines \in Seq(Seq(Byte)) /\ Len(Lines) = Cardinality(LineEnds)
<1> DEFINE n == Cardinality(LineEnds)
<1>1. n \in Nat /\ \A k \in 0 .. n : EndOf(k) \in 0 .. Len(received)
  BY EndsAre
<1>2. ASSUME NEW k \in 1 .. n
      PROVE  SubSeq(received, EndOf(k - 1) + 1, EndOf(k) - 2) \in Seq(Byte)
  <2>1. k - 1 \in 0 .. n /\ k \in 0 .. n
    BY <1>1
  <2>2. EndOf(k - 1) \in Nat /\ EndOf(k) - 2 \in Int /\ EndOf(k) - 2 <= Len(received)
    BY <1>1, <2>1
  <2>3. \A i \in EndOf(k - 1) + 1 .. EndOf(k) - 2 : received[i] \in Byte
    BY <1>1, <2>2
  <2> QED
    BY <2>2, <2>3, SubSeqProperties
<1>3. Lines = [k \in 1 .. n |-> SubSeq(received, EndOf(k - 1) + 1, EndOf(k) - 2)]
  BY DEF Lines
<1> HIDE DEF n
<1>4. Lines \in Seq(Seq(Byte)) /\ Len(Lines) = n
  BY <1>1, <1>2, <1>3
<1> QED
  BY <1>4 DEF n

\* At the end of a line, its last byte before LF is CR.
LEMMA LastOfLine ==
  ASSUME received \in Seq(Byte), LastCR
  PROVE  /\ Len(Body) \in Nat \ {0} /\ Body[Len(Body)] = "CR"
         /\ Len(Body) = Len(received) - HeaderEnd
         /\ \A i \in 1 .. Len(Body) : Body[i] = received[HeaderEnd + i]
<1> DEFINE n == Len(received)
           h == HeaderEnd
<1>1. n \in Nat /\ n > 0 /\ received[n] = "CR"
  BY DEF LastCR
<1>2. h \in 0 .. n /\ (h \in LineEnds \/ h = 0)
  BY HeaderEndIs
<1>3. h # n
  BY <1>1, <1>2 DEF LineEnds, Ends
<1>4. \A i \in h + 1 .. n : received[i] \in Byte
  BY <1>1, <1>2
<1>5. Body = SubSeq(received, h + 1, n) /\ h + 1 \in Int /\ n \in Int /\ h + 1 <= n
  BY <1>1, <1>2, <1>3 DEF Body
<1>6. Len(Body) = n - h /\ n - h \in Nat \ {0}
  <2>1. Len(Body) = n - (h + 1) + 1
    BY <1>4, <1>5, SubSeqProperties
  <2> QED
    BY <1>1, <1>2, <1>3, <2>1
<1>7. \A i \in 1 .. n - (h + 1) + 1 : Body[i] = received[(h + 1) + i - 1]
  BY <1>4, <1>5, SubSeqProperties
<1> HIDE DEF n, h
<1>8. ASSUME NEW i \in 1 .. n - h PROVE Body[i] = received[h + i]
  <2>1. i \in 1 .. n - (h + 1) + 1 /\ (h + 1) + i - 1 = h + i
    BY <1>1, <1>2, <1>6
  <2> QED
    BY <1>7, <2>1
<1>9. n - h \in 1 .. n - h /\ h + (n - h) = n
  BY <1>1, <1>2, <1>6
<1>10. Body[n - h] = "CR"
  BY <1>1, <1>8, <1>9
<1> QED
  BY <1>6, <1>8, <1>10 DEF n, h

LEMMA LinesNext ==
  ASSUME received \in Seq(Byte), NEW c \in Byte, received' = Append(received, c),
         Ranked(LineEnds)
  PROVE  /\ Ranked(LineEnds')
         /\ Blanks = {} /\ LastCR /\ c = "LF" =>
              Lines' = Append(Lines, SubSeq(Body, 1, Len(Body) - 1))
         /\ ~(Blanks = {} /\ LastCR /\ c = "LF") => Lines' = Lines
<1> DEFINE n == Len(received)
<1> PICK k0 : k0 = Cardinality(LineEnds)
  OBVIOUS
<1>1. /\ n \in Nat /\ k0 \in Nat
      /\ \A k \in 0 .. k0 : EndOf(k) \in 0 .. n
      /\ \A k \in 1 .. k0 : EndOf(k) \in LineEnds
      /\ EndOf(k0) = HeaderEnd
  BY EndsAre
<1>2. /\ Blanks # {} => LineEnds' = LineEnds
      /\ Blanks = {} => LineEnds = Ends /\ LineEnds' = Ends'
      /\ Ends' = Ends \cup (IF LastCR /\ c = "LF" THEN {n + 1} ELSE {})
      /\ LineEnds \subseteq 2 .. n
  BY HeaderEndNext, EndsNext, HeaderEndIs
<1>3. Lines' = [k \in 1 .. Cardinality(LineEnds') |->
                  SubSeq(Append(received, c), EndOf(k - 1)' + 1, EndOf(k)' - 2)]
  BY DEF Lines
<1>4. \A k \in Nat : EndOf(k)' = IF k = 0 THEN 0 ELSE Nth(LineEnds', k)
  BY DEF EndOf
<1>5. ASSUME NEW k \in 1 .. k0
      PROVE  SubSeq(Append(received, c), EndOf(k - 1) + 1, EndOf(k) - 2) = Lines[k]
  <2>1. k - 1 \in 0 .. k0 /\ k \in 0 .. k0
    BY <1>1
  <2>2. EndOf(k - 1) \in Nat /\ EndOf(k) - 2 \in Int /\ EndOf(k) - 2 <= n
    BY <1>1, <2>1
  <2>3. SubSeq(Append(received, c), EndOf(k - 1) + 1, EndOf(k) - 2) =
          SubSeq(received, EndOf(k - 1) + 1, EndOf(k) - 2)
    <3> DEFINE a == EndOf(k - 1)
               b == EndOf(k) - 2
    <3>1. a \in Nat /\ b \in Int /\ b <= Len(received)
      BY <2>2
    <3> HIDE DEF a, b
    <3>2. SubSeq(Append(received, c), a + 1, b) = SubSeq(received, a + 1, b)
      BY <3>1, PartStays
    <3> QED
      BY <3>2 DEF a, b
  <2> QED
    BY <2>3 DEF Lines
<1>6. Lines \in Seq(Seq(Byte)) /\ Len(Lines) = k0
  BY LinesType
<1>7. CASE ~(Blanks = {} /\ LastCR /\ c = "LF")
  <2>1. LineEnds' = LineEnds
    BY <1>2, <1>7
  <2>2. \A k \in 0 .. k0 : EndOf(k)' = EndOf(k)
    BY <1>1, <1>4, <2>1 DEF EndOf
  <2>3. Cardinality(LineEnds') = k0
    BY <2>1
  <2>4. \A k \in 1 .. k0 : k - 1 \in 0 .. k0 /\ k \in 0 .. k0
    BY <1>1
  <2>5. Lines' = [k \in 1 .. k0 |-> Lines[k]]
    BY <1>3, <1>5, <2>2, <2>3, <2>4
  <2>6. Lines' = Lines
    BY <1>6, <2>5
  <2>7. Ranked(LineEnds')
    BY <2>1
  <2> QED
    BY <1>7, <2>6, <2>7
<1>8. CASE Blanks = {} /\ LastCR /\ c = "LF"
  <2>1. LineEnds' = LineEnds \cup {n + 1}
    BY <1>2, <1>8
  <2>2. /\ Ranked(LineEnds') /\ Cardinality(LineEnds') = k0 + 1
        /\ \A k \in 1 .. k0 : Nth(LineEnds', k) = Nth(LineEnds, k)
        /\ Nth(LineEnds', k0 + 1) = n + 1
    <3>1. n + 1 \in Nat /\ \A i \in LineEnds : i < n + 1
      BY <1>1, <1>2
    <3> QED
      BY <2>1, <3>1, NthNext
  <2>3. \A k \in 0 .. k0 : EndOf(k)' = EndOf(k)
    BY <1>1, <1>4, <2>2 DEF EndOf
  <2>4. EndOf(k0 + 1)' = n + 1
    <3>1. k0 + 1 \in Nat /\ k0 + 1 # 0
      BY <1>1
    <3> QED
      BY <1>4, <2>2, <3>1
  <2>5. /\ Len(Body) \in Nat \ {0} /\ Len(Body) = n - HeaderEnd
        /\ \A i \in 1 .. Len(Body) : Body[i] = received[HeaderEnd + i]
    BY <1>8, LastOfLine
  <2>6. Body \in Seq(Byte)
    BY BodyNext
  <2> DEFINE line == SubSeq(Body, 1, Len(Body) - 1)
  <2>7. line = SubSeq(Append(received, c), HeaderEnd + 1, (n + 1) - 2)
    <3>1. /\ HeaderEnd \in Nat /\ Len(Body) - 1 \in Nat /\ Len(Body) - 1 <= Len(Body)
          /\ HeaderEnd + (Len(Body) - 1) <= n
          /\ \A i \in 1 .. Len(Body) - 1 : Body[i] = received[HeaderEnd + i]
          /\ HeaderEnd + (Len(Body) - 1) = (n + 1) - 2
      BY <1>1, <2>5, HeaderEndIs
    <3>2. line = SubSeq(received, HeaderEnd + 1, HeaderEnd + (Len(Body) - 1))
      BY <2>6, <3>1, SameParts
    <3>3. (n + 1) - 2 \in Int /\ (n + 1) - 2 <= n
      BY <1>1
    <3>4. SubSeq(Append(received, c), HeaderEnd + 1, (n + 1) - 2) =
            SubSeq(received, HeaderEnd + 1, (n + 1) - 2)
      <4> DEFINE b == (n + 1) - 2
      <4>1. b \in Int /\ b <= Len(received)
        BY <3>3
      <4> HIDE DEF b, n
      <4>2. SubSeq(Append(received, c), HeaderEnd + 1, b) = SubSeq(received, HeaderEnd + 1, b)
        BY <3>1, <4>1, PartStays
      <4> QED
        BY <4>2 DEF b
    <3> QED
      BY <3>1, <3>2, <3>4
  <2>8. line \in Seq(Byte)
    <3>1. \A i \in 1 .. Len(Body) - 1 : Body[i] \in Byte
      BY <2>5, <2>6
    <3> QED
      BY <2>5, <3>1, SubSeqProperties
  <2> HIDE DEF line
  <2>9. \A k \in 1 .. k0 + 1 :
          SubSeq(Append(received, c), EndOf(k - 1)' + 1, EndOf(k)' - 2) =
            IF k = k0 + 1 THEN line ELSE Lines[k]
    <3> SUFFICES ASSUME NEW k \in 1 .. k0 + 1
                 PROVE  SubSeq(Append(received, c), EndOf(k - 1)' + 1, EndOf(k)' - 2) =
                          IF k = k0 + 1 THEN line ELSE Lines[k]
      OBVIOUS
    <3>1. CASE k = k0 + 1
      <4>1. k - 1 = k0 /\ k0 \in 0 .. k0
        BY <1>1, <3>1
      <4>2. EndOf(k - 1)' = HeaderEnd
        BY <1>1, <2>3, <4>1
      <4>3. EndOf(k)' = n + 1
        BY <2>4, <3>1
      <4> QED
        BY <2>7, <3>1, <4>2, <4>3
    <3>2. CASE k # k0 + 1
      <4>1. k - 1 \in 0 .. k0 /\ k \in 0 .. k0 /\ k \in 1 .. k0
        BY <1>1, <3>2
      <4> QED
        BY <1>5, <2>3, <3>2, <4>1
    <3> QED
      BY <3>1, <3>2
  <2>10. Lines' = [k \in 1 .. k0 + 1 |-> IF k = k0 + 1 THEN line ELSE Lines[k]]
    BY <1>3, <2>2, <2>9
  <2>11. /\ Append(Lines, line) \in Seq(Seq(Byte)) /\ Len(Append(Lines, line)) = k0 + 1
         /\ \A k \in 1 .. k0 : Append(Lines, line)[k] = Lines[k]
         /\ Append(Lines, line)[k0 + 1] = line
    BY <1>6, <2>8, AppendProperties
  <2>12. Append(Lines, line) = [k \in 1 .. k0 + 1 |-> Append(Lines, line)[k]]
    <3> DEFINE ap == Append(Lines, line)
    <3>1. ap \in Seq(Seq(Byte)) /\ Len(ap) = k0 + 1
      BY <2>11
    <3> HIDE DEF ap
    <3>2. ap \in [1 .. k0 + 1 -> Seq(Byte)]
      BY <3>1, LenProperties
    <3>3. ap = [k \in 1 .. k0 + 1 |-> ap[k]]
      BY <3>2
    <3> QED
      BY <3>3 DEF ap
  <2>13. \A k \in 1 .. k0 + 1 : Append(Lines, line)[k] = IF k = k0 + 1 THEN line ELSE Lines[k]
    <3>1. \A k \in 1 .. k0 + 1 : k = k0 + 1 \/ k \in 1 .. k0
      BY <1>1
    <3> QED
      BY <2>11, <3>1
  <2>14. Lines' = Append(Lines, line)
    <3> DEFINE ap == Append(Lines, line)
    <3>1. ap = [k \in 1 .. k0 + 1 |-> ap[k]]
            /\ \A k \in 1 .. k0 + 1 : ap[k] = IF k = k0 + 1 THEN line ELSE Lines[k]
      BY <2>12, <2>13
    <3> HIDE DEF ap
    <3>2. Lines' = ap
      BY <2>10, <3>1
    <3> QED
      BY <3>2 DEF ap
  <2> QED
    BY <1>8, <2>2, <2>14 DEF line
<1> QED
  BY <1>7, <1>8

-----------------------------------------------------------------------------
(* The host in the target, one byte later *)

LEMMA HostEndsNext ==
  ASSUME NEW S, NEW r \in Seq(S), NEW c \in S
  PROVE  /\ HostEnds(r) \subseteq HostAt(r) + 1 .. Len(r) /\ HostAt(r) \in Nat \ {0, 1}
         /\ First(r, "SLASH") = 0 => HostEnds(r) = {} /\ HostEnds(Append(r, c)) = {}
         /\ First(r, "SLASH") # 0 =>
              /\ HostAt(Append(r, c)) = HostAt(r)
              /\ HostEnds(Append(r, c)) = HostEnds(r) \cup
                   (IF Len(r) >= HostAt(r) /\ c = "SLASH" /\ r[Len(r)] # "DASH"
                    THEN {Len(r) + 1} ELSE {})
<1> DEFINE t == Append(r, c)
           n == Len(r)
<1>1. /\ t \in Seq(S) /\ Len(t) = n + 1 /\ n \in Nat /\ t[n + 1] = c
      /\ \A i \in 1 .. n : t[i] = r[i]
  BY AppendProperties, LenProperties
<1>2. First(t, "SLASH") = IF First(r, "SLASH") # 0 THEN First(r, "SLASH")
                          ELSE IF c = "SLASH" THEN n + 1 ELSE 0
  BY FirstNext
<1>3. /\ First(r, "SLASH") \in 0 .. n
      /\ \A i \in 1 .. n : r[i] = "SLASH" => First(r, "SLASH") # 0
  BY FirstIs
<1> HIDE DEF t, n
<1>4. HostEnds(r) \subseteq HostAt(r) + 1 .. n /\ HostAt(r) \in Nat \ {0, 1}
  BY <1>1, <1>3 DEF HostEnds, HostAt, n
<1>5. CASE First(r, "SLASH") = 0
  <2>1. HostEnds(r) = {}
    BY <1>1, <1>3, <1>5 DEF HostEnds, HostAt, n
  <2>2. HostEnds(t) = {}
    <3>1. CASE c = "SLASH"
      BY <1>1, <1>2, <1>5, <3>1 DEF HostEnds, HostAt
    <3>2. CASE c # "SLASH"
      <4>1. \A i \in 1 .. n + 1 : t[i] # "SLASH"
        BY <1>1, <1>3, <1>5, <3>2
      <4> QED
        BY <1>1, <1>2, <1>5, <3>2, <4>1 DEF HostEnds, HostAt
    <3> QED
      BY <3>1, <3>2
  <2> QED
    BY <1>4, <1>5, <2>1, <2>2 DEF t, n
<1>6. CASE First(r, "SLASH") # 0
  <2>1. HostAt(t) = HostAt(r)
    BY <1>2, <1>6 DEF HostAt
  <2>2. \A i \in HostAt(r) + 1 .. n : i \in HostEnds(t) <=> i \in HostEnds(r)
    <3> SUFFICES ASSUME NEW i \in HostAt(r) + 1 .. n
                 PROVE  i \in HostEnds(t) <=> i \in HostEnds(r)
      OBVIOUS
    <3>1. i \in 1 .. n /\ i - 1 \in 1 .. n /\ i \in HostAt(r) + 1 .. n + 1
      BY <1>1, <1>4
    <3> QED
      BY <1>1, <2>1, <3>1 DEF HostEnds, n
  <2>3. n + 1 \in HostEnds(t) <=> n >= HostAt(r) /\ c = "SLASH" /\ r[n] # "DASH"
    <3>1. CASE n >= HostAt(r)
      <4>1. n \in 1 .. n /\ n + 1 \in HostAt(r) + 1 .. n + 1 /\ (n + 1) - 1 = n
        BY <1>1, <1>4, <3>1
      <4> QED
        BY <1>1, <2>1, <3>1, <4>1 DEF HostEnds
    <3>2. CASE ~(n >= HostAt(r))
      <4>1. n + 1 \notin HostAt(r) + 1 .. n + 1
        BY <1>1, <1>4, <3>2
      <4> QED
        BY <1>1, <2>1, <3>2, <4>1 DEF HostEnds
    <3> QED
      BY <3>1, <3>2
  <2>4. HostEnds(t) \subseteq HostAt(r) + 1 .. n + 1 /\ n + 1 \notin HostEnds(r)
    BY <1>1, <1>4, <2>1 DEF HostEnds
  <2>5. \A i \in HostAt(r) + 1 .. n + 1 : i \in HostAt(r) + 1 .. n \/ i = n + 1
    BY <1>1, <1>4
  <2>6. HostEnds(t) = HostEnds(r) \cup (IF n >= HostAt(r) /\ c = "SLASH" /\ r[n] # "DASH"
                                        THEN {n + 1} ELSE {})
    BY <1>4, <2>2, <2>3, <2>4, <2>5
  <2> QED
    BY <1>4, <1>6, <2>1, <2>6 DEF t, n
<1> QED
  BY <1>5, <1>6

LEMMA LeastIs ==
  ASSUME NEW T \in SUBSET Nat, NEW k \in T, \A i \in T : k <= i
  PROVE  Min(T) = k
<1>1. \A m \in T : (\A i \in T : m <= i) => m = k
  OBVIOUS
<1> QED
  BY <1>1 DEF Min

\* Once the host has ended it stays; when it ends, it is what there is after the
\* second slash.
LEMMA HostInNext ==
  ASSUME NEW S, NEW r \in Seq(S), NEW c \in S
  PROVE  /\ HostEnds(r) # {} => HostEnds(Append(r, c)) # {} /\ HostIn(Append(r, c)) = HostIn(r)
         /\ HostEnds(r) = {} /\ HostEnds(Append(r, c)) # {} =>
              HostIn(Append(r, c)) = SubSeq(r, HostAt(r), Len(r))
<1> DEFINE t == Append(r, c)
           n == Len(r)
           E == HostEnds(r)
           F == HostEnds(t)
           h == HostAt(r)
<1>1. n \in Nat
  BY LenProperties
<1>2. /\ E \subseteq h + 1 .. n /\ h \in Nat \ {0, 1}
      /\ First(r, "SLASH") = 0 => E = {} /\ F = {}
      /\ First(r, "SLASH") # 0 =>
           /\ HostAt(t) = h
           /\ F = E \cup (IF n >= h /\ c = "SLASH" /\ r[n] # "DASH" THEN {n + 1} ELSE {})
  BY HostEndsNext
<1>3. \A b \in Int : b <= n => SubSeq(t, h, b) = SubSeq(r, h, b)
  <2> SUFFICES ASSUME NEW b \in Int, b <= n PROVE SubSeq(t, h, b) = SubSeq(r, h, b)
    OBVIOUS
  <2>1. h - 1 \in Nat /\ (h - 1) + 1 = h
    BY <1>2
  <2> HIDE DEF h
  <2>2. SubSeq(t, (h - 1) + 1, b) = SubSeq(r, (h - 1) + 1, b)
    BY <2>1, PartStays
  <2> QED
    BY <2>1, <2>2
<1>4. /\ HostIn(t) = IF F = {} THEN <<>> ELSE SubSeq(t, HostAt(t), Min(F) - 1)
      /\ HostIn(r) = IF E = {} THEN <<>> ELSE SubSeq(r, h, Min(E) - 1)
  BY DEF HostIn
<1> HIDE DEF t, n, E, F, h
<1>5. CASE E # {}
  <2>1. PICK k \in E : \A i \in E : k <= i
    <3>1. E \in SUBSET Nat
      BY <1>1, <1>2
    <3>2. PICK k0 \in E : TRUE
      BY <1>5
    <3> QED
      BY <3>1, <3>2, Least
  <2>2. k \in F /\ k \in Nat /\ k <= n /\ E \in SUBSET Nat /\ F \in SUBSET Nat
          /\ \A i \in F : k <= i
    <3>1. \A i \in E : i \in Nat /\ i <= n
      BY <1>1, <1>2
    <3>2. \A i \in F : i \in E \/ i = n + 1
      BY <1>2, <1>5
    <3>3. E \subseteq F
      BY <1>2, <1>5
    <3> QED
      BY <1>1, <2>1, <3>1, <3>2, <3>3
  <2>3. Min(E) = k /\ Min(F) = k
    BY <2>1, <2>2, LeastIs
  <2>4. SubSeq(t, h, k - 1) = SubSeq(r, h, k - 1)
    <3>1. k - 1 \in Int /\ k - 1 <= n
      BY <1>1, <2>2
    <3> QED
      BY <1>3, <3>1
  <2> QED
    BY <1>2, <1>4, <1>5, <2>2, <2>3, <2>4 DEF t, n, E, F, h
<1>6. CASE E = {} /\ F # {}
  <2>1. F = {n + 1} /\ HostAt(t) = h
    BY <1>2, <1>6
  <2>2. Min(F) = n + 1
    <3>1. F \in SUBSET Nat /\ n + 1 \in F /\ \A i \in F : n + 1 <= i
      BY <1>1, <2>1
    <3> QED
      BY <3>1, LeastIs
  <2>3. (n + 1) - 1 = n /\ n \in Int /\ n <= n
    BY <1>1
  <2>4. HostIn(t) = SubSeq(r, h, n)
    BY <1>3, <1>4, <1>6, <2>1, <2>2, <2>3
  <2> QED
    BY <1>6, <2>4 DEF t, n, E, F, h
<1> QED
  BY <1>5, <1>6 DEF E, F, t

-----------------------------------------------------------------------------
(* The target of the request *)

HostStates == {"SCHEME", "MAY_HOST1", "MAY_HOST2", "GUION", "HOST", "REST"}

\* A step t of the automaton of an absolute target, from q on the byte c.
AbsMove(q, c, t) ==
  /\ q = "SCHEME_FIRST" => t.dest = "SCHEME" /\ t.acts = "scheme"
  /\ q = "SCHEME" =>
       t.dest \in {"SCHEME", "MAY_HOST1"} /\ t.acts = "scheme" /\ c # "SLASH"
  /\ q = "MAY_HOST1" => t.dest = "MAY_HOST2" /\ t.acts = "wait_host" /\ c = "SLASH"
  /\ q = "MAY_HOST2" => t.dest = "GUION" /\ t.acts = "wait_host" /\ c = "SLASH"
  /\ q = "GUION" => t.dest = "HOST" /\ t.acts = "byte_host" /\ c # "DASH"
  /\ q = "HOST" /\ c = "SLASH" => t.dest = "REST" /\ t.acts = "byte_rest"
  /\ q = "HOST" /\ c # "SLASH" =>
       t.dest = (IF c = "DASH" THEN "GUION" ELSE "HOST") /\ t.acts = "byte_host"
  /\ q = "REST" /\ c # "SP" => t.dest = "REST" /\ t.acts = "byte_rest"
  /\ q = "REST" /\ c = "SP" => t.dest = "FIN" /\ t.acts = "fin"

LEMMA AbsMoves ==
  ASSUME ParserAssumption, NEW q, NEW c,
         parser_feed(HTTP_request_abs[q], c).acts # "error"
  PROVE  AbsMove(q, c, parser_feed(HTTP_request_abs[q], c))
<1> DEFINE t == parser_feed(HTTP_request_abs[q], c)
<1>1. q = "SCHEME_FIRST" => t = To("SCHEME", "scheme") \/ t = To("ERROR", "error")
  <2>1. HTTP_request_abs["SCHEME_FIRST"] = [ALPHA |-> To("SCHEME", "scheme"), ANY |-> To("ERROR", "error")]
    BY DEF HTTP_request_abs
  <2> QED
    BY <2>1 DEF parser_feed
<1>2. q = "SCHEME" => \/ t = To("SCHEME", "scheme") /\ c # "SLASH"
                      \/ t = To("MAY_HOST1", "scheme") /\ c # "SLASH"
                      \/ t = To("ERROR", "error")
  <2>1. q = "SCHEME" => t = IF c = "COLON" THEN To("MAY_HOST1", "scheme")
                            ELSE IF c = "SCHEME" \/ (c # "ANY" /\ c \in SCHEME_TOKEN)
                            THEN To("SCHEME", "scheme") ELSE To("ERROR", "error")
    BY DEF HTTP_request_abs, parser_feed
  <2> QED
    BY <2>1 DEF ParserAssumption
<1>3. q = "MAY_HOST1" => \/ t = To("MAY_HOST2", "wait_host") /\ c = "SLASH"
                      \/ t = To("ERROR", "error")
  <2>1. HTTP_request_abs["MAY_HOST1"] = [SLASH |-> To("MAY_HOST2", "wait_host"), ANY |-> To("ERROR", "error")]
    BY DEF HTTP_request_abs
  <2> QED
    BY <2>1 DEF parser_feed
<1>4. q = "MAY_HOST2" => \/ t = To("GUION", "wait_host") /\ c = "SLASH"
                      \/ t = To("ERROR", "error")
  <2>1. HTTP_request_abs["MAY_HOST2"] = [SLASH |-> To("GUION", "wait_host"), ANY |-> To("ERROR", "error")]
    BY DEF HTTP_request_abs
  <2> QED
    BY <2>1 DEF parser_feed
<1>5. q = "GUION" => (t = To("HOST", "byte_host") /\ c # "DASH") \/ t = To("ERROR", "error")
  <2>1. q = "GUION" /\ c = "DASH" => t = To("ERROR", "error")
    BY DEF HTTP_request_abs, parser_feed
  <2>2. q = "GUION" => t \in {To("HOST", "byte_host"), To("ERROR", "error")}
    BY DEF HTTP_request_abs, parser_feed
  <2> HIDE DEF t
  <2> QED
    BY <2>1, <2>2
<1>6. q = "HOST" => \/ t = To("REST", "byte_rest") /\ c = "SLASH"
                    \/ t = To("GUION", "byte_host") /\ c = "DASH"
                    \/ t = To("HOST", "byte_host") /\ c \notin {"SLASH", "DASH"}
                    \/ t = To("ERROR", "error")
  <2>1. q = "HOST" /\ c = "SLASH" => t = To("REST", "byte_rest")
    BY DEF HTTP_request_abs, parser_feed
  <2>2. q = "HOST" /\ c = "DASH" => t = To("GUION", "byte_host")
    BY DEF HTTP_request_abs, parser_feed
  <2>3. q = "HOST" /\ c = "UNDERSCORE" => t = To("ERROR", "error")
    BY DEF HTTP_request_abs, parser_feed
  <2>4. q = "HOST" /\ c \notin {"SLASH", "DASH", "UNDERSCORE"} => t = To("HOST", "byte_host")
    BY DEF HTTP_request_abs, parser_feed
  <2> HIDE DEF t
  <2> QED
    BY <2>1, <2>2, <2>3, <2>4
<1>7. q = "REST" => IF c = "SP" THEN t = To("FIN", "fin") ELSE t = To("REST", "byte_rest")
  <2>1. HTTP_request_abs["REST"] = [SP |-> To("FIN", "fin"), ANY |-> To("REST", "byte_rest")]
    BY DEF HTTP_request_abs
  <2> QED
    BY <2>1 DEF parser_feed
<1> HIDE DEF t
<1>8. t.acts # "error"
  BY DEF t
<1>9. \A d, a : To(d, a).dest = d /\ To(d, a).acts = a
  BY DEF To
<1> QED
  BY <1>1, <1>2, <1>3, <1>4, <1>5, <1>6, <1>7, <1>8, <1>9 DEF t, AbsMove

LEMMA AbsByte ==
  ASSUME NEW x \in Ctx, NEW c
  PROVE  LET t == parser_feed(HTTP_request_abs[x.HTTP_request_abs], c)
             z == http_abs_parser(x, c)
         IN  /\ z.HTTP_request_abs = t.dest
             /\ z.uri_host = IF t.acts = "byte_host" THEN Append(x.uri_host, c) ELSE x.uri_host
             /\ z.uri_has_host = IF t.acts = "fin" THEN x.uri_has_host \/ x.uri_host # <<>>
                                                   ELSE x.uri_has_host
             /\ t.acts = "error" => z.error
             /\ Only({"HTTP_request_abs", "uri_host", "uri_has_host", "error"}, x, z)
<1> DEFINE t == parser_feed(HTTP_request_abs[x.HTTP_request_abs], c)
           y == [x EXCEPT !.HTTP_request_abs = t.dest]
           z == http_abs_parser(x, c)
           F == {"HTTP_request_abs", "uri_host", "uri_has_host", "error"}
<1>1. DOMAIN x = Fields
  BY CtxFields
<1>2. z = CASE t.acts = "error"     -> Error(y)
            [] t.acts = "byte_host" -> [y EXCEPT !.uri_host = Append(@, c)]
            [] t.acts = "fin"       -> [y EXCEPT !.uri_has_host = @ \/ x.uri_host # <<>>]
            [] OTHER                -> y
  BY DEF http_abs_parser
<1> HIDE DEF t, z
<1>3. CASE t.acts = "error"
  <2>1. z = Error(y)
    BY <1>2, <1>3
  <2> QED
    BY <1>1, <1>3, <2>1 DEF Error, Only, Fields, t, z
<1>4. CASE t.acts = "byte_host"
  <2>1. z = [y EXCEPT !.uri_host = Append(@, c)]
    BY <1>2, <1>4
  <2> QED
    BY <1>1, <1>4, <2>1 DEF Only, Fields, t, z
<1>5. CASE t.acts = "fin"
  <2>1. z = [y EXCEPT !.uri_has_host = @ \/ x.uri_host # <<>>]
    BY <1>2, <1>5
  <2> QED
    BY <1>1, <1>5, <2>1 DEF Only, Fields, t, z
<1>6. CASE t.acts \notin {"error", "byte_host", "fin"}
  <2>1. z = y
    BY <1>2, <1>6
  <2> QED
    BY <1>1, <1>6, <2>1 DEF Only, Fields, t, z
<1> QED
  BY <1>3, <1>4, <1>5, <1>6

\* What the automaton of an absolute target, in q, made of the bytes r of it.
HostParsed(q, host, r) ==
  /\ q \in HostStates
  /\ q \in {"SCHEME", "MAY_HOST1"} => First(r, "SLASH") = 0 /\ host = <<>>
  /\ q = "MAY_HOST2" => First(r, "SLASH") = Len(r) /\ Len(r) > 0 /\ host = <<>>
  /\ q \in {"GUION", "HOST"} =>
       /\ First(r, "SLASH") # 0 /\ Len(r) >= HostAt(r) - 1 /\ HostEnds(r) = {}
       /\ host = SubSeq(r, HostAt(r), Len(r))
       /\ q = "GUION" <=> Len(r) = HostAt(r) - 1 \/ r[Len(r)] = "DASH"
  /\ q = "REST" => HostEnds(r) # {} /\ host = HostIn(r) /\ host # <<>>

\* What it is when the target ends there.
LEMMA HostParsedIs ==
  ASSUME NEW S, NEW r \in Seq(S), NEW q, NEW host, HostParsed(q, host, r)
  PROVE  HostIn(r) = (IF q = "REST" THEN host ELSE <<>>) /\ (q = "REST" => host # <<>>)
<1>1. Len(r) \in Nat
  OBVIOUS
<1>2. CASE q = "REST"
  BY <1>2 DEF HostParsed
<1>3. CASE q # "REST"
  <2>1. HostEnds(r) = {}
    <3>1. CASE q \in {"SCHEME", "MAY_HOST1"}
      <4>1. \A i \in 1 .. Len(r) : r[i] # "SLASH"
        BY <3>1, FirstIs DEF HostParsed
      <4> QED
        BY <1>1, <3>1, <4>1 DEF HostParsed, HostEnds, HostAt
    <3>2. CASE q = "MAY_HOST2"
      BY <1>1, <3>2 DEF HostParsed, HostEnds, HostAt
    <3>3. CASE q \in {"GUION", "HOST"}
      BY <3>3 DEF HostParsed
    <3> QED
      BY <1>3, <3>1, <3>2, <3>3 DEF HostParsed, HostStates
  <2> QED
    BY <1>3, <2>1 DEF HostIn
<1> QED
  BY <1>2, <1>3

LEMMA RestFrom ==
  ASSUME NEW S, NEW s \in Seq(S), NEW c \in S
  PROVE  \A h \in Nat \ {0} : Len(s) + 1 >= h =>
           SubSeq(Append(s, c), h, Len(s) + 1) = Append(SubSeq(s, h, Len(s)), c)
<1>1. ASSUME NEW k \in 0 .. Len(s)
      PROVE  SubSeq(Append(s, c), k + 1, Len(Append(s, c))) = Append(SubSeq(s, k + 1, Len(s)), c)
  BY RestNext, ZenonT(30)
<1>2. Len(Append(s, c)) = Len(s) + 1 /\ Len(s) \in Nat
  BY AppendProperties, LenProperties
<1>3. ASSUME NEW h \in Nat \ {0}, Len(s) + 1 >= h
      PROVE  SubSeq(Append(s, c), h, Len(s) + 1) = Append(SubSeq(s, h, Len(s)), c)
  <2>1. h - 1 \in 0 .. Len(s) /\ (h - 1) + 1 = h
    BY <1>2, <1>3
  <2> QED
    BY <1>1, <1>2, <2>1
<1> QED
  BY <1>3

LEMMA HostParsedNext ==
  ASSUME ParserAssumption, NEW q, NEW host, NEW r \in Seq(Byte), NEW c \in Byte, c # "SP",
         \/ HostParsed(q, host, r)
         \/ q = "SCHEME_FIRST" /\ r = <<>> /\ host = <<>> /\ c # "SLASH",
         parser_feed(HTTP_request_abs[q], c).acts # "error"
  PROVE  LET t == parser_feed(HTTP_request_abs[q], c)
         IN  HostParsed(t.dest, IF t.acts = "byte_host" THEN Append(host, c) ELSE host, Append(r, c))
<1> DEFINE t == parser_feed(HTTP_request_abs[q], c)
           n == Len(r)
           s == Append(r, c)
           more == IF t.acts = "byte_host" THEN Append(host, c) ELSE host
<1>1. /\ n \in Nat /\ s \in Seq(Byte) /\ Len(s) = n + 1 /\ s[n + 1] = c
      /\ \A i \in 1 .. n : s[i] = r[i]
  BY AppendProperties, LenProperties
<1>2. First(s, "SLASH") = IF First(r, "SLASH") # 0 THEN First(r, "SLASH")
                          ELSE IF c = "SLASH" THEN n + 1 ELSE 0
  BY FirstNext
<1>3. First(r, "SLASH") \in 0 .. n
  BY FirstIs
<1>4. /\ HostAt(r) \in Nat \ {0, 1}
      /\ First(r, "SLASH") = 0 => HostEnds(r) = {} /\ HostEnds(s) = {}
      /\ First(r, "SLASH") # 0 =>
           /\ HostAt(s) = HostAt(r)
           /\ HostEnds(s) = HostEnds(r) \cup
                (IF n >= HostAt(r) /\ c = "SLASH" /\ r[n] # "DASH" THEN {n + 1} ELSE {})
  BY HostEndsNext
<1>5. /\ HostEnds(r) # {} => HostEnds(s) # {} /\ HostIn(s) = HostIn(r)
      /\ HostEnds(r) = {} /\ HostEnds(s) # {} => HostIn(s) = SubSeq(r, HostAt(r), n)
  BY HostInNext
<1>6. HostAt(r) = First(r, "SLASH") + 2 /\ HostAt(s) = First(s, "SLASH") + 2
  BY DEF HostAt
<1>7. n + 1 >= HostAt(r) =>
        SubSeq(s, HostAt(r), n + 1) = Append(SubSeq(r, HostAt(r), n), c)
  <2> SUFFICES ASSUME n + 1 >= HostAt(r)
               PROVE  SubSeq(s, HostAt(r), n + 1) = Append(SubSeq(r, HostAt(r), n), c)
    OBVIOUS
  <2>1. HostAt(r) \in Nat \ {0}
    BY <1>4
  <2> QED
    BY <2>1, RestFrom
<1>8. AbsMove(q, c, t)
  BY AbsMoves
<1> HIDE DEF t, n, s
<1>9. CASE q = "SCHEME_FIRST"
  <2>1. r = <<>> /\ host = <<>> /\ c # "SLASH"
    BY <1>9 DEF HostParsed, HostStates
  <2>2. First(r, "SLASH") = 0
    BY <1>3, <2>1 DEF n
  <2> QED
    BY <1>2, <1>8, <1>9, <2>1, <2>2 DEF HostParsed, HostStates, AbsMove, t, s
<1>10. CASE q = "SCHEME"
  BY <1>2, <1>8, <1>10 DEF HostParsed, HostStates, AbsMove, t, s
<1>11. CASE q = "MAY_HOST1"
  <2>1. First(r, "SLASH") = 0 /\ host = <<>>
    BY <1>11 DEF HostParsed
  <2>2. First(s, "SLASH") = Len(s) /\ Len(s) > 0
    BY <1>1, <1>2, <1>8, <1>11, <2>1 DEF AbsMove
  <2> QED
    BY <1>8, <1>11, <2>1, <2>2 DEF HostParsed, HostStates, AbsMove, t, s
<1>12. CASE q = "MAY_HOST2"
  <2>1. First(r, "SLASH") = n /\ n > 0 /\ host = <<>>
    BY <1>12 DEF HostParsed, n
  <2>2. First(s, "SLASH") = n /\ HostAt(s) = n + 2 /\ HostAt(r) = n + 2
    BY <1>1, <1>2, <1>6, <2>1
  <2>3. HostEnds(s) = {}
    <3>1. HostEnds(r) = {}
      BY <1>1, <2>2 DEF HostEnds, n
    <3> QED
      BY <1>1, <1>4, <2>1, <2>2, <3>1
  <2>4. SubSeq(s, n + 2, n + 1) = <<>>
    BY <1>1, SubSeqEmpty
  <2>5. First(s, "SLASH") # 0 /\ Len(s) >= HostAt(s) - 1 /\ Len(s) = HostAt(s) - 1
          /\ SubSeq(s, HostAt(s), Len(s)) = <<>>
    BY <1>1, <2>1, <2>2, <2>4
  <2> QED
    BY <1>8, <1>12, <2>1, <2>3, <2>5 DEF HostParsed, HostStates, AbsMove, t, s
<1>13. CASE q \in {"GUION", "HOST"} /\ t.acts = "byte_host"
  <2>1. /\ First(r, "SLASH") # 0 /\ n >= HostAt(r) - 1 /\ HostEnds(r) = {}
        /\ host = SubSeq(r, HostAt(r), n)
        /\ q = "GUION" <=> n = HostAt(r) - 1 \/ r[n] = "DASH"
    BY <1>13 DEF HostParsed, n
  <2>2. First(s, "SLASH") # 0 /\ HostAt(s) = HostAt(r) /\ Len(s) >= HostAt(s) - 1
          /\ Len(s) # HostAt(s) - 1 /\ n + 1 >= HostAt(r)
    BY <1>1, <1>2, <1>4, <1>6, <2>1
  <2>3. HostEnds(s) = {}
    <3>1. q = "GUION" => ~(n >= HostAt(r) /\ c = "SLASH" /\ r[n] # "DASH")
      BY <1>1, <1>4, <2>1
    <3>2. q = "HOST" => c # "SLASH"
      BY <1>8, <1>13 DEF AbsMove
    <3> QED
      BY <1>4, <1>13, <2>1, <3>1, <3>2
  <2>4. Append(host, c) = SubSeq(s, HostAt(s), Len(s))
    BY <1>1, <1>7, <2>1, <2>2
  <2>5. s[Len(s)] = c /\ t.dest = (IF c = "DASH" THEN "GUION" ELSE "HOST")
    BY <1>1, <1>8, <1>13 DEF AbsMove
  <2> QED
    BY <1>13, <2>2, <2>3, <2>4, <2>5 DEF HostParsed, HostStates, AbsMove, t, s
<1>14. CASE q = "HOST" /\ c = "SLASH"
  <2>1. /\ First(r, "SLASH") # 0 /\ n >= HostAt(r) - 1 /\ HostEnds(r) = {}
        /\ host = SubSeq(r, HostAt(r), n)
        /\ n # HostAt(r) - 1 /\ r[n] # "DASH"
    BY <1>14 DEF HostParsed, n
  <2>2. HostEnds(s) = {n + 1}
    BY <1>1, <1>4, <1>14, <2>1
  <2>3. HostIn(s) = host
    BY <1>5, <2>1, <2>2
  <2>4. host # <<>>
    <3>1. \A i \in HostAt(r) .. n : r[i] \in Byte
      BY <1>1, <1>4 DEF n
    <3>2. HostAt(r) \in Int /\ n \in Int /\ HostAt(r) <= n
      BY <1>1, <1>4, <2>1
    <3>3. Len(host) = n - HostAt(r) + 1
      BY <2>1, <3>1, <3>2, SubSeqProperties
    <3>4. Len(host) # 0
      BY <3>2, <3>3
    <3> QED
      BY <3>4
  <2> QED
    BY <1>8, <1>14, <2>2, <2>3, <2>4 DEF HostParsed, HostStates, AbsMove, t, s
<1>15. CASE q = "REST"
  <2>1. HostEnds(r) # {} /\ host = HostIn(r) /\ host # <<>>
    BY <1>15 DEF HostParsed
  <2> QED
    BY <1>5, <1>8, <1>15, <2>1 DEF HostParsed, HostStates, AbsMove, t, s
<1> QED
  BY <1>8, <1>9, <1>10, <1>11, <1>12, <1>13, <1>14, <1>15 DEF HostParsed, HostStates, AbsMove

\* What the automaton of the target made of the bytes r of it.
TargetParsed(x, r) ==
  /\ ~x.uri_has_host
  /\ x.HTTP_request_target \in {"START", "IS_ASTERISK", "URI"}
  /\ x.HTTP_request_target = "START" =>
       r = <<>> /\ x.HTTP_request_abs = "SCHEME_FIRST" /\ x.uri_host = <<>>
  /\ x.HTTP_request_target = "IS_ASTERISK" => r = <<"STAR">>
  /\ x.HTTP_request_target = "URI" => HostParsed(x.HTTP_request_abs, x.uri_host, r)

TargetFields ==
  {"HTTP_request_target", "HTTP_request_abs", "uri_host", "uri_has_host", "error",
   "full_message"}

\* A step t of the automaton of the target, from q on the byte c.
TargetMove(q, c, t) ==
  /\ q = "START" => c \notin {"SLASH", "SP"}
  /\ q = "START" /\ c = "STAR" => t = To("IS_ASTERISK", "may_asterisk")
  /\ q = "START" /\ c # "STAR" => t = To("URI", "may_abs")
  /\ q = "URI" /\ c # "SP" => t = To("URI", "may_abs")
  /\ q = "URI" /\ c = "SP" => t = To("FIN", "fin")
  /\ q = "IS_ASTERISK" => c = "SP" /\ t = To("FIN", "is_asterisk")
  /\ q # "FIN"

LEMMA TargetMoves ==
  ASSUME NEW q, NEW c, parser_feed(HTTP_request_target[q], c).acts # "error"
  PROVE  TargetMove(q, c, parser_feed(HTTP_request_target[q], c))
<1>1. q = "START" => c # "SLASH" /\ c # "SP"
  BY DEF HTTP_request_target, parser_feed, To
<1>2. q = "START" /\ c = "STAR" => parser_feed(HTTP_request_target[q], c) = To("IS_ASTERISK", "may_asterisk")
  BY DEF HTTP_request_target, parser_feed
<1>3. q = "START" /\ c # "STAR" => parser_feed(HTTP_request_target[q], c) = To("URI", "may_abs")
  BY <1>1 DEF HTTP_request_target, parser_feed
<1>4. q = "URI" => parser_feed(HTTP_request_target[q], c) =
                     IF c = "SP" THEN To("FIN", "fin") ELSE To("URI", "may_abs")
  BY DEF HTTP_request_target, parser_feed
<1>5. q = "IS_ASTERISK" => c = "SP"
  BY DEF HTTP_request_target, parser_feed, To
<1>6. q = "IS_ASTERISK" => parser_feed(HTTP_request_target[q], c) = To("FIN", "is_asterisk")
  BY <1>5 DEF HTTP_request_target, parser_feed
<1>7. q # "FIN"
  BY DEF HTTP_request_target, parser_feed, To
<1> QED
  BY <1>1, <1>2, <1>3, <1>4, <1>5, <1>6, <1>7 DEF TargetMove

\* What http_request_target does, by the event.
LEMMA TargetEffect ==
  ASSUME ParserAssumption, NEW x \in Ctx, NEW c \in Byte
  PROVE  LET t == parser_feed(HTTP_request_target[x.HTTP_request_target], c)
             y == [x EXCEPT !.HTTP_request_target = t.dest]
             z == http_request_target(x, c)
         IN  /\ y \in Ctx /\ y.HTTP_request_target = t.dest
             /\ Only({"HTTP_request_target"}, x, y)
             /\ t.acts = "error" => z.error
             /\ t.acts = "may_abs" => z = http_abs_parser(Written(y, <<c>>), c)
             /\ t.acts = "is_asterisk" => z = Written(y, <<"STAR">>)
             /\ t.acts = "fin" => z = http_abs_parser(y, "SP")
             /\ t.acts = "may_asterisk" => z = y
<1> DEFINE t == parser_feed(HTTP_request_target[x.HTTP_request_target], c)
           y == [x EXCEPT !.HTTP_request_target = t.dest]
           z == http_request_target(x, c)
<1>1. y \in Ctx /\ y.HTTP_request_target = t.dest
  <2>1. t.dest \in DOMAIN HTTP_request_target
    BY TargetStates DEF Ctx
  <2> HIDE DEF t
  <2> QED
    BY <2>1 DEF Ctx
<1>2. Only({"HTTP_request_target"}, x, y)
  BY CtxFields DEF Only, Fields
<1>3. z = CASE t.acts = "error"       -> Error(y)
            [] t.acts = "may_abs"     -> http_abs_parser(Written(y, <<c>>), c)
            [] t.acts = "is_asterisk" -> Written(y, <<"STAR">>)
            [] t.acts = "fin"         -> http_abs_parser(y, "SP")
            [] OTHER                  -> y
  BY DEF http_request_target
<1> HIDE DEF t, y, z
<1>4. Error(y).error
  BY <1>1, KeepsError
<1>5. /\ t.acts = "error" => z.error
      /\ t.acts = "may_abs" => z = http_abs_parser(Written(y, <<c>>), c)
      /\ t.acts = "is_asterisk" => z = Written(y, <<"STAR">>)
      /\ t.acts = "fin" => z = http_abs_parser(y, "SP")
      /\ t.acts = "may_asterisk" => z = y
  BY <1>3, <1>4
<1> QED
  BY <1>1, <1>2, <1>5 DEF t, y, z

LEMMA TargetStep ==
  ASSUME ParserAssumption, NEW x \in Ctx, NEW r \in Seq(Byte), NEW c \in Byte, c # "SP",
         TargetParsed(x, r), ~http_request_target(x, c).error
  PROVE  LET z == http_request_target(x, c)
         IN  /\ TargetParsed(z, Append(r, c))
             /\ Only(TargetFields, x, z)
             /\ x.HTTP_request_target # "IS_ASTERISK"
             /\ z.full_message = IF z.HTTP_request_target = "IS_ASTERISK" THEN x.full_message
                                                                         ELSE Append(x.full_message, c)
             /\ z.HTTP_request_target = "IS_ASTERISK" => c = "STAR"
<1> DEFINE q == x.HTTP_request_target
           t == parser_feed(HTTP_request_target[q], c)
           y == [x EXCEPT !.HTTP_request_target = t.dest]
           w == Written(y, <<c>>)
           u == parser_feed(HTTP_request_abs[w.HTTP_request_abs], c)
           z == http_request_target(x, c)
<1>1. /\ y \in Ctx /\ y.HTTP_request_target = t.dest /\ Only({"HTTP_request_target"}, x, y)
      /\ t.acts = "error" => z.error
      /\ t.acts = "may_abs" => z = http_abs_parser(w, c)
      /\ t.acts = "may_asterisk" => z = y
  BY TargetEffect
<1>2. t.acts # "error" /\ ~z.error
  BY <1>1
<1>3. TargetMove(q, c, t)
  BY <1>2, TargetMoves
<1>4. q \in {"START", "URI"} /\ ~x.uri_has_host
  BY <1>3 DEF TargetParsed, TargetMove
<1>5. w \in Ctx /\ Only({"full_message"}, y, w) /\ w.full_message = Append(y.full_message, c)
  <2>1. w \in Ctx
    BY <1>1, KeepsByte DEF Keeps
  <2>2. y.full_message \in Seq(Byte) /\ y.full_message \o <<c>> = Append(y.full_message, c)
    BY <1>1, AppendIsConcat DEF Ctx
  <2>3. w.full_message = y.full_message \o <<c>>
    BY <1>1 DEF Written, Ctx
  <2> QED
    BY <1>1, <2>1, <2>2, <2>3, OnlyWritten
<1> HIDE DEF y, w, z, t
<1>6. /\ w.HTTP_request_abs = x.HTTP_request_abs /\ w.uri_host = x.uri_host
      /\ w.uri_has_host = x.uri_has_host /\ w.HTTP_request_target = t.dest
      /\ w.full_message = Append(x.full_message, c)
      /\ y.HTTP_request_abs = x.HTTP_request_abs /\ y.uri_host = x.uri_host
      /\ y.uri_has_host = x.uri_has_host /\ y.full_message = x.full_message
  BY <1>1, <1>5 DEF Only, Fields
<1>7. Only(TargetFields, x, y) /\ Only(TargetFields, x, w)
  BY <1>1, <1>5 DEF Only, Fields, TargetFields
<1>8. CASE q = "START" /\ c = "STAR"
  <2>1. z = y /\ y.HTTP_request_target = "IS_ASTERISK"
    BY <1>1, <1>3, <1>8 DEF To, TargetMove
  <2>2. Append(r, c) = <<"STAR">>
    <3>1. r = <<>>
      BY <1>8 DEF TargetParsed
    <3> QED
      BY <1>8, <3>1
  <2> QED
    BY <1>4, <1>6, <1>7, <1>8, <2>1, <2>2 DEF TargetParsed, z
<1>9. CASE ~(q = "START" /\ c = "STAR")
  <2>1. t = To("URI", "may_abs")
    BY <1>3, <1>4, <1>9 DEF TargetMove
  <2>2. z = http_abs_parser(w, c) /\ w.HTTP_request_target = "URI"
    BY <1>1, <1>6, <2>1 DEF To
  <2>3. /\ z.HTTP_request_abs = u.dest
        /\ z.uri_host = IF u.acts = "byte_host" THEN Append(w.uri_host, c) ELSE w.uri_host
        /\ z.uri_has_host = IF u.acts = "fin" THEN w.uri_has_host \/ w.uri_host # <<>>
                                              ELSE w.uri_has_host
        /\ u.acts = "error" => z.error
        /\ Only({"HTTP_request_abs", "uri_host", "uri_has_host", "error"}, w, z)
    BY <1>5, <2>2, AbsByte
  <2>4. u.acts # "error"
    BY <1>2, <2>3
  <2>5. /\ u = parser_feed(HTTP_request_abs[x.HTTP_request_abs], c)
        /\ \/ HostParsed(x.HTTP_request_abs, x.uri_host, r)
           \/ x.HTTP_request_abs = "SCHEME_FIRST" /\ r = <<>> /\ x.uri_host = <<>> /\ c # "SLASH"
    BY <1>3, <1>4, <1>6 DEF TargetParsed, TargetMove
  <2>6. HostParsed(u.dest, IF u.acts = "byte_host" THEN Append(x.uri_host, c) ELSE x.uri_host,
                   Append(r, c))
    BY <2>4, <2>5, HostParsedNext
  <2>7. u.acts # "fin"
    <3>1. AbsMove(x.HTTP_request_abs, c, u)
      BY <2>4, <2>5, AbsMoves
    <3> QED
      BY <2>5, <3>1 DEF AbsMove, HostParsed, HostStates
  <2> HIDE DEF u
  <2>8. /\ z.HTTP_request_target = "URI" /\ z.full_message = Append(x.full_message, c)
        /\ ~z.uri_has_host /\ HostParsed(z.HTTP_request_abs, z.uri_host, Append(r, c))
    BY <1>4, <1>6, <2>2, <2>3, <2>6, <2>7 DEF Only, Fields
  <2>9. Only(TargetFields, x, z)
    BY <1>7, <2>3 DEF Only, Fields, TargetFields
  <2> QED
    BY <1>4, <2>8, <2>9 DEF TargetParsed, z
<1> QED
  BY <1>8, <1>9

\* The space after the target.
LEMMA TargetEnd ==
  ASSUME ParserAssumption, NEW x \in Ctx, NEW r \in Seq(Byte),
         TargetParsed(x, r), ~http_request_target(x, "SP").error
  PROVE  LET z == http_request_target(x, "SP")
         IN  /\ z.HTTP_request_target = "FIN"
             /\ z.uri_has_host <=> HostIn(r) # <<>>
             /\ z.uri_has_host => z.uri_host = HostIn(r)
             /\ Only(TargetFields, x, z)
             /\ z.full_message = IF x.HTTP_request_target = "IS_ASTERISK"
                                 THEN Append(x.full_message, "STAR") ELSE x.full_message
             /\ x.HTTP_request_target = "IS_ASTERISK" => r = <<"STAR">>
<1> DEFINE q == x.HTTP_request_target
           t == parser_feed(HTTP_request_target[q], "SP")
           y == [x EXCEPT !.HTTP_request_target = t.dest]
           u == parser_feed(HTTP_request_abs[y.HTTP_request_abs], "SP")
           z == http_request_target(x, "SP")
<1>0. "SP" \in Byte /\ "STAR" \in Byte
  BY DEF ParserAssumption, Marks
<1>1. /\ y \in Ctx /\ y.HTTP_request_target = t.dest /\ Only({"HTTP_request_target"}, x, y)
      /\ t.acts = "error" => z.error
      /\ t.acts = "is_asterisk" => z = Written(y, <<"STAR">>)
      /\ t.acts = "fin" => z = http_abs_parser(y, "SP")
  BY <1>0, TargetEffect
<1>2. t.acts # "error" /\ ~z.error
  BY <1>1
<1>3. TargetMove(q, "SP", t)
  BY <1>2, TargetMoves
<1> HIDE DEF y, z, t
<1>4. q \in {"IS_ASTERISK", "URI"} /\ ~x.uri_has_host
  BY <1>3 DEF TargetParsed, TargetMove
<1>5. /\ y.HTTP_request_abs = x.HTTP_request_abs /\ y.uri_host = x.uri_host
      /\ y.uri_has_host = x.uri_has_host /\ y.full_message = x.full_message
      /\ Only(TargetFields, x, y)
  BY <1>1 DEF Only, Fields, TargetFields
<1>6. CASE q = "IS_ASTERISK"
  <2>1. z = Written(y, <<"STAR">>) /\ y.HTTP_request_target = "FIN"
    BY <1>1, <1>3, <1>6 DEF To, TargetMove
  <2>2. Only({"full_message"}, y, z)
    BY <1>1, <2>1, OnlyWritten
  <2>3. z.full_message = Append(x.full_message, "STAR")
    <3>1. y.full_message \in Seq(Byte)
            /\ y.full_message \o <<"STAR">> = Append(y.full_message, "STAR")
      BY <1>0, <1>1, AppendIsConcat DEF Ctx
    <3>2. z.full_message = y.full_message \o <<"STAR">>
      BY <1>1, <2>1 DEF Written, Ctx
    <3> QED
      BY <1>5, <3>1, <3>2
  <2>4. r = <<"STAR">>
    BY <1>6 DEF TargetParsed
  <2>5. HostIn(r) = <<>>
    <3>1. Len(r) = 1 /\ HostAt(r) \in Nat \ {0, 1} /\ HostEnds(r) \subseteq HostAt(r) + 1 .. Len(r)
      BY <1>0, <2>4, HostEndsNext
    <3>2. HostEnds(r) = {}
      BY <3>1
    <3> QED
      BY <3>2 DEF HostIn
  <2>6. ~z.uri_has_host /\ z.HTTP_request_target = "FIN" /\ Only(TargetFields, x, z)
    BY <1>4, <1>5, <2>1, <2>2 DEF Only, Fields, TargetFields
  <2> QED
    BY <1>6, <2>3, <2>4, <2>5, <2>6 DEF z
<1>7. CASE q = "URI"
  <2>1. z = http_abs_parser(y, "SP") /\ y.HTTP_request_target = "FIN"
    BY <1>1, <1>3, <1>7 DEF To, TargetMove
  <2>2. /\ z.HTTP_request_abs = u.dest
        /\ z.uri_host = IF u.acts = "byte_host" THEN Append(y.uri_host, "SP") ELSE y.uri_host
        /\ z.uri_has_host = IF u.acts = "fin" THEN y.uri_has_host \/ y.uri_host # <<>>
                                              ELSE y.uri_has_host
        /\ u.acts = "error" => z.error
        /\ Only({"HTTP_request_abs", "uri_host", "uri_has_host", "error"}, y, z)
    BY <1>1, <2>1, AbsByte
  <2>3. HostParsed(x.HTTP_request_abs, x.uri_host, r)
    BY <1>7 DEF TargetParsed
  <2>4. AbsMove(x.HTTP_request_abs, "SP", u)
    BY <1>2, <1>5, <2>2, AbsMoves
  <2>5. HostIn(r) = (IF x.HTTP_request_abs = "REST" THEN x.uri_host ELSE <<>>)
          /\ (x.HTTP_request_abs = "REST" => x.uri_host # <<>>)
    BY <2>3, HostParsedIs
  <2>6. u.acts = "fin" <=> x.HTTP_request_abs = "REST"
    BY <2>3, <2>4 DEF AbsMove, HostParsed, HostStates
  <2>7. z.HTTP_request_target = "FIN" /\ z.full_message = x.full_message /\ Only(TargetFields, x, z)
    BY <1>5, <2>1, <2>2 DEF Only, Fields, TargetFields
  <2> HIDE DEF u
  <2>8. (z.uri_has_host <=> HostIn(r) # <<>>) /\ (z.uri_has_host => z.uri_host = HostIn(r))
    BY <1>4, <1>5, <2>2, <2>5, <2>6
  <2> QED
    BY <1>7, <2>7, <2>8 DEF z
<1> QED
  BY <1>4, <1>6, <1>7

-----------------------------------------------------------------------------
(* The request line *)

StartActs == {"byte_method", "byte_target", "byte_version", "wait_space1", "wait_space2"}
LineStates == {"METHOD", "REQUEST_TARGET", "VERSION"}

\* A step t of the automaton of the request line, from s on the byte c.
StartMove(s, c, t) ==
  /\ s = "METHOD" /\ c = "SP" => t = To("REQUEST_TARGET", "wait_space1")
  /\ s = "METHOD" /\ c # "SP" => t = To("METHOD", "byte_method")
  /\ s = "REQUEST_TARGET" /\ c = "SP" => t = To("VERSION", "wait_space2")
  /\ s = "REQUEST_TARGET" /\ c # "SP" => t = To("REQUEST_TARGET", "byte_target")
  /\ s = "VERSION" /\ c = "SP" => t = To("MAY_FIN", "wait_space2")
  /\ s = "VERSION" /\ c # "SP" => t = To("VERSION", "byte_version")
  /\ s \notin LineStates => t.dest \notin LineStates /\ t.acts \notin StartActs

LEMMA StartMoves ==
  ASSUME NEW s \in DOMAIN HTTP_start_line, NEW c
  PROVE  StartMove(s, c, parser_feed(HTTP_start_line[s], c))
<1> DEFINE t == parser_feed(HTTP_start_line[s], c)
<1>1. s = "METHOD" => t = IF c = "SP" THEN To("REQUEST_TARGET", "wait_space1")
                                      ELSE To("METHOD", "byte_method")
  BY DEF HTTP_start_line, parser_feed
<1>2. s = "REQUEST_TARGET" => t = IF c = "SP" THEN To("VERSION", "wait_space2")
                                              ELSE To("REQUEST_TARGET", "byte_target")
  BY DEF HTTP_start_line, parser_feed
<1>3. s = "VERSION" => t = IF c = "SP" THEN To("MAY_FIN", "wait_space2")
                                       ELSE To("VERSION", "byte_version")
  BY DEF HTTP_start_line, parser_feed
<1>4. s = "MAY_FIN" => t.dest \notin LineStates /\ t.acts \notin StartActs
  BY DEF HTTP_start_line, parser_feed, To, LineStates, StartActs
<1>5. s \in {"CR", "FIN", "ERROR"} => t.dest \notin LineStates /\ t.acts \notin StartActs
  BY DEF HTTP_start_line, parser_feed, To, LineStates, StartActs
<1>6. s \notin LineStates => s \in {"MAY_FIN", "CR", "FIN", "ERROR"}
  BY DEF HTTP_start_line, LineStates
<1> HIDE DEF t
<1>7. StartMove(s, c, t)
  BY <1>1, <1>2, <1>3, <1>4, <1>5, <1>6 DEF StartMove
<1> QED
  BY <1>7 DEF t

LEMMA StartEffect ==
  ASSUME ParserAssumption, NEW x \in Ctx, NEW c \in Byte
  PROVE  LET t == parser_feed(HTTP_start_line[x.HTTP_start_line], c)
             y == [x EXCEPT !.HTTP_start_line = t.dest]
             z == http_start_line(x, c)
         IN  /\ y \in Ctx /\ y.HTTP_start_line = t.dest /\ Only({"HTTP_start_line"}, x, y)
             /\ t.acts = "byte_method" => z = MethodByte(y, c)
             /\ t.acts = "byte_target" => z = TargetByte(y, c)
             /\ t.acts = "byte_version" => z = Written(y, <<c>>)
             /\ t.acts = "wait_space1" => z = Written(y, <<"SP">>)
             /\ t.acts = "wait_space2" =>
                  z = Written(IF y.connect_method_used THEN y ELSE http_request_target(y, "SP"), <<"SP">>)
             /\ t.acts \notin StartActs => z = y
<1> DEFINE t == parser_feed(HTTP_start_line[x.HTTP_start_line], c)
           y == [x EXCEPT !.HTTP_start_line = t.dest]
           z == http_start_line(x, c)
<1>1. y \in Ctx /\ y.HTTP_start_line = t.dest
  <2>1. t.dest \in DOMAIN HTTP_start_line
    BY StartLineStates DEF Ctx
  <2> HIDE DEF t
  <2> QED
    BY <2>1 DEF Ctx
<1>2. Only({"HTTP_start_line"}, x, y)
  BY CtxFields DEF Only, Fields
<1>3. z = CASE t.acts = "byte_method"  -> MethodByte(y, c)
            [] t.acts = "byte_target"  -> TargetByte(y, c)
            [] t.acts = "byte_version" -> Written(y, <<c>>)
            [] t.acts = "wait_space1"  -> Written(y, <<"SP">>)
            [] t.acts = "wait_space2"  ->
                 Written(IF y.connect_method_used THEN y ELSE http_request_target(y, "SP"), <<"SP">>)
            [] OTHER                   -> y
  BY DEF http_start_line
<1> HIDE DEF t, y, z
<1>4. /\ t.acts = "byte_method" => z = MethodByte(y, c)
      /\ t.acts = "byte_target" => z = TargetByte(y, c)
      /\ t.acts = "byte_version" => z = Written(y, <<c>>)
      /\ t.acts = "wait_space1" => z = Written(y, <<"SP">>)
      /\ t.acts = "wait_space2" =>
           z = Written(IF y.connect_method_used THEN y ELSE http_request_target(y, "SP"), <<"SP">>)
      /\ t.acts \notin StartActs => z = y
  BY <1>3 DEF StartActs
<1> QED
  BY <1>1, <1>2, <1>4 DEF t, y, z

\* One byte is added to full_message.
LEMMA WrittenByte ==
  ASSUME NEW x \in Ctx, NEW c \in Byte
  PROVE  /\ Written(x, <<c>>) \in Ctx /\ Only({"full_message"}, x, Written(x, <<c>>))
         /\ Written(x, <<c>>).full_message = Append(x.full_message, c)
<1>1. Written(x, <<c>>) \in Ctx
  BY KeepsByte DEF Keeps
<1>2. x.full_message \in Seq(Byte) /\ x.full_message \o <<c>> = Append(x.full_message, c)
  BY AppendIsConcat DEF Ctx
<1>3. Written(x, <<c>>).full_message = x.full_message \o <<c>>
  BY DEF Written, Ctx
<1> QED
  BY <1>1, <1>2, <1>3, OnlyWritten

\* The matcher m of CONNECT and whether it was seen, from the bytes of the method.
ConnectParsed(m, used, bytes) ==
  /\ used <=> Began(Len(CONNECT), CONNECT, bytes)
  /\ ~used => /\ m.at < Len(CONNECT) /\ m.event # "EQ"
              /\ Began(m.at, CONNECT, bytes) /\ ~Began(m.at + 1, CONNECT, bytes)

LEMMA ConnectParsedNext ==
  ASSUME ParserAssumption, NEW m \in Matcher, NEW used \in BOOLEAN, NEW bytes \in Seq(Byte),
         NEW c \in Byte, ConnectParsed(m, used, bytes)
  PROVE  LET next == strcmps(CONNECT, m, c)
         IN  ConnectParsed(next, used \/ next.event = "EQ", Append(bytes, c))
<1> DEFINE k == m.at
           n == Len(CONNECT)
           next == strcmps(CONNECT, m, c)
           more == Append(bytes, c)
<1>1. k \in Nat /\ n \in Nat /\ n # 0
  BY DEF Matcher, ParserAssumption
<1>0. more = Append(bytes, c)
  OBVIOUS
<1> HIDE DEF more
<1>2. \A j \in Nat : Began(j + 1, CONNECT, more) <=>
        Began(j + 1, CONNECT, bytes) \/ (Began(j, CONNECT, bytes) /\ c = CONNECT[j + 1])
  <2>1. \A j \in Nat : Began(j + 1, CONNECT, more) <=>
          Began(j + 1, CONNECT, bytes) \/ GoesOn(j, CONNECT, bytes, c)
    BY <1>0, BeganNext
  <2> QED
    BY <2>1 DEF GoesOn
<1>3. \A j \in Nat, i \in Nat : i <= j /\ Began(j, CONNECT, bytes) => Began(i, CONNECT, bytes)
  BY BeganLess
<1>4. n - 1 \in Nat /\ (n - 1) + 1 = n
  BY <1>1
<1>5. used <=> Began(n, CONNECT, bytes)
  BY DEF ConnectParsed
<1>6. CASE used
  <2>1. Began(n, CONNECT, more)
    BY <1>2, <1>4, <1>5, <1>6
  <2> QED
    BY <1>6, <2>1 DEF ConnectParsed, more
<1>7. CASE ~used
  <2>1. k < n /\ Began(k, CONNECT, bytes) /\ ~Began(k + 1, CONNECT, bytes) /\ ~Began(n, CONNECT, bytes)
          /\ m.event # "EQ"
    BY <1>5, <1>7 DEF ConnectParsed
  <2>2. \A j \in Nat : j > k => ~Began(j, CONNECT, bytes)
    BY <1>1, <1>3, <2>1
  <2>3. CASE c = CONNECT[k + 1]
    <3>1. next.at = k + 1 /\ next.event = IF k + 1 = n THEN "EQ" ELSE "MAYEQ"
      BY <1>1, <2>1, <2>3 DEF strcmps, Advance
    <3>2. Began(k + 1, CONNECT, more)
      BY <1>1, <1>2, <2>1, <2>3
    <3> HIDE DEF next, k, n
    <3>3. CASE k + 1 = n
      BY <1>7, <3>1, <3>2, <3>3 DEF ConnectParsed, n, more, next
    <3>4. CASE k + 1 # n
      <4>1. ~Began((k + 1) + 1, CONNECT, more)
        <5>1. k + 1 \in Nat /\ k + 1 > k /\ (k + 1) + 1 \in Nat /\ (k + 1) + 1 > k
          BY <1>1
        <5> QED
          BY <1>2, <2>2, <5>1
      <4>2. ~Began(n, CONNECT, more)
        <5>1. n - 1 > k /\ n > k
          BY <1>1, <2>1, <3>4
        <5>2. ~Began(n - 1, CONNECT, bytes) /\ ~Began(n, CONNECT, bytes)
          BY <1>1, <1>4, <2>2, <5>1
        <5>3. Began((n - 1) + 1, CONNECT, more) <=>
                Began((n - 1) + 1, CONNECT, bytes) \/ (Began(n - 1, CONNECT, bytes) /\ c = CONNECT[(n - 1) + 1])
          BY <1>2, <1>4
        <5> QED
          BY <1>4, <5>2, <5>3
      <4>3. k + 1 < n /\ next.event # "EQ"
        BY <1>1, <2>1, <3>1, <3>4
      <4> QED
        BY <1>7, <3>1, <3>2, <4>1, <4>2, <4>3 DEF ConnectParsed, n, more, next
    <3> QED
      BY <3>3, <3>4
  <2>4. CASE c # CONNECT[k + 1]
    <3>1. next = m
      BY <1>1, <2>1, <2>4 DEF strcmps
    <3>2. Began(k, CONNECT, more)
      <4>1. CASE k = 0
        BY <4>1, BeganNothing
      <4>2. CASE k # 0
        <5>1. k - 1 \in Nat /\ (k - 1) + 1 = k
          BY <1>1, <4>2
        <5>2. Began((k - 1) + 1, CONNECT, more) <=>
                Began((k - 1) + 1, CONNECT, bytes) \/ (Began(k - 1, CONNECT, bytes) /\ c = CONNECT[(k - 1) + 1])
          BY <1>2, <5>1
        <5> QED
          BY <2>1, <5>1, <5>2
      <4> QED
        BY <4>1, <4>2
    <3>3. ~Began(k + 1, CONNECT, more)
      BY <1>1, <1>2, <2>1, <2>4
    <3>4. ~Began(n, CONNECT, more)
      <4>1. Began((n - 1) + 1, CONNECT, more) <=>
              Began((n - 1) + 1, CONNECT, bytes) \/ (Began(n - 1, CONNECT, bytes) /\ c = CONNECT[(n - 1) + 1])
        BY <1>2, <1>4
      <4>2. CASE n = k + 1
        BY <2>4, <3>3, <4>2
      <4>3. CASE n # k + 1
        <5>1. n - 1 > k
          BY <1>1, <2>1, <4>3
        <5>2. ~Began(n - 1, CONNECT, bytes)
          BY <1>4, <2>2, <5>1
        <5> QED
          BY <1>4, <2>1, <4>1, <5>2
      <4> QED
        BY <4>2, <4>3
    <3> QED
      BY <1>7, <2>1, <3>1, <3>2, <3>3, <3>4 DEF ConnectParsed, more
  <2> QED
    BY <2>3, <2>4
<1> QED
  BY <1>6, <1>7

\* One byte more of the first line, line, which is now more.
LineMove(line, c, more) ==
  /\ First(more, "SP") = 0 <=> First(line, "SP") = 0 /\ c # "SP"
  /\ First(line, "SP") = 0 => MethodOf(line) = line
  /\ MethodOf(more) = IF First(line, "SP") = 0 /\ c # "SP" THEN more ELSE MethodOf(line)
  /\ First(line, "SP") = 0 /\ c = "SP" => After(more, "SP") = <<>> /\ First(After(more, "SP"), "SP") = 0
  /\ First(line, "SP") # 0 =>
       /\ After(more, "SP") = Append(After(line, "SP"), c)
       /\ First(After(more, "SP"), "SP") = 0 <=> First(After(line, "SP"), "SP") = 0 /\ c # "SP"
       /\ First(After(line, "SP"), "SP") # 0 => TargetOf(more) = TargetOf(line)
       /\ First(After(line, "SP"), "SP") = 0 /\ c = "SP" => TargetOf(more) = After(line, "SP")

LEMMA LineMoves ==
  ASSUME NEW line \in Seq(Byte), NEW c \in Byte
  PROVE  After(line, "SP") \in Seq(Byte) /\ LineMove(line, c, Append(line, c))
<1> DEFINE more == Append(line, c)
           rest == After(line, "SP")
<1>1. /\ rest \in Seq(Byte)
      /\ After(more, "SP") = IF First(line, "SP") = 0 /\ c = "SP" THEN <<>> ELSE Append(rest, c)
  BY AfterNext
<1>2. First(more, "SP") = IF First(line, "SP") # 0 THEN First(line, "SP")
                          ELSE IF c = "SP" THEN Len(line) + 1 ELSE 0
  BY FirstNext
<1>3. MethodOf(more) = IF First(line, "SP") # 0 \/ c = "SP" THEN MethodOf(line) ELSE more
  BY BeforeNext DEF MethodOf
<1>4. First(line, "SP") = 0 => MethodOf(line) = line
  BY DEF MethodOf, Before
<1>5. /\ First(Append(rest, c), "SP") = IF First(rest, "SP") # 0 THEN First(rest, "SP")
                                        ELSE IF c = "SP" THEN Len(rest) + 1 ELSE 0
      /\ Before(Append(rest, c), "SP") = IF First(rest, "SP") # 0 \/ c = "SP" THEN Before(rest, "SP")
                                         ELSE Append(rest, c)
  BY <1>1, FirstNext, BeforeNext
<1>6. Len(line) \in Nat /\ Len(rest) \in Nat
  BY <1>1
<1>7. First(<<>>, "SP") = 0
  BY DEF First
<1>8. First(rest, "SP") = 0 => Before(rest, "SP") = rest
  BY DEF Before
<1>9. TargetOf(line) = (IF First(rest, "SP") = 0 THEN <<>> ELSE Before(rest, "SP"))
  BY DEF TargetOf
<1>10. First(line, "SP") # 0 =>
         TargetOf(more) = IF First(Append(rest, c), "SP") = 0 THEN <<>> ELSE Before(Append(rest, c), "SP")
  BY <1>1 DEF TargetOf
<1> HIDE DEF more, rest
<1>11. LineMove(line, c, more)
  <2>1. First(more, "SP") = 0 <=> First(line, "SP") = 0 /\ c # "SP"
    BY <1>2, <1>6
  <2>2. First(line, "SP") = 0 /\ c = "SP" => After(more, "SP") = <<>> /\ First(After(more, "SP"), "SP") = 0
    BY <1>1, <1>7
  <2>3. ASSUME First(line, "SP") # 0
        PROVE  /\ After(more, "SP") = Append(rest, c)
               /\ First(After(more, "SP"), "SP") = 0 <=> First(rest, "SP") = 0 /\ c # "SP"
               /\ First(rest, "SP") # 0 => TargetOf(more) = TargetOf(line)
               /\ First(rest, "SP") = 0 /\ c = "SP" => TargetOf(more) = rest
    <3>1. After(more, "SP") = Append(rest, c)
      BY <1>1, <2>3
    <3>2. First(Append(rest, c), "SP") = 0 <=> First(rest, "SP") = 0 /\ c # "SP"
      BY <1>5, <1>6
    <3>3. First(rest, "SP") # 0 => TargetOf(more) = TargetOf(line)
      BY <1>5, <1>9, <1>10, <2>3, <3>2
    <3>4. First(rest, "SP") = 0 /\ c = "SP" => TargetOf(more) = rest
      BY <1>5, <1>8, <1>10, <2>3, <3>2
    <3> QED
      BY <3>1, <3>2, <3>3, <3>4
  <2> QED
    BY <1>3, <1>4, <2>1, <2>2, <2>3 DEF LineMove, rest
<1> QED
  BY <1>1, <1>11 DEF more, rest

\* A line without a space has no target.
LEMMA NoTarget ==
  ASSUME NEW line \in Seq(Byte), First(line, "SP") = 0
  PROVE  TargetOf(line) = <<>>
<1>1. SubSeq(line, 0 + 1, Len(line)) = line
  BY SubSeqFull
<1>2. After(line, "SP") = line
  BY <1>1 DEF After
<1> QED
  BY <1>2 DEF TargetOf

\* What is known of a target that is over.
TargetRead(x, target) ==
  IF x.connect_method_used THEN ~x.uri_has_host
  ELSE /\ x.HTTP_request_target = "FIN"
       /\ x.uri_has_host <=> HostIn(target) # <<>>
       /\ x.uri_has_host => x.uri_host = HostIn(target)

\* What the automata of the request line made of the bytes line of it.
RequestParsed(x, line) ==
  /\ x.HTTP_start_line = "METHOD" <=> First(line, "SP") = 0
  /\ x.HTTP_start_line = "REQUEST_TARGET" <=>
       First(line, "SP") # 0 /\ First(After(line, "SP"), "SP") = 0
  /\ x.connect_method_used <=> Began(Len(CONNECT), CONNECT, MethodOf(line))
  /\ x.HTTP_start_line = "METHOD" =>
       /\ ConnectParsed(x.HTTP_connect, x.connect_method_used, line)
       /\ TargetParsed(x, <<>>) /\ x.HTTP_request_target = "START"
  /\ x.HTTP_start_line = "REQUEST_TARGET" =>
       IF x.connect_method_used THEN ~x.uri_has_host ELSE TargetParsed(x, After(line, "SP"))
  /\ x.HTTP_start_line \notin {"METHOD", "REQUEST_TARGET"} => TargetRead(x, TargetOf(line))

\* A star is only copied with the space after it.
StarIsDue(x) ==
  /\ x.HTTP_start_line = "REQUEST_TARGET" /\ ~x.connect_method_used
  /\ x.HTTP_request_target = "IS_ASTERISK"

\* The request line is forwarded as it is.
Copied(x, line) ==
  x.HTTP_start_line \in LineStates =>
    line = IF StarIsDue(x) THEN Append(x.full_message, "STAR") ELSE x.full_message

\* What is said of the target is left alone by what changes other members.
TargetMembers == {"uri_has_host", "HTTP_request_target", "HTTP_request_abs", "uri_host"}

LEMMA TargetSame ==
  ASSUME NEW x, NEW y, Only(Fields \ TargetMembers, x, y)
  PROVE  /\ \A r : TargetParsed(y, r) <=> TargetParsed(x, r)
         /\ \A r : y.connect_method_used = x.connect_method_used =>
                    (TargetRead(y, r) <=> TargetRead(x, r))
         /\ y.uri_has_host = x.uri_has_host
         /\ y.HTTP_request_target = x.HTTP_request_target
<1>1. /\ y.uri_has_host = x.uri_has_host
      /\ y.HTTP_request_target = x.HTTP_request_target
      /\ y.HTTP_request_abs = x.HTTP_request_abs
      /\ y.uri_host = x.uri_host
  BY DEF Only, Fields, TargetMembers
<1> QED
  BY <1>1 DEF TargetParsed, TargetRead

LEMMA MethodByteEffect ==
  ASSUME NEW x \in Ctx, NEW c \in Byte
  PROVE  LET z == MethodByte(x, c)
             m == strcmps(CONNECT, x.HTTP_connect, c)
         IN  /\ z.HTTP_connect = m
             /\ z.connect_method_used <=> x.connect_method_used \/ m.event = "EQ"
             /\ z.full_message = Append(x.full_message, c)
             /\ Only({"error", "HTTP_connect", "connect_method_used", "method", "full_message"}, x, z)
<1> DEFINE w == Written(x, <<c>>)
           m == strcmps(CONNECT, x.HTTP_connect, c)
           e == w.error \/ x.method > MethodLimit
           z == MethodByte(x, c)
<1>1. /\ w \in Ctx /\ Only({"full_message"}, x, w) /\ w.full_message = Append(x.full_message, c)
  BY WrittenByte
<1>2. z = [w EXCEPT !.error = e, !.HTTP_connect = m,
                    !.connect_method_used = @ \/ m.event = "EQ", !.method = @ + 1]
  BY DEF MethodByte
<1> HIDE DEF w, m, e, z
<1>3. DOMAIN w = Fields
  BY <1>1, CtxFields
<1>4. /\ z.HTTP_connect = m /\ z.full_message = w.full_message
      /\ z.connect_method_used <=> w.connect_method_used \/ m.event = "EQ"
      /\ Only({"error", "HTTP_connect", "connect_method_used", "method"}, w, z)
  BY <1>2, <1>3 DEF Only, Fields
<1>5. w.connect_method_used = x.connect_method_used
  BY <1>1 DEF Only, Fields
<1>6. Only({"error", "HTTP_connect", "connect_method_used", "method", "full_message"}, x, z)
  BY <1>1, <1>4 DEF Only
<1> QED
  BY <1>1, <1>4, <1>5, <1>6 DEF m, z

LEMMA MethodStep ==
  ASSUME ParserAssumption, NEW x \in Ctx, NEW line \in Seq(Byte), NEW c \in Byte,
         RequestParsed(x, line), Copied(x, line), x.HTTP_start_line = "METHOD"
  PROVE  LET z == http_start_line(x, c)
         IN  RequestParsed(z, Append(line, c)) /\ Copied(z, Append(line, c))
<1> DEFINE t == parser_feed(HTTP_start_line[x.HTTP_start_line], c)
           y == [x EXCEPT !.HTTP_start_line = t.dest]
           z == http_start_line(x, c)
           m == strcmps(CONNECT, y.HTTP_connect, c)
           more == Append(line, c)
<1>1. /\ y \in Ctx /\ y.HTTP_start_line = t.dest /\ Only({"HTTP_start_line"}, x, y)
      /\ t.acts = "byte_method" => z = MethodByte(y, c)
      /\ t.acts = "wait_space1" => z = Written(y, <<"SP">>)
  BY StartEffect
<1>2. StartMove(x.HTTP_start_line, c, t)
  BY StartMoves DEF Ctx
<1>3. LineMove(line, c, more)
  BY LineMoves
<1>4. /\ First(line, "SP") = 0 /\ line = x.full_message
      /\ x.connect_method_used <=> Began(Len(CONNECT), CONNECT, MethodOf(line))
      /\ ConnectParsed(x.HTTP_connect, x.connect_method_used, line)
      /\ TargetParsed(x, <<>>) /\ x.HTTP_request_target = "START"
  BY DEF RequestParsed, Copied, LineStates, StarIsDue
<1>5. /\ y.full_message = x.full_message /\ y.HTTP_connect = x.HTTP_connect
      /\ y.connect_method_used = x.connect_method_used
  BY <1>1 DEF Only, Fields
<1>6. more = Append(line, c)
  OBVIOUS
<1> HIDE DEF t, y, z, m, more
<1>7. CASE c # "SP"
  <2>1. t.dest = "METHOD" /\ z = MethodByte(y, c)
    BY <1>1, <1>2, <1>7 DEF StartMove, To
  <2>2. /\ z.HTTP_connect = m
        /\ z.connect_method_used <=> y.connect_method_used \/ m.event = "EQ"
        /\ z.full_message = Append(y.full_message, c)
        /\ Only({"error", "HTTP_connect", "connect_method_used", "method", "full_message"}, y, z)
    BY <1>1, <2>1, MethodByteEffect DEF m
  <2>3. Only(Fields \ TargetMembers, x, z)
    BY <1>1, <2>2 DEF Only, TargetMembers
  <2>4. z.HTTP_start_line = "METHOD"
    BY <1>1, <2>1, <2>2 DEF Only, Fields
  <2>5. TargetParsed(z, <<>>) /\ z.HTTP_request_target = "START"
    BY <1>4, <2>3, TargetSame
  <2>6. ConnectParsed(m, x.connect_method_used \/ m.event = "EQ", more)
    <3>1. x.HTTP_connect \in Matcher /\ x.connect_method_used \in BOOLEAN
      BY DEF Ctx
    <3>2. m = strcmps(CONNECT, x.HTTP_connect, c)
      BY <1>5 DEF m
    <3> QED
      BY <1>4, <1>6, <3>1, <3>2, ConnectParsedNext
  <2>7. z.connect_method_used = (x.connect_method_used \/ m.event = "EQ")
    <3>1. z.connect_method_used \in BOOLEAN
      BY <1>1, <2>1, KeepsMethodByte DEF Keeps, Ctx
    <3> QED
      BY <1>5, <2>2, <3>1
  <2>8. First(more, "SP") = 0 /\ MethodOf(more) = more
    BY <1>3, <1>4, <1>7 DEF LineMove
  <2>9. z.connect_method_used <=> Began(Len(CONNECT), CONNECT, MethodOf(more))
    BY <2>6, <2>7, <2>8 DEF ConnectParsed
  <2>10. RequestParsed(z, more)
    BY <2>2, <2>4, <2>5, <2>6, <2>7, <2>8, <2>9 DEF RequestParsed
  <2>11. Copied(z, more)
    BY <1>4, <1>5, <1>6, <2>2, <2>4 DEF Copied, StarIsDue
  <2> QED
    BY <2>10, <2>11 DEF z, more
<1>8. CASE c = "SP"
  <2>1. t.dest = "REQUEST_TARGET" /\ z = Written(y, <<"SP">>)
    BY <1>1, <1>2, <1>8 DEF StartMove, To
  <2>2. Only({"full_message"}, y, z) /\ z.full_message = Append(y.full_message, "SP")
    BY <1>1, <1>8, <2>1, WrittenByte
  <2>3. Only(Fields \ TargetMembers, x, z)
    BY <1>1, <2>2 DEF Only, TargetMembers
  <2>4. z.HTTP_start_line = "REQUEST_TARGET" /\ z.connect_method_used = x.connect_method_used
    BY <1>1, <1>5, <2>1, <2>2 DEF Only, Fields
  <2>5. TargetParsed(z, <<>>) /\ z.HTTP_request_target = "START" /\ ~z.uri_has_host
    BY <1>4, <2>3, TargetSame DEF TargetParsed
  <2>6. /\ First(more, "SP") # 0 /\ MethodOf(more) = MethodOf(line)
        /\ After(more, "SP") = <<>> /\ First(After(more, "SP"), "SP") = 0
    BY <1>3, <1>4, <1>8 DEF LineMove
  <2>7. RequestParsed(z, more)
    BY <1>4, <2>4, <2>5, <2>6 DEF RequestParsed
  <2>8. Copied(z, more)
    BY <1>4, <1>5, <1>6, <1>8, <2>2, <2>4, <2>5 DEF Copied, StarIsDue
  <2> QED
    BY <2>7, <2>8 DEF z, more
<1> QED
  BY <1>7, <1>8

LEMMA TargetByteEffect ==
  ASSUME NEW x \in Ctx, NEW c \in Byte
  PROVE  LET z == TargetByte(x, c)
             e == [x EXCEPT !.error = @ \/ Len(x.uri_host) > UriLimit]
         IN  /\ e \in Ctx /\ Only({"error"}, x, e)
             /\ ~x.connect_method_used => z = http_request_target(e, c)
             /\ x.connect_method_used =>
                  z.full_message = Append(x.full_message, c)
                    /\ Only({"error", "full_message", "uri_host"}, x, z)
<1> DEFINE b == x.error \/ Len(x.uri_host) > UriLimit
           e == [x EXCEPT !.error = b]
           w == Written(e, <<c>>)
           z == TargetByte(x, c)
<1>1. e \in Ctx /\ Only({"error"}, x, e)
  <2>1. b \in BOOLEAN
    BY DEF Ctx
  <2> HIDE DEF b
  <2>2. e \in Ctx
    BY <2>1 DEF Ctx
  <2>3. Only({"error"}, x, e)
    BY CtxFields DEF Only, Fields
  <2> QED
    BY <2>2, <2>3
<1>2. z = IF x.connect_method_used THEN [w EXCEPT !.uri_host = Append(@, c)]
                                   ELSE http_request_target(e, c)
  BY DEF TargetByte
<1> HIDE DEF b, e
<1>3. w \in Ctx /\ Only({"full_message"}, e, w) /\ w.full_message = Append(e.full_message, c)
  BY <1>1, WrittenByte
<1>4. e.full_message = x.full_message
  BY <1>1 DEF Only, Fields
<1>5. DOMAIN w = Fields
  BY <1>3, CtxFields
<1> HIDE DEF w, z
<1>6. ASSUME x.connect_method_used
      PROVE  z.full_message = w.full_message /\ Only({"uri_host"}, w, z)
  BY <1>2, <1>5, <1>6 DEF Only, Fields
<1>7. ASSUME x.connect_method_used PROVE Only({"error", "full_message", "uri_host"}, x, z)
  BY <1>1, <1>3, <1>6, <1>7 DEF Only
<1> QED
  BY <1>1, <1>2, <1>3, <1>4, <1>6, <1>7 DEF b, e, z

LEMMA TargetStateStep ==
  ASSUME ParserAssumption, NEW x \in Ctx, NEW line \in Seq(Byte), NEW c \in Byte,
         RequestParsed(x, line), Copied(x, line), x.HTTP_start_line = "REQUEST_TARGET",
         c # "SP", ~http_start_line(x, c).error
  PROVE  LET z == http_start_line(x, c)
         IN  RequestParsed(z, Append(line, c)) /\ Copied(z, Append(line, c))
<1> DEFINE t == parser_feed(HTTP_start_line[x.HTTP_start_line], c)
           y == [x EXCEPT !.HTTP_start_line = t.dest]
           e == [y EXCEPT !.error = @ \/ Len(y.uri_host) > UriLimit]
           z == http_start_line(x, c)
           r == After(line, "SP")
           more == Append(line, c)
<1>1. /\ y \in Ctx /\ y.HTTP_start_line = t.dest /\ Only({"HTTP_start_line"}, x, y)
      /\ t.acts = "byte_target" => z = TargetByte(y, c)
  BY StartEffect
<1>2. t = To("REQUEST_TARGET", "byte_target")
  <2>1. StartMove(x.HTTP_start_line, c, t)
    BY StartMoves DEF Ctx
  <2> HIDE DEF t
  <2> QED
    BY <2>1 DEF StartMove
<1>3. r \in Seq(Byte) /\ LineMove(line, c, more) /\ more = Append(line, c)
  BY LineMoves
<1>4. /\ First(line, "SP") # 0 /\ First(r, "SP") = 0
      /\ x.connect_method_used <=> Began(Len(CONNECT), CONNECT, MethodOf(line))
      /\ IF x.connect_method_used THEN ~x.uri_has_host ELSE TargetParsed(x, r)
      /\ line = IF ~x.connect_method_used /\ x.HTTP_request_target = "IS_ASTERISK"
                THEN Append(x.full_message, "STAR") ELSE x.full_message
  BY DEF RequestParsed, Copied, LineStates, StarIsDue
<1> HIDE DEF t
<1>5. z = TargetByte(y, c) /\ y.HTTP_start_line = "REQUEST_TARGET"
  BY <1>1, <1>2 DEF To
<1> HIDE DEF y
<1>6. /\ e \in Ctx /\ Only({"error"}, y, e)
      /\ ~y.connect_method_used => z = http_request_target(e, c)
      /\ y.connect_method_used =>
           z.full_message = Append(y.full_message, c)
             /\ Only({"error", "full_message", "uri_host"}, y, z)
  BY <1>1, <1>5, TargetByteEffect
<1> HIDE DEF e, z, r, more
<1>7. /\ y.full_message = x.full_message /\ y.connect_method_used = x.connect_method_used
      /\ y.uri_has_host = x.uri_has_host
      /\ e.full_message = x.full_message /\ e.connect_method_used = x.connect_method_used
      /\ e.HTTP_start_line = "REQUEST_TARGET" /\ e.HTTP_request_target = x.HTTP_request_target
  BY <1>1, <1>5, <1>6 DEF Only, Fields
<1>8. /\ First(more, "SP") # 0 /\ MethodOf(more) = MethodOf(line)
      /\ After(more, "SP") = Append(r, c) /\ First(After(more, "SP"), "SP") = 0
  BY <1>3, <1>4 DEF LineMove, r
<1>9. CASE x.connect_method_used
  <2>1. z.full_message = Append(x.full_message, c)
          /\ Only({"error", "full_message", "uri_host"}, y, z)
    BY <1>6, <1>7, <1>9
  <2>2. z.HTTP_start_line = "REQUEST_TARGET" /\ z.connect_method_used /\ ~z.uri_has_host
    BY <1>4, <1>5, <1>7, <1>9, <2>1 DEF Only, Fields
  <2>3. RequestParsed(z, more)
    BY <1>4, <1>8, <1>9, <2>2 DEF RequestParsed
  <2>4. Copied(z, more)
    BY <1>3, <1>4, <1>9, <2>1, <2>2 DEF Copied, StarIsDue
  <2> QED
    BY <2>3, <2>4 DEF z, more
<1>10. CASE ~x.connect_method_used
  <2>1. z = http_request_target(e, c) /\ ~z.error
    BY <1>6, <1>7, <1>10 DEF z
  <2>2. Only(Fields \ TargetMembers, x, e)
    BY <1>1, <1>6 DEF Only, TargetMembers
  <2>3. TargetParsed(e, r)
    BY <1>4, <1>10, <2>2, TargetSame
  <2>4. /\ TargetParsed(z, Append(r, c))
        /\ Only(TargetFields, e, z)
        /\ e.HTTP_request_target # "IS_ASTERISK"
        /\ z.full_message = IF z.HTTP_request_target = "IS_ASTERISK" THEN e.full_message
                                                                    ELSE Append(e.full_message, c)
        /\ z.HTTP_request_target = "IS_ASTERISK" => c = "STAR"
    BY <1>3, <1>6, <2>1, <2>3, TargetStep
  <2>5. z.HTTP_start_line = "REQUEST_TARGET" /\ z.connect_method_used = x.connect_method_used
    BY <1>7, <2>4 DEF Only, Fields, TargetFields
  <2>6. RequestParsed(z, more)
    BY <1>4, <1>8, <1>10, <2>4, <2>5 DEF RequestParsed
  <2>7. line = x.full_message
    BY <1>4, <1>7, <2>4
  <2>8. Copied(z, more)
    BY <1>3, <1>7, <1>10, <2>4, <2>5, <2>7 DEF Copied, StarIsDue
  <2> QED
    BY <2>6, <2>8 DEF z, more
<1> QED
  BY <1>9, <1>10

LEMMA TargetStateEnd ==
  ASSUME ParserAssumption, NEW x \in Ctx, NEW line \in Seq(Byte), NEW c \in Byte,
         RequestParsed(x, line), Copied(x, line), x.HTTP_start_line = "REQUEST_TARGET",
         c = "SP", ~http_start_line(x, c).error
  PROVE  LET z == http_start_line(x, c)
         IN  RequestParsed(z, Append(line, c)) /\ Copied(z, Append(line, c))
<1> DEFINE t == parser_feed(HTTP_start_line[x.HTTP_start_line], c)
           y == [x EXCEPT !.HTTP_start_line = t.dest]
           w == http_request_target(y, "SP")
           u == IF y.connect_method_used THEN y ELSE w
           z == http_start_line(x, c)
           r == After(line, "SP")
           more == Append(line, c)
<1>1. /\ y \in Ctx /\ y.HTTP_start_line = t.dest /\ Only({"HTTP_start_line"}, x, y)
      /\ t.acts = "wait_space2" => z = Written(u, <<"SP">>)
  BY StartEffect
<1>2. t = To("VERSION", "wait_space2")
  <2>1. StartMove(x.HTTP_start_line, c, t)
    BY StartMoves DEF Ctx
  <2> HIDE DEF t
  <2> QED
    BY <2>1 DEF StartMove
<1>3. r \in Seq(Byte) /\ LineMove(line, c, more) /\ more = Append(line, "SP")
  BY LineMoves
<1>4. /\ First(line, "SP") # 0 /\ First(r, "SP") = 0
      /\ x.connect_method_used <=> Began(Len(CONNECT), CONNECT, MethodOf(line))
      /\ IF x.connect_method_used THEN ~x.uri_has_host ELSE TargetParsed(x, r)
      /\ line = IF ~x.connect_method_used /\ x.HTTP_request_target = "IS_ASTERISK"
                THEN Append(x.full_message, "STAR") ELSE x.full_message
  BY DEF RequestParsed, Copied, LineStates, StarIsDue
<1> HIDE DEF t
<1>5. z = Written(u, <<"SP">>) /\ y.HTTP_start_line = "VERSION"
  BY <1>1, <1>2 DEF To
<1>6. w \in Ctx /\ (y.error => w.error)
  BY <1>1, KeepsRequestTarget DEF Keeps, ParserAssumption
<1> HIDE DEF y, w, z, r, more
<1>7. /\ y.full_message = x.full_message /\ y.connect_method_used = x.connect_method_used
      /\ y.uri_has_host = x.uri_has_host /\ y.HTTP_request_target = x.HTTP_request_target
  BY <1>1 DEF Only, Fields
<1>8. u \in Ctx
  BY <1>1, <1>6
<1>9. /\ Only({"full_message"}, u, z) /\ z.full_message = Append(u.full_message, "SP")
  BY <1>5, <1>8, WrittenByte DEF ParserAssumption, Marks
<1>10. /\ First(more, "SP") # 0 /\ MethodOf(more) = MethodOf(line) /\ TargetOf(more) = r
       /\ First(After(more, "SP"), "SP") # 0
  BY <1>3, <1>4 DEF LineMove, r
<1>11. CASE x.connect_method_used
  <2>1. u = y
    BY <1>7, <1>11
  <2> HIDE DEF u
  <2>2. z.HTTP_start_line = "VERSION" /\ z.connect_method_used /\ ~z.uri_has_host
    BY <1>4, <1>5, <1>7, <1>9, <1>11, <2>1 DEF Only, Fields
  <2>3. RequestParsed(z, more)
    BY <1>4, <1>10, <1>11, <2>2 DEF RequestParsed, TargetRead
  <2>4. Copied(z, more)
    BY <1>3, <1>4, <1>7, <1>9, <1>11, <2>1, <2>2 DEF Copied, StarIsDue
  <2> QED
    BY <2>3, <2>4 DEF z, more
<1>12. CASE ~x.connect_method_used
  <2>1. u = w
    BY <1>7, <1>12
  <2> HIDE DEF u
  <2>2. ~w.error
    <3>1. z.error = w.error
      BY <1>9, <2>1 DEF Only, Fields
    <3> QED
      BY <3>1 DEF z
  <2>3. TargetParsed(y, r)
    <3>1. Only(Fields \ TargetMembers, x, y)
      BY <1>1 DEF Only, TargetMembers
    <3> QED
      BY <1>4, <1>12, <3>1, TargetSame
  <2>4. /\ w.HTTP_request_target = "FIN"
        /\ w.uri_has_host <=> HostIn(r) # <<>>
        /\ w.uri_has_host => w.uri_host = HostIn(r)
        /\ Only(TargetFields, y, w)
        /\ w.full_message = IF y.HTTP_request_target = "IS_ASTERISK"
                            THEN Append(y.full_message, "STAR") ELSE y.full_message
    BY <1>1, <1>3, <2>2, <2>3, TargetEnd DEF w
  <2>5. /\ w.HTTP_start_line = "VERSION" /\ w.connect_method_used = x.connect_method_used
    BY <1>5, <1>7, <2>4 DEF Only, Fields, TargetFields
  <2>6. TargetRead(w, r)
    BY <2>4, <2>5, <1>12 DEF TargetRead
  <2>7. /\ z.HTTP_start_line = "VERSION" /\ z.connect_method_used = x.connect_method_used
        /\ TargetRead(z, r)
    <3>1. z.HTTP_start_line = w.HTTP_start_line /\ z.connect_method_used = w.connect_method_used
      BY <1>9, <2>1 DEF Only, Fields
    <3>2. Only(Fields \ TargetMembers, w, z)
      BY <1>9, <2>1 DEF Only, TargetMembers
    <3>3. TargetRead(z, r) <=> TargetRead(w, r)
      BY <3>1, <3>2, TargetSame
    <3> QED
      BY <2>5, <2>6, <3>1, <3>3
  <2>8. RequestParsed(z, more)
    BY <1>4, <1>10, <1>12, <2>7 DEF RequestParsed
  <2>9. Copied(z, more)
    BY <1>3, <1>4, <1>7, <1>9, <1>12, <2>1, <2>4, <2>7 DEF Copied, StarIsDue
  <2> QED
    BY <2>8, <2>9 DEF z, more
<1> QED
  BY <1>11, <1>12

\* After the target, nothing of the request line changes what was found in it.
LEMMA VersionStep ==
  ASSUME ParserAssumption, NEW x \in Ctx, NEW line \in Seq(Byte), NEW c \in Byte,
         RequestParsed(x, line), Copied(x, line),
         x.HTTP_start_line \notin {"METHOD", "REQUEST_TARGET"}, ~http_start_line(x, c).error
  PROVE  LET z == http_start_line(x, c)
         IN  RequestParsed(z, Append(line, c)) /\ Copied(z, Append(line, c))
<1> DEFINE t == parser_feed(HTTP_start_line[x.HTTP_start_line], c)
           y == [x EXCEPT !.HTTP_start_line = t.dest]
           w == http_request_target(y, "SP")
           z == http_start_line(x, c)
           more == Append(line, c)
           after == {"METHOD", "REQUEST_TARGET"}
<1>1. /\ y \in Ctx /\ y.HTTP_start_line = t.dest /\ Only({"HTTP_start_line"}, x, y)
      /\ t.acts = "byte_version" => z = Written(y, <<c>>)
      /\ t.acts = "wait_space2" => z = Written(IF y.connect_method_used THEN y ELSE w, <<"SP">>)
      /\ t.acts \notin StartActs => z = y
  BY StartEffect
<1>2. StartMove(x.HTTP_start_line, c, t)
  BY StartMoves DEF Ctx
<1>3. LineMove(line, c, more) /\ more = Append(line, c)
  BY LineMoves
<1>4. /\ First(line, "SP") # 0 /\ First(After(line, "SP"), "SP") # 0
      /\ x.connect_method_used <=> Began(Len(CONNECT), CONNECT, MethodOf(line))
      /\ TargetRead(x, TargetOf(line))
      /\ x.HTTP_start_line = "VERSION" => line = x.full_message
  BY DEF RequestParsed, Copied, LineStates, StarIsDue
<1>5. w \in Ctx /\ (t.acts = "wait_space2" /\ y.HTTP_request_target = "FIN" => w.error)
  <2>1. "SP" \in Byte
    BY DEF ParserAssumption, Marks
  <2>2. w \in Ctx
    <3> HIDE DEF y
    <3> QED
      BY <1>1, <2>1, KeepsRequestTarget DEF Keeps
  <2> DEFINE v == parser_feed(HTTP_request_target[y.HTTP_request_target], "SP")
  <2>3. v.acts = "error" => w.error
    BY <1>1, <2>1, TargetEffect
  <2>4. v.acts # "error" => TargetMove(y.HTTP_request_target, "SP", v)
    BY TargetMoves
  <2> HIDE DEF v, w, y, t
  <2>5. y.HTTP_request_target = "FIN" => w.error
    BY <2>3, <2>4 DEF TargetMove
  <2> QED
    BY <2>2, <2>5
<1> HIDE DEF t, y, w, z, more, after
<1>6. /\ y.full_message = x.full_message /\ y.connect_method_used = x.connect_method_used
      /\ y.uri_has_host = x.uri_has_host /\ y.HTTP_request_target = x.HTTP_request_target
  BY <1>1 DEF Only, Fields
<1>7. /\ First(more, "SP") # 0 /\ MethodOf(more) = MethodOf(line)
      /\ TargetOf(more) = TargetOf(line) /\ First(After(more, "SP"), "SP") # 0
  BY <1>3, <1>4 DEF LineMove
<1>8. /\ Only({"HTTP_start_line", "full_message"}, x, z)
      /\ z.HTTP_start_line \notin after
      /\ z.HTTP_start_line \in LineStates => z.full_message = Append(x.full_message, c)
                                              /\ x.HTTP_start_line = "VERSION"
  <2>1. CASE x.HTTP_start_line = "VERSION" /\ c # "SP"
    <3>1. z = Written(y, <<c>>) /\ y.HTTP_start_line = "VERSION"
      BY <1>1, <1>2, <2>1 DEF StartMove, To
    <3>2. Only({"full_message"}, y, z) /\ z.full_message = Append(y.full_message, c)
      BY <1>1, <3>1, WrittenByte
    <3>3. z.HTTP_start_line = "VERSION"
      BY <3>1, <3>2 DEF Only, Fields
    <3>4. Only({"HTTP_start_line", "full_message"}, x, z)
      BY <1>1, <3>2 DEF Only
    <3> QED
      BY <1>6, <2>1, <3>2, <3>3, <3>4 DEF after
  <2>2. CASE x.HTTP_start_line = "VERSION" /\ c = "SP"
    <3>1. t.acts = "wait_space2" /\ y.HTTP_start_line = "MAY_FIN"
      BY <1>1, <1>2, <2>2 DEF StartMove, To
    <3>2. y.connect_method_used
      <4>1. SUFFICES ASSUME ~y.connect_method_used PROVE FALSE
        OBVIOUS
      <4>2. w.error /\ z = Written(w, <<"SP">>)
        BY <1>1, <1>4, <1>5, <1>6, <3>1, <4>1 DEF TargetRead
      <4>3. z.error = w.error
        BY <1>5, <4>2, OnlyWritten DEF Only, Fields
      <4> QED
        BY <4>2, <4>3 DEF z
    <3>3. z = Written(y, <<"SP">>)
      BY <1>1, <3>1, <3>2
    <3>4. Only({"full_message"}, y, z)
      BY <1>1, <3>3, OnlyWritten
    <3>5. z.HTTP_start_line = "MAY_FIN"
      BY <3>1, <3>4 DEF Only, Fields
    <3>6. Only({"HTTP_start_line", "full_message"}, x, z)
      BY <1>1, <3>4 DEF Only
    <3> QED
      BY <3>5, <3>6 DEF after, LineStates
  <2>3. CASE x.HTTP_start_line # "VERSION"
    <3>1. t.dest \notin LineStates /\ t.acts \notin StartActs
      <4>1. x.HTTP_start_line \notin LineStates
        BY <2>3 DEF LineStates
      <4> QED
        BY <1>2, <4>1 DEF StartMove
    <3>2. z = y
      BY <1>1, <3>1
    <3>3. z.HTTP_start_line \notin LineStates
      BY <1>1, <3>1, <3>2
    <3>4. Only({"HTTP_start_line", "full_message"}, x, z)
      BY <1>1, <3>2 DEF Only
    <3> QED
      BY <3>3, <3>4 DEF after, LineStates
  <2> QED
    BY <2>1, <2>2, <2>3
<1>9. z.connect_method_used = x.connect_method_used
  BY <1>8 DEF Only, Fields
<1>10. TargetRead(z, TargetOf(more))
  <2>1. Only(Fields \ TargetMembers, x, z)
    BY <1>8 DEF Only, TargetMembers
  <2> QED
    BY <1>4, <1>7, <1>9, <2>1, TargetSame
<1>11. RequestParsed(z, more)
  BY <1>4, <1>7, <1>8, <1>9, <1>10 DEF RequestParsed, after
<1>12. Copied(z, more)
  BY <1>3, <1>4, <1>8 DEF Copied, StarIsDue, after
<1> QED
  BY <1>11, <1>12 DEF z, more

\* What a byte of the request line does.
LEMMA RequestStep ==
  ASSUME ParserAssumption, NEW x \in Ctx, NEW line \in Seq(Byte), NEW c \in Byte,
         RequestParsed(x, line), Copied(x, line), ~http_start_line(x, c).error
  PROVE  RequestParsed(http_start_line(x, c), Append(line, c))
           /\ Copied(http_start_line(x, c), Append(line, c))
<1>1. CASE x.HTTP_start_line = "METHOD"
  BY <1>1, MethodStep
<1>2. CASE x.HTTP_start_line = "REQUEST_TARGET" /\ c # "SP"
  BY <1>2, TargetStateStep
<1>3. CASE x.HTTP_start_line = "REQUEST_TARGET" /\ c = "SP"
  BY <1>3, TargetStateEnd
<1>4. CASE x.HTTP_start_line \notin {"METHOD", "REQUEST_TARGET"}
  BY <1>4, VersionStep
<1> QED
  BY <1>1, <1>2, <1>3, <1>4

LEMMA RequestStart ==
  ASSUME ParserAssumption
  PROVE  RequestParsed(initCtx, <<>>) /\ Copied(initCtx, <<>>)
<1>1. First(<<>>, "SP") = 0
  BY DEF First
<1>2. MethodOf(<<>>) = <<>>
  BY <1>1 DEF MethodOf, Before
<1>3. ~Began(Len(CONNECT), CONNECT, <<>>) /\ Len(CONNECT) \in Nat \ {0}
  <2>1. CONNECT \in Seq(Byte \ Marks) /\ CONNECT # <<>>
    BY DEF ParserAssumption
  <2>2. Len(CONNECT) \in Nat \ {0}
    BY <2>1
  <2>3. Len(CONNECT) - 1 \in Nat /\ (Len(CONNECT) - 1) + 1 = Len(CONNECT)
    BY <2>2
  <2> QED
    BY <2>2, <2>3, BeganNothing
<1>4. Began(0, CONNECT, <<>>) /\ ~Began(0 + 1, CONNECT, <<>>)
  BY BeganNothing
<1>5. ConnectParsed(NewMatcher, FALSE, <<>>)
  BY <1>3, <1>4 DEF ConnectParsed, NewMatcher
<1>6. TargetParsed(initCtx, <<>>)
  BY DEF TargetParsed, initCtx
<1>7. RequestParsed(initCtx, <<>>)
  BY <1>1, <1>2, <1>3, <1>5, <1>6 DEF RequestParsed, initCtx
<1>8. Copied(initCtx, <<>>)
  BY DEF Copied, StarIsDue, initCtx
<1> QED
  BY <1>7, <1>8

-----------------------------------------------------------------------------
(* The request line, in the run of the parser *)

\* What was received of the first line, CR LF with it.
RequestLine == IF LineEnds = {} THEN received ELSE Append(Append(Lines[1], "CR"), "LF")

\* No byte of a request after its first line is one of the request line.
PastStart == side = "request" /\ Ends # {} => ctx.HTTP_master \notin StartStates

RequestInv ==
  /\ Ranked(LineEnds) /\ PastStart
  /\ side = "request" /\ ~ctx.error =>
       RequestParsed(ctx, RequestLine) /\ (LineEnds = {} => Copied(ctx, received))

LEMMA PastStartStep == ASSUME TypeOK, MasterInv, PastStart, Parse PROVE PastStart'
<1> DEFINE c == Head(pending)
           q == ctx.HTTP_master
           t == parser_feed(HTTP_master[q], c)
           y == [ctx EXCEPT !.HTTP_master = t.dest]
<1>1. /\ c \in Byte /\ received' = Append(received, c) /\ ctx' = http_master(ctx, c)
      /\ side' = side /\ ctx \in Ctx /\ received \in Seq(Byte) /\ side \in {"request", "response"}
      /\ MasterInv'
  BY MasterStep DEF TypeOK
<1> HIDE DEF c
<1>2. /\ Ends' = Ends \cup (IF LastCR /\ c = "LF" THEN {Len(received) + 1} ELSE {})
      /\ Blanks' = Blanks \cup (IF BlankNext /\ c = "LF" THEN {Len(received) + 1} ELSE {})
  BY <1>1, EndsNext
<1>3. SUFFICES ASSUME side = "request", Ends' # {} PROVE ctx'.HTTP_master \notin StartStates
  BY <1>1 DEF PastStart
<1>4. CASE Ends = {}
  <2>1. Blanks = {} /\ ~BlankNext
    BY <1>4 DEF Blanks, BlankNext
  <2>2. Blanks' = {}
    BY <1>2, <2>1
  <2>3. ~BlankInBody'
    BY <2>2 DEF BlankInBody
  <2> QED
    BY <1>1, <1>3, <2>3 DEF MasterInv, IsAt
<1>5. CASE Ends # {}
  <2>1. q \in DOMAIN HTTP_master \ StartStates
    BY <1>1, <1>3, <1>5 DEF PastStart, Ctx
  <2>2. t.dest \notin StartStates
    BY <2>1, MasterPast
  <2>3. t.acts # "fin" => ctx'.HTTP_master = t.dest
    BY <1>1, MasterEffect, ParserAssumption
  <2>4. t.acts = "fin" => ctx'.HTTP_master = t.dest
    <3>1. /\ y \in Ctx /\ y.HTTP_master = t.dest
          /\ ctx.error => http_master(ctx, c) = y
          /\ ~ctx.error /\ t.acts = "fin" => http_master(ctx, c) =
               IF side = "request" THEN [y EXCEPT !.has_finished = TRUE]
                                   ELSE [y EXCEPT !.HTTP_master = "START_LINE"]
      BY <1>1, MasterLeaves, ParserAssumption
    <3> HIDE DEF y, t
    <3>2. [y EXCEPT !.has_finished = TRUE].HTTP_master = t.dest
      BY <3>1 DEF Ctx
    <3> QED
      BY <1>1, <1>3, <3>1, <3>2
  <2> QED
    BY <2>2, <2>3, <2>4
<1> QED
  BY <1>4, <1>5

\* What is said of the request line is left alone by what changes other members.
LEMMA RequestSame ==
  ASSUME NEW x, NEW y,
         Only(Fields \ (TargetMembers \cup {"HTTP_start_line", "HTTP_connect", "connect_method_used"}), x, y)
  PROVE  /\ \A line : RequestParsed(y, line) <=> RequestParsed(x, line)
         /\ y.full_message = x.full_message => \A line : Copied(y, line) <=> Copied(x, line)
<1>1. Only(Fields \ TargetMembers, x, y)
  BY DEF Only
<1>2. /\ y.HTTP_start_line = x.HTTP_start_line
      /\ y.HTTP_connect = x.HTTP_connect
      /\ y.connect_method_used = x.connect_method_used
  BY DEF Only, Fields, TargetMembers
<1>3. /\ \A r : TargetParsed(y, r) <=> TargetParsed(x, r)
      /\ \A r : TargetRead(y, r) <=> TargetRead(x, r)
      /\ y.uri_has_host = x.uri_has_host
      /\ y.HTTP_request_target = x.HTTP_request_target
  BY <1>1, <1>2, TargetSame
<1>4. \A line : RequestParsed(y, line) <=> RequestParsed(x, line)
  BY <1>2, <1>3 DEF RequestParsed
<1>5. y.full_message = x.full_message => \A line : Copied(y, line) <=> Copied(x, line)
  BY <1>2, <1>3 DEF Copied, StarIsDue
<1> QED
  BY <1>4, <1>5

\* The first line, when it ends.
LEMMA FirstLineEnds ==
  ASSUME received \in Seq(Byte), NEW c \in Byte, received' = Append(received, c),
         Ranked(LineEnds)
  PROVE  /\ LineEnds = {} /\ LineEnds' = {} => RequestLine' = Append(received, c)
         /\ LineEnds = {} /\ LineEnds' # {} => RequestLine' = Append(received, c)
         /\ LineEnds # {} => LineEnds' # {} /\ RequestLine' = RequestLine
         /\ LineEnds = {} => Blanks = {} /\ Ends = {}
<1>1. /\ LineEnds = {} => Blanks = {} /\ Ends = {}
      /\ LineEnds # {} => LineEnds' # {}
      /\ LineEnds = {} /\ LineEnds' # {} => LastCR /\ c = "LF" /\ HeaderEnd = 0
  <2>1. Ends' = Ends \cup (IF LastCR /\ c = "LF" THEN {Len(received) + 1} ELSE {})
          /\ Blanks \subseteq Ends
    BY EndsNext DEF Blanks
  <2>2. /\ Blanks # {} => LineEnds' = LineEnds
        /\ Blanks = {} => LineEnds = Ends /\ LineEnds' = Ends'
    BY HeaderEndNext
  <2>3. LineEnds = {} => HeaderEnd = 0
    BY HeaderEndIs
  <2>4. Blanks # {} => LineEnds # {}
    <3> SUFFICES ASSUME Blanks # {} PROVE LineEnds # {}
      OBVIOUS
    <3>1. Ends \in SUBSET Nat /\ Blanks \in SUBSET Nat
      BY <2>1, EndsNext
    <3>2. \E b \in Blanks : \A i \in Blanks : b <= i
      BY <3>1, Least
    <3>3. PICK b \in Blanks : \A i \in Blanks : b <= i
      BY <3>2
    <3> QED
      BY <2>1, <3>3 DEF LineEnds
  <2> QED
    BY <2>1, <2>2, <2>3, <2>4
<1>2. /\ Blanks = {} /\ LastCR /\ c = "LF" =>
           Lines' = Append(Lines, SubSeq(Body, 1, Len(Body) - 1))
      /\ ~(Blanks = {} /\ LastCR /\ c = "LF") => Lines' = Lines
      /\ Lines \in Seq(Seq(Byte)) /\ Len(Lines) = Cardinality(LineEnds)
      /\ Cardinality(LineEnds) \in Nat /\ (Cardinality(LineEnds) = 0 <=> LineEnds = {})
  BY LinesNext, LinesType, EndsAre
<1>3. CASE LineEnds = {} /\ LineEnds' = {}
  BY <1>1, <1>3 DEF RequestLine
<1>4. CASE LineEnds = {} /\ LineEnds' # {}
  <2>1. LastCR /\ c = "LF" /\ HeaderEnd = 0 /\ Blanks = {} /\ Lines = <<>>
    BY <1>1, <1>2, <1>4
  <2>2. Body = received
    <3>1. SubSeq(received, 1, Len(received)) = received
      BY SubSeqFull
    <3> QED
      BY <2>1, <3>1 DEF Body
  <2>3. Lines'[1] = SubSeq(received, 1, Len(received) - 1)
    BY <1>2, <2>1, <2>2
  <2>4. Append(Lines'[1], "CR") = received
    BY <2>1, <2>3, LastAdded DEF LastCR
  <2> QED
    BY <1>1, <1>4, <2>1, <2>4 DEF RequestLine
<1>5. CASE LineEnds # {}
  <2>1. Len(Lines) \in Nat \ {0}
    BY <1>2, <1>5
  <2>2. Lines'[1] = Lines[1]
    <3> DEFINE e == SubSeq(Body, 1, Len(Body) - 1)
    <3> HIDE DEF e
    <3>1. Append(Lines, e)[1] = Lines[1]
      BY <1>2, <2>1
    <3> QED
      BY <1>2, <3>1 DEF e
  <2> QED
    BY <1>1, <1>5, <2>2 DEF RequestLine
<1> QED
  BY <1>1, <1>3, <1>4, <1>5

RequestMembers == TargetMembers \cup {"HTTP_start_line", "HTTP_connect", "connect_method_used"}

\* After the first line nothing of the request line is changed.
LEMMA RestOfMessage ==
  ASSUME ParserAssumption, side = "request", NEW x \in Ctx, NEW c \in Byte,
         x.HTTP_master \notin StartStates
  PROVE  Only(Fields \ RequestMembers, x, http_master(x, c))
<1> DEFINE t == parser_feed(HTTP_master[x.HTTP_master], c)
           y == [x EXCEPT !.HTTP_master = t.dest]
           z == http_master(x, c)
<1>1. t.acts # "start_line"
  <2>1. x.HTTP_master \in DOMAIN HTTP_master \ StartStates
    BY DEF Ctx
  <2> QED
    BY <2>1, MasterPast
<1>2. /\ y \in Ctx /\ Only({"HTTP_master"}, x, y)
      /\ x.error => z = y
      /\ ~x.error /\ t.acts = "header" => z = http_header(y, c)
      /\ ~x.error /\ t.acts = "data" => z = DataByte(y, c)
      /\ ~x.error /\ t.acts \notin {"start_line", "header", "data", "fin"} => z = y
      /\ ~x.error /\ t.acts = "fin" => z = [y EXCEPT !.has_finished = TRUE]
  BY MasterLeaves
<1> HIDE DEF t, y, z
<1>3. DOMAIN y = Fields
  BY <1>2, CtxFields
<1>4. Only({"full_message", "has_finished", "message"}, y, DataByte(y, c))
  BY <1>3 DEF Only, Fields, DataByte, Written
<1>5. Only({"has_finished"}, y, [y EXCEPT !.has_finished = TRUE])
  BY <1>3 DEF Only, Fields
<1>6. Only(HeaderFields, y, http_header(y, c))
  BY <1>2, OnlyHeader
<1>7. Only(HeaderFields \cup {"full_message", "has_finished", "message"}, y, z)
  BY <1>1, <1>2, <1>4, <1>5, <1>6 DEF Only
<1>8. Only(HeaderFields \cup {"full_message", "has_finished", "message", "HTTP_master"}, x, z)
  BY <1>2, <1>7 DEF Only
<1>9. HeaderFields \cup {"full_message", "has_finished", "message", "HTTP_master"}
        \subseteq Fields \ RequestMembers
  BY DEF HeaderFields, Fields, RequestMembers, TargetMembers
<1> QED
  BY <1>8, <1>9, OnlyMore DEF z

LEMMA MasterActs ==
  ASSUME NEW q, NEW c
  PROVE  /\ q \in StartStates => parser_feed(HTTP_master[q], c).acts = "start_line"
         /\ q \in HeadStates => parser_feed(HTTP_master[q], c).acts = "header"
<1>1. ASSUME q \in StartStates PROVE parser_feed(HTTP_master[q], c).acts = "start_line"
  <2> DEFINE t == parser_feed(HTTP_master[q], c)
  <2>1. q \in StartStates \cup HeadStates \cup BodyStates
    BY <1>1
  <2>2. t.acts = IF q \in StartStates THEN "start_line"
                 ELSE IF q \in HeadStates THEN "header"
                 ELSE IF q = "DATA_CR_FIN" /\ c = "LF" THEN "fin" ELSE "data"
    BY <2>1, MasterMoves
  <2> HIDE DEF t
  <2>3. t.acts = "start_line"
    BY <1>1, <2>2
  <2> QED
    BY <2>3 DEF t
<1>2. ASSUME q \in HeadStates PROVE parser_feed(HTTP_master[q], c).acts = "header"
  <2>1. q \in StartStates \cup HeadStates \cup BodyStates /\ q \notin StartStates
    BY <1>2 DEF HeadStates, StartStates
  <2> QED
    BY <1>2, <2>1, MasterMoves
<1> QED
  BY <1>1, <1>2

\* A byte of the first line.
LEMMA FirstLineStep ==
  ASSUME TypeOK, MasterInv, RequestInv, Parse, LineEnds = {}, side = "request", ~ctx'.error
  PROVE  /\ RequestParsed(ctx', Append(received, Head(pending)))
         /\ Copied(ctx', Append(received, Head(pending)))
         /\ Only(StartFields \cup {"HTTP_master"}, ctx, ctx')
<1> DEFINE c == Head(pending)
           q == ctx.HTTP_master
           t == parser_feed(HTTP_master[q], c)
           y == [ctx EXCEPT !.HTTP_master = t.dest]
<1>1. /\ c \in Byte /\ received' = Append(received, c) /\ ctx' = http_master(ctx, c)
      /\ ctx \in Ctx /\ received \in Seq(Byte) /\ side \in {"request", "response"}
  BY MasterStep DEF TypeOK
<1> HIDE DEF c
<1>2. Blanks = {} /\ Ends = {} /\ RequestLine = received
  BY <1>1, FirstLineEnds DEF RequestLine, RequestInv
<1>3. ~ctx.error
  BY <1>1, MasterByte, ParserAssumption
<1>4. RequestParsed(ctx, received) /\ Copied(ctx, received)
  BY <1>2, <1>3 DEF RequestInv
<1>5. q \in StartStates
  <2>1. ~BlankInBody
    BY <1>2 DEF BlankInBody
  <2> QED
    BY <1>2, <2>1 DEF MasterInv, IsAt
<1>6. t.acts = "start_line"
  BY <1>5, MasterActs
<1>7. y \in Ctx /\ Only({"HTTP_master"}, ctx, y) /\ ctx' = http_start_line(y, c)
  BY <1>1, <1>3, <1>6, MasterLeaves, ParserAssumption
<1> HIDE DEF y, t, q
<1>8. RequestParsed(y, received) /\ Copied(y, received)
  <2>1. y.full_message = ctx.full_message
    BY <1>7 DEF Only, Fields
  <2>2. Only(Fields \ (TargetMembers \cup {"HTTP_start_line", "HTTP_connect", "connect_method_used"}), ctx, y)
    BY <1>7 DEF Only, TargetMembers
  <2> QED
    BY <1>4, <2>1, <2>2, RequestSame
<1>9. RequestParsed(ctx', Append(received, c)) /\ Copied(ctx', Append(received, c))
  BY <1>1, <1>7, <1>8, RequestStep, ParserAssumption
<1>10. Only(StartFields, y, ctx')
  BY <1>1, <1>7, OnlyStartLine, ParserAssumption
<1>11. Only(StartFields \cup {"HTTP_master"}, ctx, ctx')
  BY <1>7, <1>10 DEF Only
<1> QED
  BY <1>9, <1>11 DEF c

LEMMA RequestInvStep == ASSUME TypeOK, MasterInv, RequestInv, Parse PROVE RequestInv'
<1> DEFINE c == Head(pending)
           q == ctx.HTTP_master
<1>1. /\ c \in Byte /\ received' = Append(received, c) /\ ctx' = http_master(ctx, c)
      /\ side' = side /\ ctx \in Ctx /\ received \in Seq(Byte) /\ side \in {"request", "response"}
      /\ Ranked(LineEnds) /\ PastStart
  BY MasterStep DEF TypeOK, RequestInv
<1>2. LineEnds = {} /\ side = "request" /\ ~ctx'.error =>
        RequestParsed(ctx', Append(received, c)) /\ Copied(ctx', Append(received, c))
  BY FirstLineStep
<1> HIDE DEF c
<1>3. Ranked(LineEnds)' /\ PastStart'
  BY <1>1, LinesNext, PastStartStep
<1>4. /\ LineEnds = {} => RequestLine' = Append(received, c)
      /\ LineEnds # {} => LineEnds' # {} /\ RequestLine' = RequestLine
  BY <1>1, FirstLineEnds
<1>5. SUFFICES ASSUME side = "request", ~ctx'.error
               PROVE  RequestParsed(ctx', RequestLine') /\ (LineEnds' = {} => Copied(ctx', received'))
  BY <1>1, <1>3 DEF RequestInv
<1>6. CASE LineEnds = {}
  BY <1>1, <1>2, <1>4, <1>5, <1>6
<1>7. CASE LineEnds # {}
  <2>1. q \notin StartStates
    <3>1. Ends # {}
      BY <1>7 DEF LineEnds
    <3> QED
      BY <1>1, <1>5, <3>1 DEF PastStart
  <2>2. ~ctx.error
    BY <1>1, <1>5, MasterByte, ParserAssumption
  <2>3. Only(Fields \ RequestMembers, ctx, ctx')
    BY <1>1, <1>5, <2>1, RestOfMessage, ParserAssumption
  <2>4. RequestParsed(ctx', RequestLine)
    BY <1>5, <2>2, <2>3, RequestSame DEF RequestMembers, RequestInv
  <2> QED
    BY <1>4, <1>7, <2>4
<1> QED
  BY <1>6, <1>7

LEMMA RequestAlways == Spec => []RequestInv
<1>1. Init => RequestInv
  <2> SUFFICES ASSUME Init PROVE RequestInv
    OBVIOUS
  <2>1. received = <<>> /\ (side = "request" => ctx = initCtx)
    BY DEF Init
  <2>2. Ends = {} /\ LineEnds = {}
    BY <2>1 DEF Ends, LineEnds
  <2>3. Ranked(LineEnds)
    <3>1. Cardinality({}) = 0 /\ IsFiniteSet({})
      BY FS_EmptySet
    <3> QED
      BY <2>2, <3>1 DEF Ranked
  <2>4. RequestParsed(initCtx, <<>>) /\ Copied(initCtx, <<>>)
    BY RequestStart, ParserAssumption
  <2> QED
    BY <2>1, <2>2, <2>3, <2>4 DEF RequestInv, PastStart, RequestLine
<1>2. TypeOK /\ MasterInv /\ RequestInv /\ [Next]_vars => RequestInv'
  <2> SUFFICES ASSUME TypeOK, MasterInv, RequestInv, [Next]_vars PROVE RequestInv'
    OBVIOUS
  <2>1. CASE Parse
    BY <2>1, RequestInvStep
  <2>2. CASE Read \/ UNCHANGED vars
    <3>1. UNCHANGED <<side, ctx, received>>
      BY <2>2, OtherSteps
    <3>2. Ends' = Ends
      BY <3>1 DEF Ends
    <3>3. Blanks' = Blanks
      BY <3>2 DEF Blanks
    <3>4. LineEnds' = LineEnds
      BY <3>2, <3>3 DEF LineEnds
    <3>5. Lines' = Lines
      BY <3>1, <3>4 DEF Lines, EndOf
    <3>6. RequestLine' = RequestLine
      BY <3>1, <3>4, <3>5 DEF RequestLine
    <3>7. Ranked(LineEnds)' /\ PastStart'
      BY <3>1, <3>2, <3>4 DEF RequestInv, PastStart
    <3> QED
      BY <3>1, <3>4, <3>6, <3>7 DEF RequestInv
  <2> QED
    BY <2>1, <2>2 DEF Next
<1> QED
  BY <1>1, <1>2, ParserTypeCorrect, MasterAlways, PTL DEF Spec

\* What CR LF adds to the first line is nothing to its method and its target.
LEMMA RequestLineIs ==
  ASSUME ParserAssumption, received \in Seq(Byte), Ranked(LineEnds)
  PROVE  /\ FirstLine \in Seq(Byte)
         /\ Began(Len(CONNECT), CONNECT, MethodOf(RequestLine)) <=> Within(CONNECT, Method)
         /\ TargetOf(RequestLine) = TargetOf(FirstLine)
         /\ First(RequestLine, "SP") = 0 <=> First(FirstLine, "SP") = 0
<1> DEFINE n == Len(CONNECT)
<1>0. /\ n \in Nat \ {0} /\ (n - 1) + 1 = n /\ n - 1 \in Nat /\ CONNECT \in Seq(Byte)
      /\ CONNECT[n] \notin {"CR", "LF"} /\ {"CR", "LF"} \subseteq Byte
  <2>1. CONNECT \in Seq(Byte \ Marks) /\ CONNECT # <<>>
    BY DEF ParserAssumption
  <2>2. n \in Nat \ {0}
    BY <2>1
  <2>3. CONNECT[n] \in Byte \ Marks
    BY <2>1, <2>2, ElementOfSeq
  <2>4. CONNECT \in Seq(Byte)
    BY <2>1, SeqMonotonic
  <2> QED
    BY <2>2, <2>3, <2>4 DEF ParserAssumption, Marks
<1> HIDE DEF n
<1>1. ASSUME NEW line \in Seq(Byte), NEW c \in {"CR", "LF"}
      PROVE  /\ Append(line, c) \in Seq(Byte)
             /\ Began(n, CONNECT, MethodOf(Append(line, c))) <=> Began(n, CONNECT, MethodOf(line))
             /\ TargetOf(Append(line, c)) = TargetOf(line)
             /\ First(Append(line, c), "SP") = 0 <=> First(line, "SP") = 0
  <2> DEFINE more == Append(line, c)
  <2>0. c \in Byte /\ c # "SP"
    BY <1>0, <1>1
  <2>1. more \in Seq(Byte) /\ LineMove(line, c, more) /\ c # "SP" /\ c \in Byte
    <3>1. more \in Seq(Byte)
      BY <1>1, <2>0
    <3>2. LineMove(line, c, Append(line, c))
      BY <1>1, <2>0, LineMoves
    <3> QED
      BY <2>0, <3>1, <3>2
  <2>2. Began((n - 1) + 1, CONNECT, more) <=>
          Began((n - 1) + 1, CONNECT, line) \/ GoesOn(n - 1, CONNECT, line, c)
    <3>1. \A k \in Nat : Began(k + 1, CONNECT, more) <=>
            Began(k + 1, CONNECT, line) \/ GoesOn(k, CONNECT, line, c)
      BY <1>1, <2>1, BeganNext
    <3> QED
      BY <1>0, <3>1
  <2>3. ~GoesOn(n - 1, CONNECT, line, c)
    BY <1>0, <1>1 DEF GoesOn
  <2> HIDE DEF more
  <2>4. Began(n, CONNECT, more) <=> Began(n, CONNECT, line)
    BY <1>0, <2>2, <2>3
  <2>5. Began(n, CONNECT, MethodOf(more)) <=> Began(n, CONNECT, MethodOf(line))
    BY <2>1, <2>4 DEF LineMove
  <2>6. TargetOf(more) = TargetOf(line)
    <3>1. CASE First(line, "SP") = 0
      BY <2>1, <3>1, NoTarget DEF LineMove, more
    <3>2. CASE First(line, "SP") # 0 /\ First(After(line, "SP"), "SP") # 0
      BY <2>1, <3>2 DEF LineMove
    <3>3. CASE First(line, "SP") # 0 /\ First(After(line, "SP"), "SP") = 0
      <4>1. First(After(more, "SP"), "SP") = 0
        BY <2>1, <3>3 DEF LineMove
      <4> QED
        BY <3>3, <4>1 DEF TargetOf
    <3> QED
      BY <3>1, <3>2, <3>3
  <2>7. First(more, "SP") = 0 <=> First(line, "SP") = 0
    BY <2>1 DEF LineMove
  <2> QED
    BY <2>1, <2>5, <2>6, <2>7 DEF more
<1>2. FirstLine \in Seq(Byte)
  <2>1. LineEnds # {} => Lines[1] \in Seq(Byte)
    <3>1. Lines \in Seq(Seq(Byte)) /\ Len(Lines) = Cardinality(LineEnds)
            /\ Cardinality(LineEnds) \in Nat /\ (Cardinality(LineEnds) = 0 <=> LineEnds = {})
      BY LinesType, EndsAre
    <3> HIDE DEF n
    <3>2. LineEnds # {} => 1 \in 1 .. Len(Lines)
      BY <3>1
    <3> QED
      BY <3>1, <3>2, ElementOfSeq
  <2> QED
    BY <2>1 DEF FirstLine
<1>3. /\ Began(n, CONNECT, MethodOf(RequestLine)) <=> Began(n, CONNECT, MethodOf(FirstLine))
      /\ TargetOf(RequestLine) = TargetOf(FirstLine)
      /\ First(RequestLine, "SP") = 0 <=> First(FirstLine, "SP") = 0
  <2>1. CASE LineEnds = {}
    BY <2>1 DEF RequestLine, FirstLine
  <2>2. CASE LineEnds # {}
    <3>1. RequestLine = Append(Append(FirstLine, "CR"), "LF")
      BY <2>2 DEF RequestLine, FirstLine
    <3> DEFINE mid == Append(FirstLine, "CR")
    <3>2. /\ mid \in Seq(Byte)
          /\ Began(n, CONNECT, MethodOf(mid)) <=> Began(n, CONNECT, MethodOf(FirstLine))
          /\ TargetOf(mid) = TargetOf(FirstLine)
          /\ First(mid, "SP") = 0 <=> First(FirstLine, "SP") = 0
      BY <1>1, <1>2
    <3> HIDE DEF mid
    <3>3. /\ Began(n, CONNECT, MethodOf(Append(mid, "LF"))) <=> Began(n, CONNECT, MethodOf(mid))
          /\ TargetOf(Append(mid, "LF")) = TargetOf(mid)
          /\ First(Append(mid, "LF"), "SP") = 0 <=> First(mid, "SP") = 0
      BY <1>1, <3>2
    <3> QED
      BY <3>1, <3>2, <3>3 DEF mid
  <2> QED
    BY <2>1, <2>2
<1>4. MethodOf(FirstLine) \in Seq(Byte)
  <2>1. First(FirstLine, "SP") \in 0 .. Len(FirstLine) /\ Len(FirstLine) \in Nat
    BY <1>2, FirstIs
  <2>2. CASE First(FirstLine, "SP") = 0
    BY <1>2, <2>2 DEF MethodOf, Before
  <2>3. CASE First(FirstLine, "SP") # 0
    <3>1. First(FirstLine, "SP") - 1 \in 0 .. Len(FirstLine)
      BY <2>1, <2>3
    <3>2. SubSeq(FirstLine, 1, First(FirstLine, "SP") - 1) \in Seq(Byte)
      BY <1>2, <3>1, SubSeqProperties
    <3> QED
      BY <2>3, <3>2 DEF MethodOf, Before
  <2> QED
    BY <2>2, <2>3
<1>5. Within(CONNECT, Method) <=> Began(n, CONNECT, MethodOf(FirstLine))
  BY <1>0, <1>4, WithinIs DEF Method, n
<1> QED
  BY <1>2, <1>3, <1>5 DEF n

\* The letters of CONNECT are in CONNECT.
LEMMA WithinItself == ASSUME NEW S, NEW s \in Seq(S) PROVE Within(s, s)
<1> DEFINE f == [k \in DOMAIN s |-> k]
<1>1. DOMAIN s = 1 .. Len(s) /\ Len(s) \in Nat
  OBVIOUS
<1>2. f \in [DOMAIN s -> DOMAIN s] /\ \A k \in DOMAIN s : s[f[k]] = s[k]
  OBVIOUS
<1>3. ASSUME NEW k \in DOMAIN s \ {1} PROVE f[k - 1] < f[k]
  <2>1. k \in DOMAIN s /\ k - 1 \in DOMAIN s /\ k - 1 < k
    BY <1>1, <1>3
  <2> QED
    BY <2>1
<1> HIDE DEF f
<1> QED
  BY <1>2, <1>3 DEF Within

\* Whatever is sent and however it is split into reads, a request with the method
\* CONNECT is taken for one, and none is without its letters, in their order, in its
\* method (HTTP_START_LINE_METHOD in http_start_line; the matcher of parser_utils.c
\* waits for the next letter over any other byte but 0, where the process ends).
THEOREM ConnectAsSent == Spec => []ConnectIsSeen
<1>1. TypeOK /\ RequestInv => ConnectIsSeen
  <2> SUFFICES ASSUME TypeOK, RequestInv, side = "request", ~ctx.error
               PROVE  ctx.connect_method_used <=> Within(CONNECT, Method)
    <3>1. CONNECT \in Seq(Byte \ Marks)
      BY ParserAssumption DEF ParserAssumption
    <3>2. Within(CONNECT, CONNECT)
      BY <3>1, WithinItself
    <3> QED
      BY <3>2 DEF ConnectIsSeen
  <2>1. ctx.connect_method_used <=> Began(Len(CONNECT), CONNECT, MethodOf(RequestLine))
    BY DEF RequestInv, RequestParsed
  <2>2. Began(Len(CONNECT), CONNECT, MethodOf(RequestLine)) <=> Within(CONNECT, Method)
    BY RequestLineIs, ParserAssumption DEF RequestInv, TypeOK
  <2> QED
    BY <2>1, <2>2
<1> QED
  BY <1>1, RequestAlways, ParserTypeCorrect, PTL

-----------------------------------------------------------------------------
(* The header: what its automaton, the matchers and the flags made of the lines *)
(* received and of the bytes of the line that is not over                       *)

ValueStates == {"COLON", "OWS", "FIELD_VALUE", "CR_FIELD_VALUE"}
CrStates    == {"CR_FIN", "CR_FIELD_NAME", "CR_FIELD_VALUE"}
InLineStates == {"NEW_LINE", "FIELD_NAME"} \cup ValueStates \cup CrStates

EndsCR(p)  == Len(p) > 0 /\ p[Len(p)] = "CR"
WithoutCR(p) == SubSeq(p, 1, Len(p) - 1)

\* The line begun has a carriage return in its name, and a byte after it.
Broken(p) == BrokenName(p) /\ First(NameOf(p), "CR") < Len(p)

\* The automaton of the header is at q after the bytes p of a line.
LineAt(q, p) ==
  /\ q \in InLineStates
  /\ q \in CrStates <=> EndsCR(p)
  /\ q = "NEW_LINE" <=> p = <<>>
  /\ q = "CR_FIN" => p = <<"CR">>
  /\ q = "FIELD_NAME" => First(p, "CR") = 0
  /\ q = "CR_FIELD_NAME" => Len(p) > 1
  /\ q \in ValueStates <=> First(p, "COLON") # 0
  /\ q \in ValueStates => NameOf(p) # <<>>
  /\ q \in {"COLON", "OWS"} => ValueOf(p) = <<>>
  /\ q = "FIELD_VALUE" => ValueOf(p) # <<>>

\* The bytes the matchers were given, those taken as the value.
NameSoFar(q, p) ==
  IF q \in ValueStates THEN NameOf(p) ELSE IF q \in CrStates THEN WithoutCR(p) ELSE p

ValueSoFar(q, p) ==
  IF q \notin ValueStates THEN <<>>
  ELSE IF q = "CR_FIELD_VALUE" THEN WithoutCR(ValueOf(p)) ELSE ValueOf(p)

\* The matcher m of name was given the bytes of text.
StartOf(text, name) ==
  Len(text) <= Len(name) /\ \A i \in 1 .. Len(text) : lower(text[i]) = name[i]

MatchParsed(m, name, text) ==
  IF StartOf(text, name)
  THEN /\ m.at = Len(text)
       /\ text # <<>> => m.event = IF Len(text) = Len(name) THEN "EQ" ELSE "MAYEQ"
  ELSE m.at > Len(name) /\ m.event = "NEQ"

Matched(x, p) ==
  LET text == NameSoFar(x.HTTP_header, p)
  IN  /\ MatchParsed(x.match.host, HeaderName.host, text)
      /\ ~x.found.connection => MatchParsed(x.match.connection, HeaderName.connection, text)

\* The lines of a header among lines, and those of the header h.
NamedIn(lines, h) == {k \in 2 .. Len(lines) : lines[k] # <<>> /\ Named(lines[k], h)}

\* The host found, from the lines and the host of the target.
HostPart(x, lines, p, uri) ==
  LET hosts == NamedIn(lines, "host")
      given == ValueSoFar(x.HTTP_header, p)
  IN  /\ x.host_count = Cardinality(hosts) /\ Cardinality(hosts) <= 1
      /\ x.found.host <=> \E k \in hosts : ValueOf(lines[k]) # <<>>
      /\ x.found.host => \A k \in hosts :
           x.value.host = IF uri # <<>> THEN uri ELSE ValueOf(lines[k])
      /\ ~x.found.host => x.value.host =
           IF x.HTTP_header \in ValueStates /\ Is(x, "host") THEN given ELSE <<>>

\* Whether the first Connection header was met, and is being dropped.
ConnectionPart(x, lines, p) ==
  LET before == NamedIn(lines, "connection") # {}
      here   == x.HTTP_header \in ValueStates /\ Named(p, "connection")
  IN  /\ x.connection_avoid <=> ~before /\ here
      /\ x.found.connection <=> before \/ here

UriPart(x, uri) == (x.uri_has_host <=> uri # <<>>) /\ (x.uri_has_host => x.uri_host = uri)

\* What is forwarded of the k-th line, of all of them.
ForwardIn(lines, uri, k) ==
  LET line == lines[k]
      host == IF uri # <<>> /\ k \in NamedIn(lines, "host") /\ ValueOf(line) # <<>>
              THEN uri ELSE ValueOf(line)
  IN  IF k = 1 \/ line = <<>> THEN line \o <<"CR", "LF">>
      ELSE IF k \in NamedIn(lines, "connection") /\ \A j \in NamedIn(lines, "connection") : k <= j
      THEN <<>>
      ELSE NameOf(line) \o <<"COLON">> \o host \o <<"CR", "LF">>

Forward(lines, uri) == FlattenSeq([k \in 1 .. Len(lines) |-> ForwardIn(lines, uri, k)])

EndsLine(s) == \E f \in Seq(Byte) : s = f \o <<"CR", "LF">>

\* What is forwarded of the line that is not over.
Partial(x, p) ==
  LET text == NameSoFar(x.HTTP_header, p)
      kept == ~(x.uri_has_host /\ Is(x, "host") /\ ~x.found.host)
  IN  IF x.HTTP_header \notin ValueStates THEN text
      ELSE (text \o <<"COLON">>) \o (IF kept THEN ValueSoFar(x.HTTP_header, p) ELSE <<>>)

\* The CR LF before the Connection header dropped is taken back with its name.
ForwardPart(x, lines, p, uri) ==
  /\ EndsLine(Forward(lines, uri))
  /\ x.connection_avoid => Forward(lines, uri) = x.full_message \o <<"CR", "LF">>
  /\ ~x.connection_avoid => x.full_message = Forward(lines, uri) \o Partial(x, p)

\* In a header whose lines are lines and whose line begun is p.
HeadParsed(x, lines, p, uri) ==
  /\ LineAt(x.HTTP_header, p) /\ Matched(x, p)
  /\ HostPart(x, lines, p, uri) /\ ConnectionPart(x, lines, p) /\ UriPart(x, uri)
  /\ x.HTTP_start_line = "VERSION" => ForwardPart(x, lines, p, uri)

\* A line over has a carriage return in its name.
SomeBroken(lines) == \E k \in 2 .. Len(lines) : lines[k] # <<>> /\ BrokenName(lines[k])

\* After the header.
HeadOver(x, lines, uri) == x.HTTP_header = "FIN" /\ HostPart(x, lines, <<>>, uri)

\* The host of the target, once the request line is over.
UriOf(x) == IF x.uri_has_host THEN x.uri_host ELSE <<>>

\* Before the header.
HeaderFresh(x) ==
  /\ x.HTTP_header = initCtx.HTTP_header /\ x.match = initCtx.match /\ x.value = initCtx.value
  /\ x.found = initCtx.found /\ x.host_count = initCtx.host_count
  /\ x.connection_avoid = initCtx.connection_avoid

\* What was made of the header, unless a line over has a carriage return in its
\* name; after it, the body is forwarded.
BodyForwarded ==
  ctx.HTTP_start_line = "VERSION" =>
    /\ Forward(Lines, UriOf(ctx)) \in Seq(Byte)
    /\ ~BlankInBody => ctx.full_message = Forward(Lines, UriOf(ctx)) \o Body

HeaderPart ==
  \/ SomeBroken(Lines)
  \/ Blanks = {} /\ (Broken(Body) \/ HeadParsed(ctx, Lines, Body, UriOf(ctx)))
  \/ Blanks # {} /\ HeadOver(ctx, Lines, UriOf(ctx)) /\ BodyForwarded

\* No byte of a request after its blank line is one of the header.
PastHead == side = "request" /\ Blanks # {} => ctx.HTTP_master \notin StartStates \cup HeadStates

HeaderInv ==
  /\ PastHead
  /\ side = "request" /\ ~ctx.error => IF LineEnds = {} THEN HeaderFresh(ctx) ELSE HeaderPart

-----------------------------------------------------------------------------
(* Name and value of a line, one byte later *)

\* What follows the spaces at the start of s.
Stripped(s) ==
  LET text == {i \in DOMAIN s : s[i] # "SP"}
  IN  SubSeq(s, Min(text \cup {Len(s) + 1}), Len(s))

LEMMA StrippedNext ==
  ASSUME NEW s \in Seq(Byte), NEW c \in Byte
  PROVE  /\ Stripped(s) \in Seq(Byte)
         /\ Stripped(Append(s, c)) = IF Stripped(s) = <<>> /\ c = "SP" THEN <<>>
                                                              ELSE Append(Stripped(s), c)
<1> DEFINE n == Len(s)
           t == Append(s, c)
           text == {i \in DOMAIN s : s[i] # "SP"}
           T == {i \in DOMAIN t : t[i] # "SP"}
<1>1. /\ n \in Nat /\ t \in Seq(Byte) /\ Len(t) = n + 1 /\ t[n + 1] = c
      /\ DOMAIN s = 1 .. n /\ DOMAIN t = 1 .. n + 1
      /\ \A i \in 1 .. n : t[i] = s[i]
  BY AppendProperties, LenProperties
<1>2. Stripped(s) = SubSeq(s, Min(text \cup {n + 1}), n)
  BY DEF Stripped
<1>3. Stripped(t) = SubSeq(t, Min(T \cup {n + 2}), n + 1)
  <2>1. Stripped(t) = SubSeq(t, Min(T \cup {Len(t) + 1}), Len(t))
    BY DEF Stripped
  <2> HIDE DEF t, T, n
  <2>2. (n + 1) + 1 = n + 2
    BY <1>1
  <2> QED
    BY <1>1, <2>1, <2>2
<1>4. text \subseteq 1 .. n /\ T = text \cup (IF c # "SP" THEN {n + 1} ELSE {})
  BY <1>1
<1>5. \A h \in Nat \ {0} : n + 1 >= h => SubSeq(t, h, n + 1) = Append(SubSeq(s, h, n), c)
  BY RestFrom
<1>6. \A h \in Nat \ {0} : SubSeq(s, h, n) \in Seq(Byte)
  BY <1>1, SubSeqProperties
<1> HIDE DEF n, t, text, T
<1>7. CASE text = {}
  <2>1. Min(text \cup {n + 1}) = n + 1
    BY <1>1, <1>7, LeastIs
  <2>2. Stripped(s) = <<>>
    <3>1. SubSeq(s, n + 1, n) = <<>>
      BY <1>1, SubSeqEmpty
    <3> QED
      BY <1>2, <2>1, <3>1
  <2>3. CASE c = "SP"
    <3>1. T \cup {n + 2} = {n + 2}
      BY <1>4, <1>7, <2>3
    <3>2. Min({n + 2}) = n + 2
      BY <1>1, LeastIs
    <3>3. SubSeq(t, n + 2, n + 1) = <<>>
      BY <1>1, SubSeqEmpty
    <3>4. Stripped(t) = <<>>
      BY <1>3, <3>1, <3>2, <3>3
    <3>5. Stripped(Append(s, c)) = <<>>
      BY <3>4 DEF t
    <3> QED
      BY <2>2, <2>3, <3>5
  <2>4. CASE c # "SP"
    <3>1. T \cup {n + 2} = {n + 1, n + 2}
      BY <1>4, <1>7, <2>4
    <3>2. Min({n + 1, n + 2}) = n + 1
      BY <1>1, LeastIs
    <3>3. SubSeq(t, n + 1, n + 1) = Append(SubSeq(s, n + 1, n), c)
      BY <1>1, <1>5
    <3>4. SubSeq(s, n + 1, n) = <<>>
      BY <1>1, SubSeqEmpty
    <3>5. Stripped(t) = Append(<<>>, c)
      BY <1>3, <3>1, <3>2, <3>3, <3>4
    <3>6. Stripped(Append(s, c)) = Append(<<>>, c)
      BY <3>5 DEF t
    <3> QED
      BY <2>2, <2>4, <3>6
  <2> QED
    BY <2>3, <2>4
<1>8. CASE text # {}
  <2>1. text \in SUBSET Nat
    BY <1>1, <1>4
  <2>2. \E k \in text : \A i \in text : k <= i
    BY <1>8, <2>1, Least
  <2>3. PICK k \in text : \A i \in text : k <= i
    BY <2>2
  <2>4. k \in 1 .. n
    BY <1>4
  <2>5. Min(text \cup {n + 1}) = k
    <3>1. text \cup {n + 1} \in SUBSET Nat /\ k \in text \cup {n + 1}
            /\ \A i \in text \cup {n + 1} : k <= i
      BY <1>1, <1>4, <2>3, <2>4
    <3> QED
      BY <3>1, LeastIs
  <2>6. Min(T \cup {n + 2}) = k
    <3>1. T \cup {n + 2} \in SUBSET Nat /\ k \in T \cup {n + 2}
            /\ \A i \in T \cup {n + 2} : k <= i
      BY <1>1, <1>4, <2>3, <2>4
    <3> QED
      BY <3>1, LeastIs
  <2>7. SubSeq(t, k, n + 1) = Append(SubSeq(s, k, n), c)
    BY <1>1, <1>5, <2>4
  <2>8. SubSeq(s, k, n) \in Seq(Byte) /\ Len(SubSeq(s, k, n)) # 0
    BY <1>1, <2>4, SubSeqProperties
  <2>9. SubSeq(s, k, n) # <<>>
    <3> DEFINE w == SubSeq(s, k, n)
    <3>1. w \in Seq(Byte) /\ Len(w) # 0
      BY <2>8
    <3> HIDE DEF w
    <3>2. w # <<>>
      BY <3>1
    <3> QED
      BY <3>2 DEF w
  <2> QED
    BY <1>2, <1>3, <2>5, <2>6, <2>7, <2>8, <2>9 DEF t
<1> QED
  BY <1>7, <1>8

\* One byte more of the line p, which is now more.
NameMove(p, c, more) ==
  /\ First(more, "COLON") = 0 <=> First(p, "COLON") = 0 /\ c # "COLON"
  /\ First(p, "COLON") # 0 =>
       /\ NameOf(more) = NameOf(p)
       /\ ValueOf(more) = IF ValueOf(p) = <<>> /\ c = "SP" THEN <<>> ELSE Append(ValueOf(p), c)
  /\ First(p, "COLON") = 0 => NameOf(p) = p
  /\ First(p, "COLON") = 0 /\ c = "COLON" => NameOf(more) = p /\ ValueOf(more) = <<>>
  /\ First(p, "COLON") = 0 /\ c # "COLON" => NameOf(more) = more

LEMMA NameMoves ==
  ASSUME NEW p \in Seq(Byte), NEW c \in Byte
  PROVE  NameMove(p, c, Append(p, c)) /\ ValueOf(p) \in Seq(Byte) /\ NameOf(p) \in Seq(Byte)
<1> DEFINE more == Append(p, c)
           rest == After(p, "COLON")
<1>1. /\ rest \in Seq(Byte)
      /\ After(more, "COLON") = IF First(p, "COLON") = 0 /\ c = "COLON" THEN <<>> ELSE Append(rest, c)
  BY AfterNext
<1>2. First(more, "COLON") = IF First(p, "COLON") # 0 THEN First(p, "COLON")
                             ELSE IF c = "COLON" THEN Len(p) + 1 ELSE 0
  BY FirstNext
<1>3. NameOf(more) = IF First(p, "COLON") # 0 \/ c = "COLON" THEN NameOf(p) ELSE more
  BY BeforeNext DEF NameOf
<1>4. First(p, "COLON") = 0 => NameOf(p) = p
  BY DEF NameOf, Before
<1>5. ValueOf(p) = Stripped(rest) /\ ValueOf(more) = Stripped(After(more, "COLON"))
  BY DEF ValueOf, Stripped
<1>6. Len(p) \in Nat
  OBVIOUS
<1>7. First(p, "COLON") \in 0 .. Len(p)
  BY FirstIs
<1> HIDE DEF more, rest
<1>8. /\ Stripped(rest) \in Seq(Byte)
      /\ Stripped(Append(rest, c)) = IF Stripped(rest) = <<>> /\ c = "SP" THEN <<>>
                                                              ELSE Append(Stripped(rest), c)
  BY <1>1, StrippedNext
<1>9. Stripped(<<>>) = <<>>
  <2>1. Min({} \cup {0 + 1}) = 0 + 1
    BY LeastIs
  <2>2. SubSeq(<<>>, 0 + 1, 0) = <<>>
    OBVIOUS
  <2>3. {i \in DOMAIN <<>> : <<>>[i] # "SP"} = {} /\ Len(<<>>) = 0
    OBVIOUS
  <2> QED
    BY <2>1, <2>2, <2>3 DEF Stripped
<1>10. First(more, "COLON") = 0 <=> First(p, "COLON") = 0 /\ c # "COLON"
  BY <1>2, <1>6
<1>11. NameMove(p, c, more)
  BY <1>1, <1>3, <1>4, <1>5, <1>8, <1>9, <1>10 DEF NameMove
<1>12. NameOf(p) \in Seq(Byte)
  <2>1. CASE First(p, "COLON") = 0
    BY <1>4, <2>1
  <2>2. CASE First(p, "COLON") # 0
    <3>1. First(p, "COLON") - 1 \in 0 .. Len(p)
      BY <1>6, <1>7, <2>2
    <3>2. SubSeq(p, 1, First(p, "COLON") - 1) \in Seq(Byte)
      BY <3>1, SubSeqProperties
    <3> QED
      BY <2>2, <3>2 DEF NameOf, Before
  <2> QED
    BY <2>1, <2>2
<1> QED
  BY <1>5, <1>8, <1>11, <1>12 DEF more

-----------------------------------------------------------------------------
(* The automaton of the header *)

LEMMA LastAway ==
  ASSUME NEW S, NEW p \in Seq(S), NEW c \in S
  PROVE  WithoutCR(Append(p, c)) = p /\ (EndsCR(Append(p, c)) <=> c = "CR")
<1> DEFINE n == Len(p)
           more == Append(p, c)
<1>1. n \in Nat /\ n \in 0 .. Len(p) /\ Len(more) = n + 1 /\ more[n + 1] = c
  BY AppendProperties, LenProperties
<1>2. SubSeq(more, 1, n) = SubSeq(p, 1, n)
  BY <1>1, SameStart
<1>3. SubSeq(p, 1, n) = p
  BY SubSeqFull
<1>4. WithoutCR(more) = SubSeq(more, 1, n)
  <2> HIDE DEF n, more
  <2> QED
    BY <1>1 DEF WithoutCR
<1>5. EndsCR(more) <=> c = "CR"
  <2> HIDE DEF n, more
  <2> QED
    BY <1>1 DEF EndsCR
<1> QED
  BY <1>2, <1>3, <1>4, <1>5

\* Once a name is broken its line is.
LEMMA BrokenNext ==
  ASSUME NEW p \in Seq(Byte), NEW c \in Byte
  PROVE  Broken(Append(p, c)) <=> BrokenName(p)
<1> DEFINE more == Append(p, c)
<1>1. NameMove(p, c, more) /\ NameOf(p) \in Seq(Byte)
  BY NameMoves
<1>2. Len(p) \in Nat /\ Len(more) = Len(p) + 1
  OBVIOUS
<1>3. First(more, "CR") = IF First(p, "CR") # 0 THEN First(p, "CR")
                          ELSE IF c = "CR" THEN Len(p) + 1 ELSE 0
  BY FirstNext
<1>4. First(p, "CR") \in 0 .. Len(p) /\ First(NameOf(p), "CR") \in 0 .. Len(NameOf(p))
  BY <1>1, FirstIs
<1> HIDE DEF more
<1>5. Len(NameOf(p)) <= Len(p)
  <2>1. First(p, "COLON") \in 0 .. Len(p)
    BY FirstIs
  <2>2. CASE First(p, "COLON") = 0
    BY <1>2, <2>2 DEF NameOf, Before
  <2>3. CASE First(p, "COLON") # 0
    <3>1. First(p, "COLON") - 1 \in 0 .. Len(p)
      BY <1>2, <2>1, <2>3
    <3>2. Len(SubSeq(p, 1, First(p, "COLON") - 1)) = First(p, "COLON") - 1
      BY <3>1, SubSeqProperties
    <3> QED
      BY <1>2, <2>1, <2>3, <3>2 DEF NameOf, Before
  <2> QED
    BY <2>2, <2>3
<1>6. CASE First(p, "COLON") # 0
  <2>1. NameOf(more) = NameOf(p)
    BY <1>1, <1>6 DEF NameMove
  <2>2. Len(NameOf(p)) \in Nat
    BY <1>1
  <2> QED
    BY <1>2, <1>4, <1>5, <2>1, <2>2 DEF Broken, BrokenName, more
<1>7. CASE First(p, "COLON") = 0 /\ c = "COLON"
  <2>1. NameOf(more) = p /\ NameOf(p) = p
    BY <1>1, <1>7 DEF NameMove
  <2> QED
    BY <1>2, <1>4, <2>1 DEF Broken, BrokenName, more
<1>8. CASE First(p, "COLON") = 0 /\ c # "COLON"
  <2>1. NameOf(more) = more /\ NameOf(p) = p
    BY <1>1, <1>8 DEF NameMove
  <2> QED
    BY <1>2, <1>3, <1>4, <2>1 DEF Broken, BrokenName, more
<1> QED
  BY <1>6, <1>7, <1>8

\* A step t of the automaton, from q on the byte c.
HeaderMove(q, c, t) ==
  /\ q = "NEW_LINE" =>
       IF c = "COLON" THEN t.acts = "error"
       ELSE t = IF c = "CR" THEN To("CR_FIN", "wait") ELSE To("FIELD_NAME", "byte_fn")
  /\ q = "FIELD_NAME" =>
       t = IF c = "COLON" THEN To("COLON", "wait_colon")
           ELSE IF c = "CR" THEN To("CR_FIELD_NAME", "wait") ELSE To("FIELD_NAME", "byte_fn")
  /\ q \in {"COLON", "OWS"} =>
       t = IF c = "CR" THEN To("CR_FIELD_VALUE", "wait")
           ELSE IF c = "SP" THEN To("OWS", "wait") ELSE To("FIELD_VALUE", "byte_fv")
  /\ q = "FIELD_VALUE" =>
       t = IF c = "CR" THEN To("CR_FIELD_VALUE", "wait") ELSE To("FIELD_VALUE", "byte_fv")
  /\ q = "CR_FIELD_VALUE" =>
       t = IF c = "CR" THEN To("CR_FIELD_VALUE", "cr_fv")
           ELSE IF c = "LF" THEN To("NEW_LINE", "byte_nl") ELSE To("FIELD_VALUE", "cr_fv_byte_fv")
  /\ q = "CR_FIN" /\ c = "LF" => t = To("FIN", "fin")
  /\ q = "CR_FIELD_NAME" /\ c = "LF" => t.acts = "error"

LEMMA HeaderMoves ==
  ASSUME NEW q, NEW c
  PROVE  HeaderMove(q, c, parser_feed(HTTP_header[q], c))
<1> DEFINE t == parser_feed(HTTP_header[q], c)
<1>1. q = "NEW_LINE" =>
        IF c = "COLON" THEN t.acts = "error"
        ELSE t = IF c = "CR" THEN To("CR_FIN", "wait") ELSE To("FIELD_NAME", "byte_fn")
  BY DEF HTTP_header, parser_feed, To
<1>2. q = "FIELD_NAME" =>
        t = IF c = "COLON" THEN To("COLON", "wait_colon")
            ELSE IF c = "CR" THEN To("CR_FIELD_NAME", "wait") ELSE To("FIELD_NAME", "byte_fn")
  BY DEF HTTP_header, parser_feed
<1>3. q = "COLON" =>
        t = IF c = "CR" THEN To("CR_FIELD_VALUE", "wait")
            ELSE IF c = "SP" THEN To("OWS", "wait") ELSE To("FIELD_VALUE", "byte_fv")
  BY DEF HTTP_header, parser_feed
<1>4. q = "OWS" =>
        t = IF c = "CR" THEN To("CR_FIELD_VALUE", "wait")
            ELSE IF c = "SP" THEN To("OWS", "wait") ELSE To("FIELD_VALUE", "byte_fv")
  BY DEF HTTP_header, ST_OWS, parser_feed
<1>5. q = "FIELD_VALUE" =>
        t = IF c = "CR" THEN To("CR_FIELD_VALUE", "wait") ELSE To("FIELD_VALUE", "byte_fv")
  BY DEF HTTP_header, parser_feed
<1>6. q = "CR_FIELD_VALUE" =>
        t = IF c = "CR" THEN To("CR_FIELD_VALUE", "cr_fv")
            ELSE IF c = "LF" THEN To("NEW_LINE", "byte_nl") ELSE To("FIELD_VALUE", "cr_fv_byte_fv")
  BY DEF HTTP_header, ST_CR_FIELD_VALUE, parser_feed
<1>7. q = "CR_FIN" /\ c = "LF" => t = To("FIN", "fin")
  BY DEF HTTP_header, parser_feed
<1>8. q = "CR_FIELD_NAME" /\ c = "LF" => t.acts = "error"
  BY DEF HTTP_header, parser_feed, To
<1> HIDE DEF t
<1>9. HeaderMove(q, c, t)
  BY <1>1, <1>2, <1>3, <1>4, <1>5, <1>6, <1>7, <1>8 DEF HeaderMove
<1> QED
  BY <1>9 DEF t

Added(a, c) == IF a = "byte_fv" THEN <<c>> ELSE IF a = "cr_fv" THEN <<"CR">> ELSE <<"CR", c>>

ValueActs == {"byte_fv", "cr_fv", "cr_fv_byte_fv"}

\* What the byte c of the line p, from now on more, is for the handlers.
LineStepped(q, p, c, t, more) ==
  /\ LineAt(t.dest, more)
  /\ t.acts \in {"byte_fn", "wait", "wait_colon"} \cup ValueActs
  /\ t.acts = "byte_fn" =>
       /\ q \notin ValueStates /\ t.dest \notin ValueStates
       /\ NameSoFar(t.dest, more) = Append(NameSoFar(q, p), c)
  /\ t.acts # "byte_fn" => NameSoFar(t.dest, more) = NameSoFar(q, p)
  /\ t.acts = "wait" =>
       /\ q \in ValueStates <=> t.dest \in ValueStates
       /\ ValueSoFar(t.dest, more) = ValueSoFar(q, p)
  /\ t.acts = "wait_colon" =>
       q \notin ValueStates /\ t.dest \in ValueStates /\ ValueSoFar(t.dest, more) = <<>>
  /\ t.acts \in ValueActs =>
       /\ q \in ValueStates /\ t.dest \in ValueStates
       /\ ValueSoFar(t.dest, more) = ValueSoFar(q, p) \o Added(t.acts, c)
  /\ q \in ValueStates => NameOf(more) = NameOf(p)

\* In the value a carriage return that is the last byte so far waits for the next.
LEMMA ValueEnds ==
  ASSUME "CR" \in Byte, NEW p \in Seq(Byte), EndsCR(p), First(p, "COLON") # 0
  PROVE  /\ WithoutCR(ValueOf(p)) \in Seq(Byte) /\ ValueOf(p) # <<>>
         /\ ValueOf(p) = Append(WithoutCR(ValueOf(p)), "CR")
         /\ ValueOf(p) = WithoutCR(ValueOf(p)) \o <<"CR">>
         /\ WithoutCR(ValueOf(p)) = ValueOf(WithoutCR(p))
         /\ NameOf(p) = NameOf(WithoutCR(p)) /\ First(WithoutCR(p), "COLON") # 0
<1> DEFINE f == WithoutCR(p)
<1>1. f \in Seq(Byte) /\ p = Append(f, "CR")
  <2>1. p[Len(p)] = "CR" /\ Len(p) > 0
    BY DEF EndsCR
  <2>2. p # <<>>
    BY <2>1
  <2> QED
    BY <2>1, <2>2, LastAdded DEF WithoutCR
<1> HIDE DEF f
<1>2. NameMove(f, "CR", p) /\ ValueOf(f) \in Seq(Byte)
  BY <1>1, NameMoves
<1>3. First(f, "COLON") # 0
  BY <1>2 DEF NameMove
<1>4. ValueOf(p) = Append(ValueOf(f), "CR") /\ NameOf(p) = NameOf(f)
  BY <1>2, <1>3 DEF NameMove
<1>5. WithoutCR(Append(ValueOf(f), "CR")) = ValueOf(f)
  BY <1>2, LastAway
<1>6. Append(ValueOf(f), "CR") # <<>> /\ Append(ValueOf(f), "CR") = ValueOf(f) \o <<"CR">>
  BY <1>2, AppendIsConcat
<1> QED
  BY <1>2, <1>3, <1>4, <1>5, <1>6 DEF f

LEMMA TwoAdded ==
  ASSUME "CR" \in Byte, NEW v \in Seq(Byte), NEW c \in Byte
  PROVE  Append(Append(v, "CR"), c) = v \o <<"CR", c>>
<1>1. /\ v \o <<"CR", c>> \in Seq(Byte) /\ Append(Append(v, "CR"), c) \in Seq(Byte)
      /\ Len(v \o <<"CR", c>>) = Len(v) + 2
      /\ Len(Append(Append(v, "CR"), c)) = Len(v) + 2
      /\ \A i \in 1 .. Len(v) + 2 :
           (v \o <<"CR", c>>)[i] = Append(Append(v, "CR"), c)[i]
  OBVIOUS
<1> QED
  BY <1>1

LEMMA LineStep ==
  ASSUME ParserAssumption, NEW q, NEW p \in Seq(Byte), NEW c \in Byte, LineAt(q, p),
         ~Broken(Append(p, c)), ~(EndsCR(p) /\ c = "LF"),
         parser_feed(HTTP_header[q], c).acts # "error"
  PROVE  LineStepped(q, p, c, parser_feed(HTTP_header[q], c), Append(p, c))
<1> DEFINE t == parser_feed(HTTP_header[q], c)
           more == Append(p, c)
<1>1. HeaderMove(q, c, t) /\ t.acts # "error"
  BY HeaderMoves
<1>2. /\ NameMove(p, c, more) /\ ValueOf(p) \in Seq(Byte) /\ NameOf(p) \in Seq(Byte)
      /\ WithoutCR(more) = p /\ (EndsCR(more) <=> c = "CR")
      /\ First(NameOf(p), "CR") = 0
  BY NameMoves, LastAway, BrokenNext DEF BrokenName
<1>3. /\ more # <<>> /\ Len(more) = Len(p) + 1 /\ Len(p) \in Nat /\ "CR" \in Byte
      /\ more = Append(p, c)
  BY AppendProperties DEF ParserAssumption, Marks
<1>4. First(more, "CR") = IF First(p, "CR") # 0 THEN First(p, "CR")
                          ELSE IF c = "CR" THEN Len(p) + 1 ELSE 0
  BY FirstNext
<1>5. \A d, a : To(d, a).dest = d /\ To(d, a).acts = a
  BY DEF To
<1> HIDE DEF t, more
<1>6. q \notin {"CR_FIN", "CR_FIELD_NAME"}
  <2> SUFFICES ASSUME q \in {"CR_FIN", "CR_FIELD_NAME"} PROVE FALSE
    OBVIOUS
  <2>1. EndsCR(p) /\ First(p, "COLON") = 0
    BY DEF LineAt, CrStates, ValueStates
  <2>2. NameOf(p) = p
    BY <1>2, <2>1 DEF NameMove
  <2>3. First(p, "CR") # 0
    BY <1>3, <2>1, FirstIs DEF EndsCR
  <2> QED
    BY <1>2, <2>2, <2>3
<1>7. CASE q \in {"NEW_LINE", "FIELD_NAME"}
  <2>1. /\ First(p, "COLON") = 0 /\ NameOf(p) = p /\ ~EndsCR(p)
        /\ (q = "NEW_LINE" <=> p = <<>>)
        /\ NameSoFar(q, p) = p /\ ValueSoFar(q, p) = <<>> /\ q \notin ValueStates
    BY <1>2, <1>7 DEF LineAt, NameMove, NameSoFar, ValueSoFar, ValueStates, CrStates
  <2>2. CASE c = "COLON"
    <3>1. q = "FIELD_NAME" /\ t = To("COLON", "wait_colon") /\ p # <<>>
      BY <1>1, <1>7, <2>1, <2>2 DEF HeaderMove
    <3>2. First(more, "COLON") # 0 /\ NameOf(more) = p /\ ValueOf(more) = <<>> /\ ~EndsCR(more)
      BY <1>2, <2>1, <2>2 DEF NameMove
    <3>3. LineAt("COLON", more)
      BY <1>3, <3>1, <3>2 DEF LineAt, InLineStates, ValueStates, CrStates
    <3>4. NameSoFar("COLON", more) = p /\ ValueSoFar("COLON", more) = <<>>
      BY <3>2 DEF NameSoFar, ValueSoFar, ValueStates
    <3> QED
      BY <1>5, <2>1, <3>1, <3>3, <3>4 DEF LineStepped, ValueStates, ValueActs, t, more
  <2>3. CASE c = "CR"
    <3>1. First(more, "COLON") = 0 /\ EndsCR(more)
      BY <1>2, <2>1, <2>3 DEF NameMove
    <3>2. CASE q = "NEW_LINE"
      <4>1. t = To("CR_FIN", "wait") /\ more = <<"CR">>
        BY <1>1, <1>3, <2>1, <2>3, <3>2 DEF HeaderMove
      <4>2. LineAt("CR_FIN", more)
        BY <1>3, <3>1, <4>1 DEF LineAt, InLineStates, ValueStates, CrStates
      <4>3. NameSoFar("CR_FIN", more) = p /\ ValueSoFar("CR_FIN", more) = <<>>
        BY <1>2 DEF NameSoFar, ValueSoFar, ValueStates, CrStates
      <4> QED
        BY <1>5, <2>1, <4>1, <4>2, <4>3 DEF LineStepped, ValueStates, ValueActs, t, more
    <3>3. CASE q = "FIELD_NAME"
      <4>1. t = To("CR_FIELD_NAME", "wait") /\ p # <<>>
        BY <1>1, <2>1, <2>3, <3>3 DEF HeaderMove
      <4>2. Len(more) > 1
        <5>1. Len(p) # 0
          BY <4>1
        <5> QED
          BY <1>3, <5>1
      <4>3. LineAt("CR_FIELD_NAME", more)
        BY <1>3, <3>1, <4>2 DEF LineAt, InLineStates, ValueStates, CrStates
      <4>4. NameSoFar("CR_FIELD_NAME", more) = p /\ ValueSoFar("CR_FIELD_NAME", more) = <<>>
        BY <1>2 DEF NameSoFar, ValueSoFar, ValueStates, CrStates
      <4> QED
        BY <1>5, <2>1, <4>1, <4>3, <4>4 DEF LineStepped, ValueStates, ValueActs, t, more
    <3> QED
      BY <1>7, <3>2, <3>3
  <2>4. CASE c \notin {"COLON", "CR"}
    <3>1. t = To("FIELD_NAME", "byte_fn")
      BY <1>1, <1>7, <2>4 DEF HeaderMove
    <3>2. First(more, "COLON") = 0 /\ ~EndsCR(more) /\ First(more, "CR") = 0
      BY <1>2, <1>4, <2>1, <2>4 DEF NameMove
    <3>3. LineAt("FIELD_NAME", more)
      BY <1>3, <3>2 DEF LineAt, InLineStates, ValueStates, CrStates
    <3>4. NameSoFar("FIELD_NAME", more) = more
      BY DEF NameSoFar, ValueStates, CrStates
    <3> QED
      BY <1>3, <1>5, <2>1, <3>1, <3>3, <3>4 DEF LineStepped, ValueStates, ValueActs, t, more
  <2> QED
    BY <2>2, <2>3, <2>4
<1>8. CASE q \in ValueStates
  <2>1. /\ First(p, "COLON") # 0 /\ NameOf(p) # <<>> /\ (EndsCR(p) <=> q = "CR_FIELD_VALUE")
        /\ NameSoFar(q, p) = NameOf(p) /\ First(more, "COLON") # 0 /\ NameOf(more) = NameOf(p)
        /\ ValueOf(more) = IF ValueOf(p) = <<>> /\ c = "SP" THEN <<>> ELSE Append(ValueOf(p), c)
        /\ q \in {"COLON", "OWS"} => ValueOf(p) = <<>>
        /\ q = "FIELD_VALUE" => ValueOf(p) # <<>>
    BY <1>2, <1>8 DEF LineAt, NameMove, NameSoFar, ValueStates, CrStates
  <2>2. Append(ValueOf(p), c) # <<>> /\ WithoutCR(Append(ValueOf(p), c)) = ValueOf(p)
          /\ Append(ValueOf(p), c) = ValueOf(p) \o <<c>>
    BY <1>2, LastAway, AppendIsConcat
  <2>3. \A s \in ValueStates : NameSoFar(s, more) = NameSoFar(q, p)
    BY <2>1 DEF NameSoFar
  <2>4. \A s \in ValueStates :
          ((s = "CR_FIELD_VALUE" <=> c = "CR") /\ (s \in {"COLON", "OWS"} => ValueOf(more) = <<>>)
             /\ (s = "FIELD_VALUE" => ValueOf(more) # <<>>)) => LineAt(s, more)
    BY <1>2, <1>3, <2>1 DEF LineAt, InLineStates, ValueStates, CrStates
  <2>5. CASE q # "CR_FIELD_VALUE" /\ c = "CR"
    <3>1. t = To("CR_FIELD_VALUE", "wait")
      BY <1>1, <1>8, <2>5 DEF HeaderMove, ValueStates
    <3>2. ValueSoFar(q, p) = ValueOf(p) /\ ValueSoFar("CR_FIELD_VALUE", more) = ValueOf(p)
      BY <1>8, <2>1, <2>2, <2>5 DEF ValueSoFar, ValueStates
    <3>3. LineAt("CR_FIELD_VALUE", more)
      BY <2>4, <2>5 DEF ValueStates
    <3>4. NameSoFar("CR_FIELD_VALUE", more) = NameSoFar(q, p)
      BY <2>3 DEF ValueStates
    <3> QED
      BY <1>5, <1>8, <2>1, <3>1, <3>2, <3>3, <3>4 DEF LineStepped, ValueStates, ValueActs, t, more
  <2>6. CASE q \in {"COLON", "OWS"} /\ c = "SP"
    <3>1. t = To("OWS", "wait")
      BY <1>1, <2>6 DEF HeaderMove
    <3>2. ValueOf(more) = <<>> /\ ValueSoFar(q, p) = <<>> /\ ValueSoFar("OWS", more) = <<>>
      BY <2>1, <2>6 DEF ValueSoFar, ValueStates
    <3>3. LineAt("OWS", more)
      BY <2>4, <2>6, <3>2 DEF ValueStates
    <3>4. NameSoFar("OWS", more) = NameSoFar(q, p)
      BY <2>3 DEF ValueStates
    <3> QED
      BY <1>5, <1>8, <2>1, <3>1, <3>2, <3>3, <3>4 DEF LineStepped, ValueStates, ValueActs, t, more
  <2>7. CASE q # "CR_FIELD_VALUE" /\ c # "CR" /\ ~(q \in {"COLON", "OWS"} /\ c = "SP")
    <3>1. t = To("FIELD_VALUE", "byte_fv")
      BY <1>1, <1>8, <2>7 DEF HeaderMove, ValueStates
    <3>2. ValueOf(more) = ValueOf(p) \o <<c>> /\ ValueOf(more) # <<>>
      BY <1>8, <2>1, <2>2, <2>7 DEF ValueStates
    <3>3. ValueSoFar(q, p) = ValueOf(p) /\ ValueSoFar("FIELD_VALUE", more) = ValueOf(more)
      BY <1>8, <2>7 DEF ValueSoFar, ValueStates
    <3>4. LineAt("FIELD_VALUE", more)
      BY <2>4, <2>7, <3>2 DEF ValueStates
    <3>5. NameSoFar("FIELD_VALUE", more) = NameSoFar(q, p)
      BY <2>3 DEF ValueStates
    <3>6. t.dest = "FIELD_VALUE" /\ t.acts = "byte_fv" /\ Added(t.acts, c) = <<c>>
      BY <1>5, <3>1 DEF Added
    <3> QED
      BY <1>8, <2>1, <3>2, <3>3, <3>4, <3>5, <3>6
      DEF LineStepped, ValueStates, ValueActs, t, more
  <2>8. CASE q = "CR_FIELD_VALUE"
    <3> DEFINE v == WithoutCR(ValueOf(p))
    <3>1. /\ v \in Seq(Byte) /\ ValueOf(p) = Append(v, "CR") /\ ValueOf(p) = v \o <<"CR">>
          /\ ValueOf(p) # <<>>
      BY <1>2, <1>3, <2>1, <2>8, ValueEnds
    <3>2. ValueSoFar(q, p) = v
      BY <2>8 DEF ValueSoFar, ValueStates
    <3> HIDE DEF v
    <3>3. ValueOf(more) = Append(ValueOf(p), c) /\ c # "LF"
      BY <2>1, <2>8, <3>1
    <3>4. CASE c = "CR"
      <4>1. t = To("CR_FIELD_VALUE", "cr_fv")
        BY <1>1, <2>8, <3>4 DEF HeaderMove
      <4>2. ValueSoFar("CR_FIELD_VALUE", more) = v \o <<"CR">>
        BY <2>2, <3>1, <3>3 DEF ValueSoFar, ValueStates
      <4>3. LineAt("CR_FIELD_VALUE", more)
        BY <2>4, <3>4 DEF ValueStates
      <4>4. NameSoFar("CR_FIELD_VALUE", more) = NameSoFar(q, p)
        BY <2>3 DEF ValueStates
      <4> QED
        BY <1>5, <1>8, <2>1, <3>2, <4>1, <4>2, <4>3, <4>4
        DEF LineStepped, ValueStates, ValueActs, Added, t, more
    <3>5. CASE c # "CR"
      <4>1. t = To("FIELD_VALUE", "cr_fv_byte_fv")
        BY <1>1, <2>8, <3>3, <3>5 DEF HeaderMove
      <4>2. ValueOf(more) # <<>> /\ ValueSoFar("FIELD_VALUE", more) = ValueOf(more)
        BY <2>2, <3>3 DEF ValueSoFar, ValueStates
      <4>3. ValueOf(more) = v \o <<"CR", c>>
        <5>1. Append(Append(v, "CR"), c) = v \o <<"CR", c>>
          BY <1>3, <3>1, TwoAdded
        <5> QED
          BY <3>1, <3>3, <5>1
      <4>4. LineAt("FIELD_VALUE", more)
        BY <2>4, <2>8, <3>5, <4>2 DEF ValueStates
      <4>5. NameSoFar("FIELD_VALUE", more) = NameSoFar(q, p)
        BY <2>3 DEF ValueStates
      <4>6. t.dest = "FIELD_VALUE" /\ t.acts = "cr_fv_byte_fv" /\ Added(t.acts, c) = <<"CR", c>>
        BY <1>5, <4>1 DEF Added
      <4> QED
        BY <1>8, <2>1, <3>2, <4>2, <4>3, <4>4, <4>5, <4>6
        DEF LineStepped, ValueStates, ValueActs, t, more
    <3> QED
      BY <3>4, <3>5
  <2> QED
    BY <2>5, <2>6, <2>7, <2>8, <1>8 DEF ValueStates
<1> QED
  BY <1>6, <1>7, <1>8 DEF LineAt, InLineStates, CrStates, ValueStates

-----------------------------------------------------------------------------
(* Matchers of the names of headers *)

LEMMA StartNext ==
  ASSUME NEW name \in Seq(Byte), NEW text \in Seq(Byte), NEW c \in Byte
  PROVE  StartOf(Append(text, c), name) <=>
           /\ StartOf(text, name)
           /\ Len(text) < Len(name) /\ lower(c) = name[Len(text) + 1]
<1> DEFINE more == Append(text, c)
           n == Len(text)
<1>1. /\ n \in Nat /\ Len(name) \in Nat /\ Len(more) = n + 1 /\ more[n + 1] = c
      /\ \A i \in 1 .. n : more[i] = text[i]
  BY AppendProperties, LenProperties
<1>2. 1 .. n + 1 = 1 .. n \cup {n + 1}
  BY <1>1
<1> HIDE DEF more, n
<1>3. StartOf(more, name) <=> n + 1 <= Len(name) /\ \A i \in 1 .. n + 1 : lower(more[i]) = name[i]
  BY <1>1 DEF StartOf
<1>4. (\A i \in 1 .. n + 1 : lower(more[i]) = name[i]) <=>
        (\A i \in 1 .. n : lower(text[i]) = name[i]) /\ lower(c) = name[n + 1]
  BY <1>1, <1>2
<1>5. StartOf(text, name) <=> n <= Len(name) /\ \A i \in 1 .. n : lower(text[i]) = name[i]
  BY DEF StartOf, n
<1>6. n + 1 <= Len(name) <=> n <= Len(name) /\ n < Len(name)
  BY <1>1
<1> QED
  BY <1>3, <1>4, <1>5, <1>6 DEF more, n

LEMMA MatchNext ==
  ASSUME NEW name \in Seq(Byte), NEW text \in Seq(Byte), NEW c \in Byte,
         NEW m \in Matcher, MatchParsed(m, name, text)
  PROVE  MatchParsed(strcmpi(name, m, c), name, Append(text, c))
<1> DEFINE more == Append(text, c)
           n == Len(text)
           next == strcmpi(name, m, c)
<1>1. n \in Nat /\ Len(name) \in Nat /\ Len(more) = n + 1 /\ more # <<>> /\ m.at \in Nat
  BY AppendProperties, LenProperties DEF Matcher
<1>2. StartOf(more, name) <=> StartOf(text, name) /\ n < Len(name) /\ lower(c) = name[n + 1]
  BY StartNext
<1>3. /\ m.at < Len(name) /\ lower(c) = name[m.at + 1] =>
           next.at = m.at + 1 /\ next.event = IF m.at + 1 = Len(name) THEN "EQ" ELSE "MAYEQ"
      /\ ~(m.at < Len(name) /\ lower(c) = name[m.at + 1]) =>
           next.at = Len(name) + 1 /\ next.event = "NEQ"
  BY DEF strcmpi, Advance, Failed
<1>4. /\ StartOf(text, name) => m.at = n
      /\ ~StartOf(text, name) => m.at > Len(name)
  BY DEF MatchParsed
<1> HIDE DEF more, n, next
<1>5. CASE StartOf(more, name)
  <2>1. next.at = n + 1 /\ next.event = IF n + 1 = Len(name) THEN "EQ" ELSE "MAYEQ"
    BY <1>2, <1>3, <1>4, <1>5
  <2> QED
    BY <1>1, <1>5, <2>1 DEF MatchParsed, more, next
<1>6. CASE ~StartOf(more, name)
  <2>1. next.at = Len(name) + 1 /\ next.event = "NEQ"
    BY <1>1, <1>2, <1>3, <1>4, <1>6
  <2>2. next.at > Len(name)
    BY <1>1, <2>1
  <2> QED
    BY <1>6, <2>1, <2>2 DEF MatchParsed, more, next
<1> QED
  BY <1>5, <1>6

\* What a matcher says of the name of a line.
LEMMA MatchIs ==
  ASSUME ParserAssumption, NEW h \in Names, NEW line, NameOf(line) \in Seq(Byte),
         NameOf(line) # <<>>, NEW m \in Matcher, MatchParsed(m, HeaderName[h], NameOf(line))
  PROVE  /\ m.event = "EQ" <=> Named(line, h)
         /\ Named(line, h) => Len(NameOf(line)) = Len(HeaderName[h])
<1> DEFINE text == NameOf(line)
           name == HeaderName[h]
           low == [i \in DOMAIN text |-> lower(text[i])]
<1>1. /\ name \in Seq(Byte) /\ Len(name) \in Nat /\ DOMAIN name = 1 .. Len(name)
      /\ Len(text) \in Nat \ {0} /\ DOMAIN text = 1 .. Len(text) /\ text # <<>>
  BY LenProperties, EmptySeq DEF ParserAssumption
<1>2. Named(line, h) <=> low = name
  BY DEF Named
<1> HIDE DEF text, name
<1>3. low = name => Len(text) = Len(name) /\ \A i \in 1 .. Len(text) : lower(text[i]) = name[i]
  <2> SUFFICES ASSUME low = name
               PROVE  Len(text) = Len(name) /\ \A i \in 1 .. Len(text) : lower(text[i]) = name[i]
    OBVIOUS
  <2>1. DOMAIN low = 1 .. Len(text) /\ \A i \in 1 .. Len(text) : low[i] = lower(text[i])
    BY <1>1
  <2> HIDE DEF low
  <2>2. 1 .. Len(text) = 1 .. Len(name)
    BY <1>1, <2>1
  <2>3. Len(text) = Len(name)
    <3> DEFINE a == Len(text)
               b == Len(name)
    <3>1. a \in Nat \ {0} /\ b \in Nat /\ 1 .. a = 1 .. b
      BY <1>1, <2>2
    <3> HIDE DEF a, b
    <3>2. a \in 1 .. b /\ 1 \in 1 .. b
      BY <3>1
    <3>3. b \in 1 .. a
      BY <3>1, <3>2
    <3>4. a = b
      BY <3>1, <3>2, <3>3
    <3> QED
      BY <3>4 DEF a, b
  <2> QED
    BY <2>1, <2>3
<1>4. (Len(text) = Len(name) /\ \A i \in 1 .. Len(text) : lower(text[i]) = name[i]) => low = name
  <2> SUFFICES ASSUME Len(text) = Len(name), \A i \in 1 .. Len(text) : lower(text[i]) = name[i]
               PROVE  low = name
    OBVIOUS
  <2>1. low = [i \in 1 .. Len(name) |-> lower(text[i])]
    BY <1>1
  <2>2. name = [i \in 1 .. Len(name) |-> name[i]]
    BY <1>1
  <2>3. \A i \in 1 .. Len(name) : lower(text[i]) = name[i]
    OBVIOUS
  <2> HIDE DEF low
  <2> QED
    BY <2>1, <2>2, <2>3
<1> HIDE DEF low
<1>5. low = name <=> Len(text) = Len(name) /\ StartOf(text, name)
  <2>1. StartOf(text, name) <=>
          Len(text) <= Len(name) /\ \A i \in 1 .. Len(text) : lower(text[i]) = name[i]
    BY DEF StartOf
  <2>2. Len(text) = Len(name) => Len(text) <= Len(name)
    BY <1>1
  <2> DEFINE same == \A i \in 1 .. Len(text) : lower(text[i]) = name[i]
  <2>3. /\ StartOf(text, name) <=> Len(text) <= Len(name) /\ same
        /\ low = name => Len(text) = Len(name) /\ same
        /\ Len(text) = Len(name) /\ same => low = name
    BY <1>3, <1>4, <2>1
  <2> HIDE DEF same
  <2> QED
    BY <2>2, <2>3
<1>6. MatchParsed(m, name, text)
  BY DEF name, text
<1>7. m.event = "EQ" <=> Len(text) = Len(name) /\ StartOf(text, name)
  BY <1>1, <1>6 DEF MatchParsed
<1> QED
  BY <1>2, <1>5, <1>7 DEF text, name, low

\* A matcher put back at its start.
LEMMA MatchStart ==
  ASSUME NEW m \in Matcher, NEW name \in Seq(Byte)
  PROVE  MatchParsed(parser_reset(m), name, <<>>)
<1>1. StartOf(<<>>, name)
  BY LenProperties DEF StartOf
<1>2. parser_reset(m).at = 0
  BY DEF parser_reset, Matcher
<1> QED
  BY <1>1, <1>2 DEF MatchParsed

-----------------------------------------------------------------------------
(* One line more *)

LEMMA NamedNext ==
  ASSUME NEW lines \in Seq(Seq(Byte)), lines # <<>>, NEW line \in Seq(Byte), NEW h
  PROVE  LET n == Len(lines) IN
         /\ n \in Nat \ {0} /\ NamedIn(lines, h) \subseteq 2 .. n
         /\ IsFiniteSet(NamedIn(lines, h))
         /\ Append(lines, line)[n + 1] = line /\ Len(Append(lines, line)) = n + 1
         /\ \A k \in 1 .. n : Append(lines, line)[k] = lines[k]
         /\ NamedIn(Append(lines, line), h) =
              NamedIn(lines, h) \cup (IF line # <<>> /\ Named(line, h) THEN {n + 1} ELSE {})
<1> DEFINE n == Len(lines)
           more == Append(lines, line)
<1>1. /\ n \in Nat \ {0} /\ Len(more) = n + 1 /\ more[n + 1] = line
      /\ \A k \in 1 .. n : more[k] = lines[k]
  BY AppendProperties, EmptySeq
<1> HIDE DEF n, more
<1>2. NamedIn(lines, h) \subseteq 2 .. n
  BY DEF NamedIn, n
<1>3. IsFiniteSet(NamedIn(lines, h))
  <2>1. IsFiniteSet(2 .. n)
    BY <1>1, FS_Interval
  <2> QED
    BY <1>2, <2>1, FS_Subset
<1>4. NamedIn(more, h) = NamedIn(lines, h) \cup (IF line # <<>> /\ Named(line, h) THEN {n + 1} ELSE {})
  <2>1. NamedIn(more, h) = {k \in 2 .. n + 1 : more[k] # <<>> /\ Named(more[k], h)}
    BY <1>1 DEF NamedIn
  <2>2. NamedIn(lines, h) = {k \in 2 .. n : lines[k] # <<>> /\ Named(lines[k], h)}
    BY DEF NamedIn, n
  <2>3. 2 .. n + 1 = 2 .. n \cup {n + 1} /\ 2 .. n \subseteq 1 .. n
    BY <1>1
  <2> QED
    BY <1>1, <2>1, <2>2, <2>3
<1> QED
  BY <1>1, <1>2, <1>3, <1>4 DEF n, more

\* What is forwarded of the line that comes after lines.
NewForward(lines, uri, line) ==
  IF line = <<>> THEN <<"CR", "LF">>
  ELSE IF Named(line, "connection") /\ NamedIn(lines, "connection") = {} THEN <<>>
  ELSE NameOf(line) \o <<"COLON">>
         \o (IF uri # <<>> /\ Named(line, "host") /\ ValueOf(line) # <<>> THEN uri ELSE ValueOf(line))
         \o <<"CR", "LF">>

LEMMA ForwardNext ==
  ASSUME NEW lines \in Seq(Seq(Byte)), lines # <<>>, NEW line \in Seq(Byte), NEW uri
  PROVE  Forward(Append(lines, line), uri) = Forward(lines, uri) \o NewForward(lines, uri, line)
<1> DEFINE n == Len(lines)
           more == Append(lines, line)
           was == [k \in 1 .. n |-> ForwardIn(lines, uri, k)]
           is == [k \in 1 .. n + 1 |-> ForwardIn(more, uri, k)]
<1>1. /\ n \in Nat \ {0} /\ more[n + 1] = line /\ Len(more) = n + 1
      /\ \A k \in 1 .. n : more[k] = lines[k]
      /\ \A h : /\ NamedIn(lines, h) \subseteq 2 .. n
                /\ NamedIn(more, h) = NamedIn(lines, h) \cup
                     (IF line # <<>> /\ Named(line, h) THEN {n + 1} ELSE {})
  BY NamedNext
<1> HIDE DEF n, more
<1>2. ASSUME NEW k \in 1 .. n PROVE ForwardIn(more, uri, k) = ForwardIn(lines, uri, k)
  <2>1. more[k] = lines[k] /\ k # n + 1
    BY <1>1
  <2>2. \A h : k \in NamedIn(more, h) <=> k \in NamedIn(lines, h)
    BY <1>1, <2>1
  <2>3. (\A j \in NamedIn(more, "connection") : k <= j) <=>
          (\A j \in NamedIn(lines, "connection") : k <= j)
    <3>1. k <= n + 1
      BY <1>1
    <3> QED
      BY <1>1, <3>1
  <2> QED
    BY <2>1, <2>2, <2>3 DEF ForwardIn
<1>3. ForwardIn(more, uri, n + 1) = NewForward(lines, uri, line)
  <2>1. n + 1 # 1 /\ \A h : line # <<>> => (n + 1 \in NamedIn(more, h) <=> Named(line, h))
    BY <1>1
  <2>2. line # <<>> /\ Named(line, "connection") =>
          ((\A j \in NamedIn(more, "connection") : n + 1 <= j) <=> NamedIn(lines, "connection") = {})
    <3> SUFFICES ASSUME line # <<>>, Named(line, "connection")
                 PROVE  (\A j \in NamedIn(more, "connection") : n + 1 <= j) <=>
                          NamedIn(lines, "connection") = {}
      OBVIOUS
    <3>1. NamedIn(more, "connection") = NamedIn(lines, "connection") \cup {n + 1}
      BY <1>1
    <3>2. \A j \in NamedIn(lines, "connection") : j \in 2 .. n
      BY <1>1
    <3>3. \A j \in 2 .. n : ~(n + 1 <= j)
      BY <1>1
    <3>4. n + 1 <= n + 1
      BY <1>1
    <3> QED
      BY <3>1, <3>2, <3>3, <3>4
  <2>3. line = <<>> => line \o <<"CR", "LF">> = <<"CR", "LF">>
    OBVIOUS
  <2>4. CASE line = <<>>
    BY <1>1, <2>3, <2>4 DEF ForwardIn, NewForward
  <2>5. CASE line # <<>>
    <3>1. n + 1 \in NamedIn(more, "connection") /\ (\A j \in NamedIn(more, "connection") : n + 1 <= j)
            <=> Named(line, "connection") /\ NamedIn(lines, "connection") = {}
      BY <2>1, <2>2, <2>5
    <3>2. n + 1 \in NamedIn(more, "host") <=> Named(line, "host")
      BY <2>1, <2>5
    <3> QED
      BY <1>1, <2>1, <2>5, <3>1, <3>2 DEF ForwardIn, NewForward
  <2> QED
    BY <2>4, <2>5
<1>4. Forward(lines, uri) = FlattenSeq(was) /\ Forward(more, uri) = FlattenSeq(is)
  BY <1>1 DEF Forward, n
<1>5. /\ Len(was) = n /\ Len(is) = n + 1 /\ is[n + 1] = ForwardIn(more, uri, n + 1)
      /\ \A k \in 1 .. n : was[k] = is[k]
  <2>1. \A k \in 1 .. n : was[k] = ForwardIn(lines, uri, k) /\ is[k] = ForwardIn(more, uri, k)
    BY <1>1
  <2>2. is[n + 1] = ForwardIn(more, uri, n + 1)
    BY <1>1
  <2>3. Len(was) = n /\ Len(is) = n + 1
    BY <1>1
  <2> HIDE DEF was, is
  <2> QED
    BY <1>2, <2>1, <2>2, <2>3
<1> HIDE DEF was, is
<1>6. FlattenSeq(is) = FlattenSeq(was) \o is[n + 1]
  <2>1. FlattenSeq(is) = IF n = 0 THEN is[1] ELSE FlattenSeq(was) \o is[n + 1]
    BY <1>1, <1>5, FlattenNext
  <2> QED
    BY <1>1, <2>1
<1> QED
  BY <1>3, <1>4, <1>5, <1>6 DEF more

-----------------------------------------------------------------------------
(* A byte of the header: what the handlers make of it *)

LEMMA HeaderBecomes ==
  ASSUME NEW x \in Ctx, NEW q \in DOMAIN HTTP_header
  PROVE  LET y == [x EXCEPT !.HTTP_header = q]
         IN  y \in Ctx /\ y.HTTP_header = q /\ Only({"HTTP_header"}, x, y)
  BY CtxFields DEF Ctx, Only, Fields

LEMMA HeaderEffect ==
  ASSUME ParserAssumption, NEW x \in Ctx, NEW c \in Byte
  PROVE  LET t == parser_feed(HTTP_header[x.HTTP_header], c)
             y == [x EXCEPT !.HTTP_header = t.dest]
             z == http_header(x, c)
         IN  /\ y \in Ctx /\ y.HTTP_header = t.dest /\ Only({"HTTP_header"}, x, y)
             /\ t.acts = "error" => z.error
             /\ t.acts = "byte_fn" => z = NameByte(y, c)
             /\ t.acts = "wait" => z = y
             /\ t.acts = "wait_colon" => z = Colon(y)
             /\ t.acts \in ValueActs => z = ValueBytes(y, Added(t.acts, c))
             /\ t.acts = "byte_nl" => z = NewLine(y)
             /\ t.acts = "fin" => z = Written(y, <<"CR", "LF">>)
<1> DEFINE t == parser_feed(HTTP_header[x.HTTP_header], c)
           y == [x EXCEPT !.HTTP_header = t.dest]
           z == http_header(x, c)
<1>1. t.dest \in DOMAIN HTTP_header
  BY HeaderStates DEF Ctx
<1>2. z = CASE t.acts = "error"         -> Error(y)
            [] t.acts = "byte_fn"       -> NameByte(y, c)
            [] t.acts = "cr_fn"         -> NameByte(y, "CR")
            [] t.acts = "byte_fv"       -> ValueBytes(y, <<c>>)
            [] t.acts = "cr_fv"         -> ValueBytes(y, <<"CR">>)
            [] t.acts = "cr_fn_byte_fv" -> ValueBytes(NameByte(y, "CR"), <<c>>)
            [] t.acts = "cr_fv_byte_fv" -> ValueBytes(y, <<"CR", c>>)
            [] t.acts = "wait_colon"    -> Colon(y)
            [] t.acts = "byte_nl"       -> NewLine(y)
            [] t.acts = "fin"           -> Written(y, <<"CR", "LF">>)
            [] t.acts = "wait"          -> y
  BY DEF http_header
<1>3. y \in Ctx /\ y.HTTP_header = t.dest /\ Only({"HTTP_header"}, x, y)
  BY <1>1, HeaderBecomes
<1> HIDE DEF t, y, z
<1>4. Error(y).error
  BY <1>3, KeepsError
<1> QED
  BY <1>2, <1>3, <1>4 DEF ValueActs, Added, t, y, z

LEMMA NameByteEffect ==
  ASSUME ParserAssumption, NEW x \in Ctx, NEW c \in Byte
  PROVE  LET z == NameByte(x, c)
         IN  /\ z.match.host = strcmpi(HeaderName.host, x.match.host, c)
             /\ z.match.connection = strcmpi(HeaderName.connection, x.match.connection, c)
             /\ z.full_message = Append(x.full_message, c)
             /\ Only({"match", "full_message"}, x, z)
<1> DEFINE w == Written(x, <<c>>)
           m == [h \in Names |-> strcmpi(HeaderName[h], x.match[h], c)]
           z == [w EXCEPT !.match = m]
<1>1. NameByte(x, c) = z
  BY DEF NameByte, Written
<1>2. w \in Ctx /\ Only({"full_message"}, x, w) /\ w.full_message = Append(x.full_message, c)
  BY WrittenByte
<1>3. m.host = strcmpi(HeaderName.host, x.match.host, c)
        /\ m.connection = strcmpi(HeaderName.connection, x.match.connection, c)
  BY DEF Names
<1> HIDE DEF w, m
<1>4. DOMAIN w = Fields
  BY <1>2, CtxFields
<1>5. z.match = m /\ z.full_message = w.full_message /\ Only({"match"}, w, z)
  BY <1>4 DEF Only, Fields
<1>6. Only({"match", "full_message"}, x, z)
  BY <1>2, <1>5 DEF Only
<1> QED
  BY <1>1, <1>2, <1>3, <1>5, <1>6

LEMMA ColonEffect ==
  ASSUME NEW x \in Ctx
  PROVE  LET z == Colon(x)
             avoid == Is(x, "connection") /\ ~x.found.connection
         IN  /\ Only({"found", "connection_avoid", "full_message"}, x, z)
             /\ z.found.host = x.found.host
             /\ z.connection_avoid = avoid
             /\ z.found.connection = (x.found.connection \/ avoid)
             /\ ~avoid => z.full_message = x.full_message \o <<"COLON">>
             /\ avoid => z.full_message =
                  SubSeq(x.full_message, 1, Len(x.full_message) - (Len(HeaderName.connection) + 2))
<1> DEFINE avoid == Is(x, "connection") /\ ~x.found.connection
           kept == SubSeq(x.full_message, 1, Len(x.full_message) - (Len(HeaderName.connection) + 2))
           found == [x.found EXCEPT !.connection = TRUE]
           y == [x EXCEPT !.found = found, !.connection_avoid = TRUE, !.full_message = kept]
           w == Written(x, <<"COLON">>)
           u == [w EXCEPT !.connection_avoid = FALSE]
<1>1. Colon(x) = IF avoid THEN y ELSE u
  BY DEF Colon
<1>2. found.host = x.found.host /\ found.connection = TRUE
  BY DEF Ctx, Names
<1>3. DOMAIN x = Fields
  BY CtxFields
<1> HIDE DEF found, kept
<1>4. /\ y.found = found /\ y.connection_avoid = TRUE /\ y.full_message = kept
      /\ Only({"found", "connection_avoid", "full_message"}, x, y)
  BY <1>3 DEF Only, Fields
<1>5. /\ u.found = x.found /\ u.connection_avoid = FALSE
      /\ u.full_message = x.full_message \o <<"COLON">>
      /\ Only({"found", "connection_avoid", "full_message"}, x, u)
  BY <1>3 DEF Only, Fields, Written
<1>6. x.found.connection \in BOOLEAN
  BY DEF Ctx, Names
<1> HIDE DEF y, u
<1>7. CASE avoid
  BY <1>1, <1>2, <1>4, <1>7 DEF kept
<1>8. CASE ~avoid
  <2>1. Colon(x) = u
    BY <1>1, <1>8
  <2> QED
    BY <1>5, <1>6, <1>8, <2>1
<1> QED
  BY <1>7, <1>8

LEMMA ValueBytesEffect ==
  ASSUME NEW x \in Ctx, NEW bytes
  PROVE  LET z == ValueBytes(x, bytes)
         IN  /\ Only({"value", "full_message"}, x, z)
             /\ z.value.host = IF Is(x, "host") /\ ~x.found.host THEN x.value.host \o bytes
                                                                 ELSE x.value.host
             /\ z.full_message = IF Forwarded(x) THEN x.full_message \o bytes ELSE x.full_message
<1> DEFINE v == [h \in Kept |-> IF Is(x, h) /\ ~x.found[h]
                                THEN x.value[h] \o bytes ELSE x.value[h]]
           y == [x EXCEPT !.value = v]
<1>1. ValueBytes(x, bytes) = IF Forwarded(x) THEN Written(y, bytes) ELSE y
  BY DEF ValueBytes
<1>2. v.host = IF Is(x, "host") /\ ~x.found.host THEN x.value.host \o bytes ELSE x.value.host
  BY DEF Kept, Names
<1> HIDE DEF v
<1>3. DOMAIN x = Fields
  BY CtxFields
<1>4. y.value = v /\ y.full_message = x.full_message /\ Only({"value"}, x, y)
  BY <1>3 DEF Only, Fields
<1>5. LET w == Written(y, bytes)
      IN  w.value = v /\ w.full_message = x.full_message \o bytes
            /\ Only({"value", "full_message"}, x, w)
  BY <1>3 DEF Only, Fields, Written
<1> QED
  BY <1>1, <1>2, <1>4, <1>5 DEF Only

\* Whether the host of the URI takes the place of the value of the line.
Taken(x) == x.uri_has_host /\ ~x.found.host /\ x.value.host # <<>>

LEMMA NewLineEffect ==
  ASSUME NEW x \in Ctx
  PROVE  LET z == NewLine(x)
             count == x.host_count + IF Is(x, "host") THEN 1 ELSE 0
             host == IF Taken(x) THEN x.uri_host ELSE x.value.host
         IN  /\ Only(HeaderFields \ {"HTTP_header"}, x, z)
             /\ z.host_count = count
             /\ z.error = (x.error \/ (Is(x, "host") /\ count > 1))
             /\ z.value.host = host
             /\ z.found.host = (x.found.host \/ host # <<>>)
             /\ z.found.connection = x.found.connection
             /\ z.connection_avoid = FALSE
             /\ z.match.host = parser_reset(x.match.host)
             /\ ~x.found.connection => z.match.connection = parser_reset(x.match.connection)
             /\ z.full_message =
                  (IF Taken(x) THEN x.full_message \o x.uri_host ELSE x.full_message) \o <<"CR", "LF">>
<1> DEFINE count == x.host_count + IF Is(x, "host") THEN 1 ELSE 0
           host == IF Taken(x) THEN x.uri_host ELSE x.value.host
           e == x.error \/ (Is(x, "host") /\ count > 1)
           u == [x EXCEPT !.host_count = count, !.error = e]
           v == [x.value EXCEPT !.host = x.uri_host]
           w == [Written(u, x.uri_host) EXCEPT !.value = v]
           y == HostOfLine(u)
           a == Written(y, <<"CR", "LF">>)
           f == [h \in Names |-> a.found[h] \/ (h \in Kept /\ y.value[h] # <<>>)]
           m == [h \in Names |-> IF h \in Kept \/ ~x.found.connection
                                  THEN parser_reset(a.match[h]) ELSE a.match[h]]
           z == [a EXCEPT !.found = f, !.match = m, !.connection_avoid = FALSE]
<1>1. NewLine(x) = z
  BY DEF NewLine
<1>2. DOMAIN x = Fields /\ DOMAIN x.value = Kept /\ "host" \in Kept /\ DOMAIN x.found = Names
        /\ x.found \in [Names -> BOOLEAN]
  BY CtxFields DEF Ctx, Kept, Names
<1> HIDE DEF count, e
<1>3. /\ DOMAIN u = Fields /\ u.host_count = count /\ u.error = e
      /\ Only({"host_count", "error"}, x, u)
  BY <1>2 DEF Only, Fields
<1> HIDE DEF u
<1>4. /\ u.uri_has_host = x.uri_has_host /\ u.uri_host = x.uri_host /\ u.found = x.found
      /\ u.value = x.value /\ u.match = x.match /\ u.full_message = x.full_message
  BY <1>3 DEF Only, Fields
<1>5. y = IF Taken(x) THEN w ELSE u
  <2> DEFINE b == Written(u, x.uri_host)
  <2>1. b.value = x.value
    BY <1>3, <1>4 DEF Fields, Written
  <2>2. y = IF Taken(x) THEN [b EXCEPT !.value.host = x.uri_host] ELSE u
    BY <1>4 DEF HostOfLine, Taken
  <2> HIDE DEF b
  <2>3. [b EXCEPT !.value.host = x.uri_host] = [b EXCEPT !.value = [b.value EXCEPT !.host = x.uri_host]]
    OBVIOUS
  <2> HIDE DEF y
  <2> QED
    BY <2>1, <2>2, <2>3 DEF b
<1>6. v.host = x.uri_host
  BY <1>2
<1> HIDE DEF v
<1>7. /\ DOMAIN w = Fields /\ w.value = v /\ w.full_message = x.full_message \o x.uri_host
      /\ Only({"value", "full_message"}, u, w)
  BY <1>3, <1>4 DEF Only, Fields, Written
<1> HIDE DEF w, y
<1>8. /\ DOMAIN y = Fields /\ y.value.host = host
      /\ y.full_message = IF Taken(x) THEN x.full_message \o x.uri_host ELSE x.full_message
      /\ Only({"value", "full_message"}, u, y)
  BY <1>3, <1>4, <1>5, <1>6, <1>7, OnlyItself DEF Only
<1>9. /\ DOMAIN a = Fields /\ a.full_message = y.full_message \o <<"CR", "LF">>
      /\ a.value = y.value /\ Only({"full_message"}, y, a)
  BY <1>8 DEF Only, Fields, Written
<1> HIDE DEF a
<1>10. /\ a.found = x.found /\ a.match = x.match /\ a.host_count = count /\ a.error = e
  BY <1>3, <1>4, <1>8, <1>9 DEF Only, Fields
<1>11. /\ f.host = (x.found.host \/ host # <<>>) /\ f.connection = x.found.connection
  <2>1. /\ f.host = (a.found.host \/ ("host" \in Kept /\ y.value.host # <<>>))
        /\ f.connection = (a.found.connection \/ ("connection" \in Kept /\ y.value.connection # <<>>))
    BY DEF Names
  <2>2. "connection" \notin Kept /\ x.found.connection \in BOOLEAN
    BY <1>2 DEF Kept, Names
  <2> HIDE DEF f, host
  <2> QED
    BY <1>2, <1>8, <1>10, <2>1, <2>2
<1>12. /\ m.host = parser_reset(x.match.host)
       /\ ~x.found.connection => m.connection = parser_reset(x.match.connection)
  <2>1. /\ m.host = IF "host" \in Kept \/ ~x.found.connection
                     THEN parser_reset(a.match.host) ELSE a.match.host
        /\ m.connection = IF "connection" \in Kept \/ ~x.found.connection
                           THEN parser_reset(a.match.connection) ELSE a.match.connection
    BY DEF Names
  <2> HIDE DEF m
  <2> QED
    BY <1>2, <1>10, <2>1
<1> HIDE DEF f, m, host
<1>13. /\ z.found = f /\ z.match = m /\ z.connection_avoid = FALSE
       /\ Only({"found", "match", "connection_avoid"}, a, z)
  BY <1>9 DEF Only, Fields
<1> HIDE DEF z
<1>14. /\ z.full_message = y.full_message \o <<"CR", "LF">> /\ z.value = y.value
       /\ z.host_count = count /\ z.error = e
  BY <1>9, <1>10, <1>13 DEF Only, Fields
<1>15. Only(HeaderFields \ {"HTTP_header"}, x, z)
  BY <1>3, <1>8, <1>9, <1>13 DEF Only, Fields, HeaderFields
<1> QED
  BY <1>1, <1>8, <1>11, <1>12, <1>13, <1>14, <1>15 DEF count, e, host

-----------------------------------------------------------------------------
(* A byte of the header: what it keeps of the header parsed so far *)

LEMMA SoFarType ==
  ASSUME NEW q, NEW p \in Seq(Byte)
  PROVE  NameSoFar(q, p) \in Seq(Byte) /\ ValueSoFar(q, p) \in Seq(Byte)
<1>1. \A s \in Seq(Byte) : WithoutCR(s) \in Seq(Byte)
  BY SubSeqProperties DEF WithoutCR
<1>2. NameOf(p) \in Seq(Byte) /\ ValueOf(p) \in Seq(Byte)
  <2>1. \A c \in Byte : NameOf(p) \in Seq(Byte) /\ ValueOf(p) \in Seq(Byte)
    BY NameMoves
  <2>2. CASE p = <<>>
    <3>1. First(p, "COLON") = 0
      BY <2>2 DEF First
    <3>2. After(p, "COLON") = <<>>
      BY <2>2, <3>1 DEF After
    <3>3. {i \in DOMAIN <<>> : <<>>[i] # "SP"} = {} /\ Len(<<>>) = 0
      OBVIOUS
    <3>4. Min({} \cup {0 + 1}) = 0 + 1
      BY LeastIs
    <3>5. SubSeq(<<>>, 0 + 1, 0) = <<>>
      OBVIOUS
    <3> QED
      BY <2>2, <3>1, <3>2, <3>3, <3>4, <3>5 DEF NameOf, Before, ValueOf
  <2>3. CASE p # <<>>
    <3>1. p[1] \in Byte
      BY <2>3, EmptySeq, ElementOfSeq
    <3> QED
      BY <2>1, <3>1
  <2> QED
    BY <2>2, <2>3
<1> QED
  BY <1>1, <1>2 DEF NameSoFar, ValueSoFar

LEMMA EndsLineType == ASSUME ParserAssumption, NEW s, EndsLine(s) PROVE s \in Seq(Byte)
<1>1. <<"CR", "LF">> \in Seq(Byte)
  BY DEF ParserAssumption, Marks
<1> QED
  BY <1>1, ConcatProperties DEF EndsLine

LEMMA SameNamed == ASSUME NEW p, NEW s, NEW h, NameOf(p) = NameOf(s)
                   PROVE  Named(p, h) <=> Named(s, h)
  BY DEF Named

\* The members of a context that tell what was parsed of the header.
HeadMembers == {"match", "value", "found", "host_count", "connection_avoid", "uri_has_host",
                "uri_host", "HTTP_start_line", "full_message"}

SameHead(x, y) ==
  /\ y.match = x.match /\ y.value = x.value /\ y.found = x.found
  /\ y.host_count = x.host_count /\ y.connection_avoid = x.connection_avoid
  /\ y.uri_has_host = x.uri_has_host /\ y.uri_host = x.uri_host
  /\ y.HTTP_start_line = x.HTTP_start_line /\ y.full_message = x.full_message

LEMMA HeadSame ==
  ASSUME NEW F, NEW x, NEW y, Only(F, x, y), F \cap HeadMembers = {}
  PROVE  SameHead(x, y)
  BY DEF Only, Fields, HeadMembers, SameHead

\* In a value the matchers have seen the whole name.
LEMMA NamedHere ==
  ASSUME ParserAssumption, NEW x \in Ctx, NEW p \in Seq(Byte), x.HTTP_header \in ValueStates,
         NameOf(p) # <<>>, Matched(x, p)
  PROVE  /\ Is(x, "host") <=> Named(p, "host")
         /\ ~x.found.connection => (Is(x, "connection") <=> Named(p, "connection"))
         /\ Named(p, "host") => ~Named(p, "connection")
         /\ NameOf(p) \in Seq(Byte)
         /\ ~x.found.connection /\ Named(p, "connection") =>
              Len(NameOf(p)) = Len(HeaderName.connection)
<1>1. NameSoFar(x.HTTP_header, p) = NameOf(p)
  BY DEF NameSoFar
<1>2. NameOf(p) \in Seq(Byte)
  BY <1>1, SoFarType
<1>3. x.match.host \in Matcher /\ x.match.connection \in Matcher
        /\ "host" \in Names /\ "connection" \in Names
  BY DEF Ctx, Names
<1>4. /\ MatchParsed(x.match.host, HeaderName.host, NameOf(p))
      /\ ~x.found.connection => MatchParsed(x.match.connection, HeaderName.connection, NameOf(p))
  BY <1>1 DEF Matched
<1>5. x.match.host.event = "EQ" <=> Named(p, "host")
  BY <1>2, <1>3, <1>4, MatchIs
<1>6. ~x.found.connection =>
        /\ x.match.connection.event = "EQ" <=> Named(p, "connection")
        /\ Named(p, "connection") => Len(NameOf(p)) = Len(HeaderName.connection)
  BY <1>2, <1>3, <1>4, MatchIs
<1>7. HeaderName.host # HeaderName.connection
  BY DEF ParserAssumption
<1>8. Named(p, "host") => ~Named(p, "connection")
  BY <1>7 DEF Named
<1> QED
  BY <1>2, <1>5, <1>6, <1>8 DEF Is

\* What the steps of a byte have in common.
HeadGiven(x, y, q, lines, uri) ==
  /\ x \in Ctx /\ y \in Ctx /\ SameHead(x, y) /\ y.HTTP_header = q
  /\ lines \in Seq(Seq(Byte)) /\ lines # <<>> /\ uri \in Seq(Byte)

LEMMA WaitStep ==
  ASSUME NEW x, NEW y, NEW lines, NEW uri, NEW p \in Seq(Byte), NEW more \in Seq(Byte), NEW c, NEW t,
         HeadGiven(x, y, t.dest, lines, uri), HeadParsed(x, lines, p, uri),
         LineStepped(x.HTTP_header, p, c, t, more), t.acts = "wait"
  PROVE  HeadParsed(y, lines, more, uri)
<1> DEFINE q == x.HTTP_header
<1>1. /\ LineAt(t.dest, more) /\ NameSoFar(t.dest, more) = NameSoFar(q, p)
      /\ q \in ValueStates <=> t.dest \in ValueStates
      /\ ValueSoFar(t.dest, more) = ValueSoFar(q, p)
      /\ q \in ValueStates => NameOf(more) = NameOf(p)
  BY DEF LineStepped, ValueActs
<1>2. SameHead(x, y) /\ y.HTTP_header = t.dest
  BY DEF HeadGiven
<1>3. q \in ValueStates => (Named(more, "connection") <=> Named(p, "connection"))
  BY <1>1, SameNamed
<1>4. Is(y, "host") <=> Is(x, "host")
  BY <1>2 DEF Is, SameHead
<1>5. Matched(y, more)
  BY <1>1, <1>2 DEF HeadParsed, Matched, SameHead
<1>6. HostPart(y, lines, more, uri)
  BY <1>1, <1>2, <1>4 DEF HeadParsed, HostPart, SameHead
<1>7. ConnectionPart(y, lines, more)
  BY <1>1, <1>2, <1>3 DEF HeadParsed, ConnectionPart, SameHead
<1>8. Partial(y, more) = Partial(x, p)
  BY <1>1, <1>2, <1>4 DEF Partial, SameHead
<1>9. UriPart(y, uri) /\ (y.HTTP_start_line = "VERSION" => ForwardPart(y, lines, more, uri))
  BY <1>2, <1>8 DEF HeadParsed, UriPart, ForwardPart, SameHead
<1> QED
  BY <1>1, <1>2, <1>5, <1>6, <1>7, <1>9 DEF HeadParsed

LEMMA NameStep ==
  ASSUME ParserAssumption, NEW x, NEW y, NEW lines, NEW uri, NEW p \in Seq(Byte),
         NEW more \in Seq(Byte), NEW c \in Byte, NEW t,
         HeadGiven(x, y, t.dest, lines, uri), HeadParsed(x, lines, p, uri),
         LineStepped(x.HTTP_header, p, c, t, more), t.acts = "byte_fn"
  PROVE  HeadParsed(NameByte(y, c), lines, more, uri)
<1> DEFINE q == x.HTTP_header
           z == NameByte(y, c)
           text == NameSoFar(q, p)
<1>1. /\ LineAt(t.dest, more) /\ NameSoFar(t.dest, more) = Append(text, c)
      /\ q \notin ValueStates /\ t.dest \notin ValueStates
  BY DEF LineStepped, ValueActs
<1>2. /\ SameHead(x, y) /\ y.HTTP_header = t.dest /\ x \in Ctx /\ y \in Ctx
  BY DEF HeadGiven
<1>3. /\ z.match.host = strcmpi(HeaderName.host, y.match.host, c)
      /\ z.match.connection = strcmpi(HeaderName.connection, y.match.connection, c)
      /\ z.full_message = Append(y.full_message, c)
      /\ Only({"match", "full_message"}, y, z)
  BY <1>2, NameByteEffect
<1>4. text \in Seq(Byte) /\ <<c>> \in Seq(Byte)
  BY SoFarType
<1> HIDE DEF z, text, q
<1>5. /\ z.HTTP_header = t.dest /\ z.found = x.found /\ z.value = x.value
      /\ z.host_count = x.host_count /\ z.connection_avoid = x.connection_avoid
      /\ z.uri_has_host = x.uri_has_host /\ z.uri_host = x.uri_host
      /\ z.HTTP_start_line = x.HTTP_start_line
  BY <1>2, <1>3 DEF Only, Fields, SameHead
<1>6. /\ x.match.host \in Matcher /\ x.match.connection \in Matcher
      /\ HeaderName.host \in Seq(Byte) /\ HeaderName.connection \in Seq(Byte)
      /\ y.match = x.match
  BY <1>2 DEF Ctx, Names, ParserAssumption, SameHead
<1>7. Matched(z, more)
  <2>1. /\ MatchParsed(x.match.host, HeaderName.host, text)
        /\ ~x.found.connection => MatchParsed(x.match.connection, HeaderName.connection, text)
    BY DEF HeadParsed, Matched, text, q
  <2>2. MatchParsed(z.match.host, HeaderName.host, Append(text, c))
    BY <1>3, <1>4, <1>6, <2>1, MatchNext
  <2>3. ~x.found.connection =>
          MatchParsed(z.match.connection, HeaderName.connection, Append(text, c))
    BY <1>3, <1>4, <1>6, <2>1, MatchNext
  <2> QED
    BY <1>1, <1>5, <2>2, <2>3 DEF Matched
<1>8. HostPart(z, lines, more, uri)
  BY <1>1, <1>5 DEF HeadParsed, HostPart, q
<1>9. ConnectionPart(z, lines, more) /\ ~z.connection_avoid
  BY <1>1, <1>5 DEF HeadParsed, ConnectionPart, q
<1>10. UriPart(z, uri)
  BY <1>5 DEF HeadParsed, UriPart
<1>11. ASSUME z.HTTP_start_line = "VERSION" PROVE ForwardPart(z, lines, more, uri)
  <2> DEFINE f == Forward(lines, uri)
  <2>1. EndsLine(f) /\ x.full_message = f \o Partial(x, p)
    BY <1>5, <1>9, <1>11 DEF HeadParsed, ForwardPart
  <2>2. Partial(x, p) = text /\ Partial(z, more) = Append(text, c)
    BY <1>1, <1>5 DEF Partial, text, q
  <2>3. f \in Seq(Byte)
    BY <2>1, EndsLineType
  <2> HIDE DEF f
  <2>4. Append(f \o text, c) = f \o Append(text, c)
    <3>1. f \o text \in Seq(Byte)
      BY <1>4, <2>3, ConcatProperties
    <3>2. Append(f \o text, c) = (f \o text) \o <<c>> /\ Append(text, c) = text \o <<c>>
      BY <1>4, <3>1, AppendIsConcat
    <3>3. (f \o text) \o <<c>> = f \o (text \o <<c>>)
      <4>1. text \in Seq(Byte) /\ <<c>> \in Seq(Byte)
        BY <1>4
      <4> HIDE DEF text
      <4> QED
        BY <2>3, <4>1, ConcatAssociative
    <3> QED
      BY <3>2, <3>3
  <2>5. z.full_message = f \o Partial(z, more)
    BY <1>2, <1>3, <2>1, <2>2, <2>4 DEF SameHead
  <2> QED
    BY <1>9, <2>1, <2>5 DEF ForwardPart, f
<1>12. HeadParsed(z, lines, more, uri)
  BY <1>1, <1>5, <1>7, <1>8, <1>9, <1>10, <1>11 DEF HeadParsed
<1> QED
  BY <1>12 DEF z

\* What full_message was before a Connection header dropped.
LEMMA TakenBack ==
  ASSUME ParserAssumption, NEW f \in Seq(Byte), NEW text \in Seq(Byte), NEW n, Len(text) = n,
         NEW s, s = (f \o <<"CR", "LF">>) \o text
  PROVE  SubSeq(s, 1, Len(s) - (n + 2)) = f
<1> DEFINE e == <<"CR", "LF">>
           fe == f \o e
<1>1. e \in Seq(Byte) /\ Len(e) = 2 /\ Len(f) \in Nat /\ n \in Nat
  BY LenProperties DEF ParserAssumption, Marks
<1> HIDE DEF e
<1>2. fe \in Seq(Byte) /\ Len(fe) = Len(f) + 2 /\ \A i \in 1 .. Len(f) : fe[i] = f[i]
  <2>1. /\ fe \in Seq(Byte) /\ Len(fe) = Len(f) + Len(e)
        /\ \A i \in 1 .. Len(f) + Len(e) : fe[i] = IF i <= Len(f) THEN f[i] ELSE e[i - Len(f)]
    BY <1>1, ConcatProperties
  <2> HIDE DEF fe
  <2> QED
    BY <1>1, <2>1
<1>3. s \in Seq(Byte) /\ Len(s) = Len(f) + 2 + n /\ \A i \in 1 .. Len(f) : s[i] = f[i]
  <2>1. s = fe \o text
    BY DEF e
  <2> HIDE DEF fe
  <2>2. /\ fe \o text \in Seq(Byte) /\ Len(fe \o text) = Len(fe) + Len(text)
        /\ \A i \in 1 .. Len(fe) + Len(text) :
             (fe \o text)[i] = IF i <= Len(fe) THEN fe[i] ELSE text[i - Len(fe)]
    BY <1>2, ConcatProperties
  <2>3. \A i \in 1 .. Len(f) : i \in 1 .. Len(fe) + Len(text) /\ i <= Len(fe)
    BY <1>1, <1>2
  <2>4. \A i \in 1 .. Len(f) : s[i] = f[i]
    BY <1>2, <2>1, <2>2, <2>3
  <2>5. Len(s) = Len(f) + 2 + n /\ s \in Seq(Byte)
    BY <1>1, <1>2, <2>1, <2>2
  <2> QED
    BY <2>4, <2>5
<1>4. Len(s) - (n + 2) = Len(f) /\ Len(f) <= Len(s)
  BY <1>1, <1>3
<1>5. SubSeq(s, 1, Len(f)) = f
  <2> DEFINE u == SubSeq(s, 1, Len(f))
  <2>1. u \in Seq(Byte) /\ Len(u) = Len(f) /\ \A i \in 1 .. Len(f) : u[i] = s[i]
    BY <1>1, <1>3, <1>4, SubSeqProperties
  <2> HIDE DEF u
  <2>2. u = f
    BY <1>3, <2>1, SeqEqual
  <2> QED
    BY <2>2 DEF u
<1> QED
  BY <1>4, <1>5

LEMMA ColonStep ==
  ASSUME ParserAssumption, NEW x, NEW y, NEW lines, NEW uri, NEW p \in Seq(Byte),
         NEW more \in Seq(Byte), NEW c, NEW t,
         HeadGiven(x, y, t.dest, lines, uri), HeadParsed(x, lines, p, uri),
         LineStepped(x.HTTP_header, p, c, t, more), t.acts = "wait_colon"
  PROVE  HeadParsed(Colon(y), lines, more, uri)
<1> DEFINE q == x.HTTP_header
           z == Colon(y)
           text == NameSoFar(q, p)
           avoid == Is(y, "connection") /\ ~y.found.connection
<1>1. /\ LineAt(t.dest, more) /\ NameSoFar(t.dest, more) = text
      /\ q \notin ValueStates /\ t.dest \in ValueStates /\ ValueSoFar(t.dest, more) = <<>>
  BY DEF LineStepped, ValueActs
<1>2. /\ SameHead(x, y) /\ y.HTTP_header = t.dest /\ x \in Ctx /\ y \in Ctx
  BY DEF HeadGiven
<1>3. /\ Only({"found", "connection_avoid", "full_message"}, y, z)
      /\ z.found.host = y.found.host
      /\ z.connection_avoid = avoid
      /\ z.found.connection = (y.found.connection \/ avoid)
      /\ ~avoid => z.full_message = y.full_message \o <<"COLON">>
      /\ avoid => z.full_message =
           SubSeq(y.full_message, 1, Len(y.full_message) - (Len(HeaderName.connection) + 2))
  BY <1>2, ColonEffect
<1>4. text \in Seq(Byte) /\ <<"COLON">> \in Seq(Byte)
  BY SoFarType DEF ParserAssumption, Marks
<1>5. text = NameOf(more) /\ NameOf(more) # <<>>
  BY <1>1 DEF NameSoFar, LineAt
<1>6. Matched(y, more)
  BY <1>1, <1>2 DEF HeadParsed, Matched, SameHead
<1>7. /\ Is(y, "host") <=> Named(more, "host")
      /\ ~y.found.connection => (Is(y, "connection") <=> Named(more, "connection"))
      /\ ~y.found.connection /\ Named(more, "connection") =>
           Len(text) = Len(HeaderName.connection)
  BY <1>1, <1>2, <1>5, <1>6, NamedHere
<1>8. x.found.connection \in BOOLEAN /\ y.found = x.found
  BY <1>2 DEF Ctx, Names, SameHead
<1> HIDE DEF z, text, q, avoid
<1>9. /\ z.HTTP_header = t.dest /\ z.match = x.match /\ z.value = x.value
      /\ z.host_count = x.host_count /\ z.found.host = x.found.host
      /\ z.uri_has_host = x.uri_has_host /\ z.uri_host = x.uri_host
      /\ z.HTTP_start_line = x.HTTP_start_line
  BY <1>2, <1>3, <1>8 DEF Only, Fields, SameHead
<1>10. Matched(z, more)
  <2>1. ~z.found.connection => ~y.found.connection
    BY <1>3, <1>8
  <2>2. z.HTTP_header = y.HTTP_header /\ z.match = y.match
    BY <1>2, <1>9 DEF SameHead
  <2> QED
    BY <1>6, <2>1, <2>2 DEF Matched
<1>11. HostPart(z, lines, more, uri)
  BY <1>1, <1>9 DEF HeadParsed, HostPart, q
<1>12. /\ x.found.connection <=> NamedIn(lines, "connection") # {}
       /\ ~x.connection_avoid
  BY <1>1 DEF HeadParsed, ConnectionPart, q
<1>13. avoid <=> NamedIn(lines, "connection") = {} /\ Named(more, "connection")
  BY <1>7, <1>8, <1>12 DEF avoid
<1>14. ConnectionPart(z, lines, more)
  BY <1>1, <1>3, <1>8, <1>9, <1>12, <1>13 DEF ConnectionPart
<1>15. UriPart(z, uri)
  BY <1>9 DEF HeadParsed, UriPart
<1>16. ASSUME z.HTTP_start_line = "VERSION" PROVE ForwardPart(z, lines, more, uri)
  <2> DEFINE f == Forward(lines, uri)
  <2>1. EndsLine(f) /\ x.full_message = f \o Partial(x, p)
    BY <1>9, <1>12, <1>16 DEF HeadParsed, ForwardPart
  <2>2. Partial(x, p) = text
    BY <1>1 DEF Partial, text, q
  <2>3. Partial(z, more) = (text \o <<"COLON">>) \o <<>>
    BY <1>1, <1>9 DEF Partial
  <2>4. text \o <<"COLON">> \in Seq(Byte)
    BY <1>4, ConcatProperties
  <2>5. Partial(z, more) = text \o <<"COLON">>
    BY <2>3, <2>4, ConcatEmptySeq
  <2>6. f \in Seq(Byte)
    BY <2>1, EndsLineType
  <2> HIDE DEF f
  <2>7. CASE ~avoid
    <3>1. (f \o text) \o <<"COLON">> = f \o (text \o <<"COLON">>)
      BY <1>4, <2>6, ConcatAssociative, SMTT(30)
    <3>2. z.full_message = f \o Partial(z, more) /\ ~z.connection_avoid
      BY <1>2, <1>3, <2>1, <2>2, <2>5, <2>7, <3>1 DEF SameHead
    <3> QED
      BY <2>1, <3>2 DEF ForwardPart, f
  <2>8. CASE avoid
    <3>1. PICK g \in Seq(Byte) : f = g \o <<"CR", "LF">>
      BY <2>1 DEF EndsLine
    <3>2. Len(text) = Len(HeaderName.connection)
      BY <1>7, <1>8, <1>12, <1>13, <2>8
    <3>3. y.full_message = (g \o <<"CR", "LF">>) \o text
      BY <1>2, <2>1, <2>2, <3>1 DEF SameHead
    <3>4. z.full_message = g
      <4>1. SubSeq(y.full_message, 1, Len(y.full_message) - (Len(HeaderName.connection) + 2)) = g
        BY <1>4, <3>2, <3>3, TakenBack
      <4> QED
        BY <1>3, <2>8, <4>1
    <3>5. z.connection_avoid /\ f = z.full_message \o <<"CR", "LF">>
      BY <1>3, <2>8, <3>1, <3>4
    <3> QED
      BY <2>1, <3>5 DEF ForwardPart, f
  <2> QED
    BY <2>7, <2>8
<1>17. HeadParsed(z, lines, more, uri)
  BY <1>1, <1>9, <1>10, <1>11, <1>14, <1>15, <1>16 DEF HeadParsed
<1> QED
  BY <1>17 DEF z

PartsAgree(f, g, s, u) == (f \o (g \o s)) \o u = f \o (g \o (s \o u))

LEMMA FourParts ==
  ASSUME NEW f \in Seq(Byte), NEW g \in Seq(Byte), NEW s \in Seq(Byte), NEW u \in Seq(Byte)
  PROVE  PartsAgree(f, g, s, u)
<1>1. g \o s \in Seq(Byte)
  BY ConcatProperties
<1>2. ASSUME NEW t \in Seq(Byte) PROVE (f \o t) \o u = f \o (t \o u)
  BY ConcatAssociative, SMTT(30)
<1>3. (f \o (g \o s)) \o u = f \o ((g \o s) \o u)
  BY <1>1, <1>2
<1>4. (g \o s) \o u = g \o (s \o u)
  BY ConcatAssociative
<1> QED
  BY <1>3, <1>4 DEF PartsAgree

LEMMA ValueStep ==
  ASSUME ParserAssumption, NEW x, NEW y, NEW lines, NEW uri, NEW p \in Seq(Byte),
         NEW more \in Seq(Byte), NEW c \in Byte, NEW t,
         HeadGiven(x, y, t.dest, lines, uri), HeadParsed(x, lines, p, uri),
         LineStepped(x.HTTP_header, p, c, t, more), t.acts \in ValueActs
  PROVE  HeadParsed(ValueBytes(y, Added(t.acts, c)), lines, more, uri)
<1> DEFINE q == x.HTTP_header
           b == Added(t.acts, c)
           z == ValueBytes(y, b)
           text == NameSoFar(q, p)
           given == ValueSoFar(q, p)
           kept == ~(x.uri_has_host /\ Is(x, "host") /\ ~x.found.host)
<1>1. /\ LineAt(t.dest, more) /\ NameSoFar(t.dest, more) = text
      /\ q \in ValueStates /\ t.dest \in ValueStates /\ ValueSoFar(t.dest, more) = given \o b
      /\ NameOf(more) = NameOf(p)
  BY DEF LineStepped, ValueActs
<1>2. /\ SameHead(x, y) /\ y.HTTP_header = t.dest /\ x \in Ctx /\ y \in Ctx
  BY DEF HeadGiven
<1>3. /\ Only({"value", "full_message"}, y, z)
      /\ z.value.host = IF Is(y, "host") /\ ~y.found.host THEN y.value.host \o b ELSE y.value.host
      /\ z.full_message = IF Forwarded(y) THEN y.full_message \o b ELSE y.full_message
  BY <1>2, ValueBytesEffect
<1>4. text \in Seq(Byte) /\ given \in Seq(Byte) /\ b \in Seq(Byte) /\ <<"COLON">> \in Seq(Byte)
  BY SoFarType DEF ParserAssumption, Marks, Added
<1>5. Named(more, "connection") <=> Named(p, "connection")
  BY <1>1, SameNamed
<1>6. (Is(y, "host") <=> Is(x, "host"))
        /\ (Forwarded(y) <=> ~x.connection_avoid /\ kept)
  BY <1>2 DEF Is, SameHead, Forwarded
<1> HIDE DEF z, text, q, b, given
<1>7. /\ z.HTTP_header = t.dest /\ z.match = x.match /\ z.found = x.found
      /\ z.host_count = x.host_count /\ z.connection_avoid = x.connection_avoid
      /\ z.uri_has_host = x.uri_has_host /\ z.uri_host = x.uri_host
      /\ z.HTTP_start_line = x.HTTP_start_line
  BY <1>2, <1>3 DEF Only, Fields, SameHead
<1>8. Is(z, "host") <=> Is(x, "host")
  BY <1>7 DEF Is
<1>9. Matched(z, more)
  BY <1>1, <1>7 DEF HeadParsed, Matched, text, q
<1>10. HostPart(z, lines, more, uri)
  <2>1. x.found.host => z.value.host = x.value.host
    BY <1>2, <1>3 DEF SameHead
  <2>2. ~x.found.host => z.value.host = IF Is(x, "host") THEN given \o b ELSE <<>>
    <3>1. ~x.found.host => x.value.host = IF Is(x, "host") THEN given ELSE <<>>
      BY <1>1 DEF HeadParsed, HostPart, given, q
    <3> QED
      BY <1>2, <1>3, <1>6, <3>1 DEF SameHead
  <2> QED
    BY <1>1, <1>7, <1>8, <2>1, <2>2 DEF HeadParsed, HostPart
<1>11. ConnectionPart(z, lines, more)
  BY <1>1, <1>5, <1>7 DEF HeadParsed, ConnectionPart, q
<1>12. UriPart(z, uri)
  BY <1>7 DEF HeadParsed, UriPart
<1>13. ASSUME z.HTTP_start_line = "VERSION" PROVE ForwardPart(z, lines, more, uri)
  <2> DEFINE f == Forward(lines, uri)
             colon == text \o <<"COLON">>
  <2>1. /\ EndsLine(f)
        /\ x.connection_avoid => f = x.full_message \o <<"CR", "LF">>
        /\ ~x.connection_avoid => x.full_message = f \o Partial(x, p)
    BY <1>7, <1>13 DEF HeadParsed, ForwardPart
  <2>2. Partial(x, p) = colon \o (IF kept THEN given ELSE <<>>)
    BY <1>1 DEF Partial, text, given, q
  <2>3. Partial(z, more) = colon \o (IF kept THEN given \o b ELSE <<>>)
    BY <1>1, <1>7, <1>8 DEF Partial
  <2>4. f \in Seq(Byte) /\ colon \in Seq(Byte)
    BY <1>4, <2>1, EndsLineType, ConcatProperties
  <2> HIDE DEF f, colon, kept
  <2>5. CASE x.connection_avoid
    <3>1. z.full_message = x.full_message
      BY <1>2, <1>3, <1>6, <2>5 DEF SameHead
    <3> QED
      BY <1>7, <2>1, <2>5, <3>1 DEF ForwardPart, f
  <2>6. CASE ~x.connection_avoid /\ ~kept
    <3>1. z.full_message = x.full_message
      BY <1>2, <1>3, <1>6, <2>6 DEF SameHead
    <3> QED
      BY <1>7, <2>1, <2>2, <2>3, <2>6, <3>1 DEF ForwardPart, f
  <2>7. CASE ~x.connection_avoid /\ kept
    <3>1. z.full_message = (f \o (colon \o given)) \o b
      BY <1>2, <1>3, <1>6, <2>1, <2>2, <2>7 DEF SameHead
    <3>2. (f \o (colon \o given)) \o b = f \o (colon \o (given \o b))
      <4>1. PartsAgree(f, colon, given, b)
        BY <1>4, <2>4, FourParts
      <4> QED
        BY <4>1 DEF PartsAgree
    <3>3. z.full_message = f \o Partial(z, more)
      BY <2>3, <2>7, <3>1, <3>2
    <3> QED
      BY <1>7, <2>1, <2>7, <3>3 DEF ForwardPart, f
  <2> QED
    BY <2>5, <2>6, <2>7
<1>14. HeadParsed(z, lines, more, uri)
  BY <1>1, <1>7, <1>9, <1>10, <1>11, <1>12, <1>13 DEF HeadParsed
<1> QED
  BY <1>14 DEF z, b

\* The line p is over: what is known of it, and of the lines with it.
LineOver(lines, p, line, more) ==
  /\ line \in Seq(Byte) /\ line # <<>> /\ ValueSoFar("CR_FIELD_VALUE", p) = ValueOf(line)
  /\ NameOf(line) = NameOf(p) /\ NameOf(line) \in Seq(Byte) /\ ValueOf(line) \in Seq(Byte)
  /\ Len(lines) \in Nat \ {0} /\ more # <<>> /\ more \in Seq(Seq(Byte))
  /\ more[Len(lines) + 1] = line /\ \A k \in 1 .. Len(lines) : more[k] = lines[k]
  /\ \A h : /\ NamedIn(lines, h) \subseteq 2 .. Len(lines) /\ IsFiniteSet(NamedIn(lines, h))
            /\ Named(line, h) <=> Named(p, h)
            /\ Named(line, h) => NamedIn(more, h) = NamedIn(lines, h) \cup {Len(lines) + 1}
            /\ ~Named(line, h) => NamedIn(more, h) = NamedIn(lines, h)

LEMMA LineIsOver ==
  ASSUME ParserAssumption, NEW p \in Seq(Byte), LineAt("CR_FIELD_VALUE", p),
         NEW lines \in Seq(Seq(Byte)), lines # <<>>
  PROVE  LineOver(lines, p, WithoutCR(p), Append(lines, WithoutCR(p)))
<1> DEFINE line == WithoutCR(p)
           more == Append(lines, line)
<1>1. EndsCR(p) /\ First(p, "COLON") # 0 /\ "CR" \in Byte
  BY DEF LineAt, CrStates, ValueStates, ParserAssumption, Marks
<1>2. /\ NameOf(line) = NameOf(p) /\ First(line, "COLON") # 0
      /\ ValueOf(line) = WithoutCR(ValueOf(p))
  BY <1>1, ValueEnds
<1>3. line \in Seq(Byte)
  BY SubSeqProperties DEF WithoutCR
<1>4. line # <<>>
  <2>1. First(<<>>, "COLON") = 0
    BY DEF First
  <2> QED
    BY <1>2, <2>1
<1>5. ValueSoFar("CR_FIELD_VALUE", p) = ValueOf(line)
  BY <1>2 DEF ValueSoFar, ValueStates
<1> HIDE DEF line
<1>6. NameOf(line) \in Seq(Byte) /\ ValueOf(line) \in Seq(Byte)
  <2>1. NameMove(line, "CR", Append(line, "CR")) /\ ValueOf(line) \in Seq(Byte) /\ NameOf(line) \in Seq(Byte)
    BY <1>1, <1>3, NameMoves
  <2> QED
    BY <2>1
<1>7. \A h : /\ Len(lines) \in Nat \ {0} /\ NamedIn(lines, h) \subseteq 2 .. Len(lines)
             /\ IsFiniteSet(NamedIn(lines, h))
             /\ more[Len(lines) + 1] = line /\ Len(more) = Len(lines) + 1
             /\ \A k \in 1 .. Len(lines) : more[k] = lines[k]
             /\ NamedIn(more, h) = NamedIn(lines, h) \cup
                  (IF line # <<>> /\ Named(line, h) THEN {Len(lines) + 1} ELSE {})
  BY <1>3, NamedNext
<1>8. \A h : Named(line, h) <=> Named(p, h)
  BY <1>2, SameNamed
<1>9. more \in Seq(Seq(Byte)) /\ more # <<>>
  BY <1>3, AppendProperties, SMTT(30)
<1> HIDE DEF more
<1>10. LineOver(lines, p, line, more)
  BY <1>2, <1>3, <1>4, <1>5, <1>6, <1>7, <1>8, <1>9 DEF LineOver
<1> QED
  BY <1>10 DEF line, more

\* The Host header that ends is the first of its name, any other leaves what was found.
LEMMA HostOver ==
  ASSUME ParserAssumption, NEW x, NEW y, NEW lines, NEW uri, NEW p \in Seq(Byte), NEW line, NEW more,
         HeadGiven(x, y, "NEW_LINE", lines, uri), HeadParsed(x, lines, p, uri),
         x.HTTP_header = "CR_FIELD_VALUE", LineOver(lines, p, line, more), ~NewLine(y).error
  PROVE  /\ Is(y, "host") <=> Named(line, "host")
         /\ Is(y, "host") => ~x.found.host /\ x.value.host = ValueOf(line)
         /\ ~Is(y, "host") /\ ~x.found.host => x.value.host = <<>>
         /\ HostPart(NewLine(y), more, <<>>, uri)
<1> DEFINE z == NewLine(y)
           n == Len(lines)
           hosts == NamedIn(lines, "host")
           count == y.host_count + IF Is(y, "host") THEN 1 ELSE 0
           host == IF Taken(y) THEN y.uri_host ELSE y.value.host
<1>1. /\ SameHead(x, y) /\ y.HTTP_header = "NEW_LINE" /\ x \in Ctx /\ y \in Ctx
  BY DEF HeadGiven
<1>2. /\ Only(HeaderFields \ {"HTTP_header"}, y, z)
      /\ z.host_count = count
      /\ z.error = (y.error \/ (Is(y, "host") /\ count > 1))
      /\ z.value.host = host
      /\ z.found.host = (y.found.host \/ host # <<>>)
  BY <1>1, NewLineEffect
<1>3. /\ ~z.error
      /\ n \in Nat \ {0} /\ hosts \subseteq 2 .. n /\ IsFiniteSet(hosts)
      /\ more[n + 1] = line /\ \A k \in 1 .. n : more[k] = lines[k]
      /\ Named(line, "host") => NamedIn(more, "host") = hosts \cup {n + 1}
      /\ ~Named(line, "host") => NamedIn(more, "host") = hosts
      /\ Named(line, "host") <=> Named(p, "host")
      /\ ValueSoFar("CR_FIELD_VALUE", p) = ValueOf(line)
  BY DEF LineOver
<1>4. Is(y, "host") <=> Named(line, "host")
  <2>1. NameOf(p) # <<>> /\ x.HTTP_header \in ValueStates /\ Matched(x, p)
    BY DEF HeadParsed, LineAt, ValueStates
  <2>2. Is(x, "host") <=> Named(p, "host")
    BY <1>1, <2>1, NamedHere
  <2> QED
    BY <1>1, <1>3, <2>2 DEF Is, SameHead
<1>5. /\ x.host_count = Cardinality(hosts) /\ Cardinality(hosts) <= 1
      /\ x.found.host <=> \E k \in hosts : ValueOf(lines[k]) # <<>>
      /\ x.found.host => \A k \in hosts :
           x.value.host = IF uri # <<>> THEN uri ELSE ValueOf(lines[k])
      /\ ~x.found.host => x.value.host = IF Is(y, "host") THEN ValueOf(line) ELSE <<>>
      /\ x.uri_has_host <=> uri # <<>>
      /\ x.uri_has_host => x.uri_host = uri
  <2>1. Is(y, "host") <=> Is(x, "host")
    BY <1>1 DEF Is, SameHead
  <2> QED
    BY <1>3, <2>1 DEF HeadParsed, HostPart, UriPart, ValueStates
<1>6. x.found.host \in BOOLEAN /\ Cardinality(hosts) \in Nat
        /\ (Cardinality(hosts) = 0 <=> hosts = {}) /\ n + 1 \notin hosts
  BY <1>1, <1>3, FS_CardinalityType, FS_EmptySet DEF Ctx, Names
<1>7. /\ y.found = x.found /\ y.value = x.value /\ y.host_count = x.host_count
      /\ (Taken(y) <=> uri # <<>> /\ ~x.found.host /\ x.value.host # <<>>)
      /\ (Taken(y) => y.uri_host = uri)
  BY <1>1, <1>5 DEF SameHead, Taken
<1>8. z.HTTP_header = "NEW_LINE"
  BY <1>1, <1>2 DEF Only, Fields, HeaderFields
<1> HIDE DEF z, n, hosts
<1>9. CASE Is(y, "host")
  <2>1. x.host_count = 0 /\ hosts = {} /\ z.host_count = 1
    <3>1. ~(count > 1) /\ count = x.host_count + 1
      BY <1>2, <1>3, <1>7, <1>9
    <3> HIDE DEF count
    <3> QED
      BY <1>2, <1>5, <1>6, <3>1
  <2>2. ~x.found.host /\ x.value.host = ValueOf(line)
    BY <1>5, <1>9, <2>1
  <2>3. NamedIn(more, "host") = {n + 1} /\ Cardinality({n + 1}) = 1
    BY <1>3, <1>4, <1>9, <2>1, FS_Singleton
  <2>4. z.value.host = IF uri # <<>> /\ ValueOf(line) # <<>> THEN uri ELSE ValueOf(line)
    BY <1>2, <1>7, <2>2
  <2>5. z.found.host <=> ValueOf(line) # <<>>
    BY <1>2, <1>6, <1>7, <2>2, <2>4
  <2>6. HostPart(z, more, <<>>, uri)
    <3> DEFINE S == NamedIn(more, "host")
    <3>1. z.host_count = Cardinality(S) /\ Cardinality(S) <= 1
      <4>1. Cardinality(S) = 1
        BY <2>3, Zenon
      <4> HIDE DEF S
      <4> QED
        BY <2>1, <4>1
    <3>2. z.found.host <=> \E k \in S : ValueOf(more[k]) # <<>>
      BY <1>3, <2>3, <2>5
    <3>3. z.found.host => \A k \in S :
            z.value.host = IF uri # <<>> THEN uri ELSE ValueOf(more[k])
      BY <1>3, <2>3, <2>4, <2>5
    <3>4. ~z.found.host => z.value.host = <<>>
      BY <2>4, <2>5
    <3> HIDE DEF S
    <3>5. z.HTTP_header \notin ValueStates
      BY <1>8 DEF ValueStates
    <3> QED
      BY <3>1, <3>2, <3>3, <3>4, <3>5 DEF HostPart, S
  <2> QED
    BY <1>4, <1>9, <2>2, <2>6 DEF z
<1>10. CASE ~Is(y, "host")
  <2>1. NamedIn(more, "host") = hosts /\ z.host_count = x.host_count
    BY <1>2, <1>3, <1>4, <1>5, <1>6, <1>7, <1>10
  <2>2. \A k \in hosts : more[k] = lines[k]
    BY <1>3
  <2>3. ~Taken(y) /\ z.value.host = x.value.host
    BY <1>2, <1>5, <1>7, <1>10
  <2>4. z.found.host <=> x.found.host
    <3>1. ~x.found.host => x.value.host = <<>>
      BY <1>5, <1>10
    <3> QED
      BY <1>2, <1>6, <1>7, <2>3, <3>1
  <2>5. ~x.found.host => x.value.host = <<>>
    BY <1>5, <1>10
  <2>6. HostPart(z, more, <<>>, uri)
    BY <1>5, <1>8, <2>1, <2>2, <2>3, <2>4, <2>5 DEF HostPart, ValueStates
  <2> QED
    BY <1>4, <1>10, <2>5, <2>6 DEF z
<1> QED
  BY <1>9, <1>10

Together(s, t, u) == (s \o t) \o u = s \o (t \o u)

LEMMA Associates ==
  ASSUME NEW s \in Seq(Byte), NEW t \in Seq(Byte), NEW u \in Seq(Byte)
  PROVE  Together(s, t, u)
  BY ConcatAssociative DEF Together

LEMMA NewLineStep ==
  ASSUME ParserAssumption, NEW x, NEW y, NEW lines, NEW uri, NEW p \in Seq(Byte), NEW line, NEW more,
         HeadGiven(x, y, "NEW_LINE", lines, uri), HeadParsed(x, lines, p, uri),
         x.HTTP_header = "CR_FIELD_VALUE", ~NewLine(y).error,
         line = WithoutCR(p), more = Append(lines, line)
  PROVE  HeadParsed(NewLine(y), more, <<>>, uri)
<1> DEFINE z == NewLine(y)
           n == Len(lines)
<1>1. /\ SameHead(x, y) /\ y.HTTP_header = "NEW_LINE" /\ x \in Ctx /\ y \in Ctx
      /\ lines \in Seq(Seq(Byte)) /\ lines # <<>> /\ uri \in Seq(Byte)
  BY DEF HeadGiven
<1>2. /\ LineAt("CR_FIELD_VALUE", p) /\ NameOf(p) # <<>> /\ x.HTTP_header \in ValueStates
      /\ Matched(x, p)
  BY DEF HeadParsed, LineAt, ValueStates
<1>3. LineOver(lines, p, line, more)
  BY <1>1, <1>2, LineIsOver
<1>4. /\ Is(y, "host") <=> Named(line, "host")
      /\ Is(y, "host") => ~x.found.host /\ x.value.host = ValueOf(line)
      /\ ~Is(y, "host") /\ ~x.found.host => x.value.host = <<>>
      /\ HostPart(z, more, <<>>, uri)
  BY <1>3, HostOver
<1>5. /\ Only(HeaderFields \ {"HTTP_header"}, y, z)
      /\ z.found.connection = y.found.connection /\ z.connection_avoid = FALSE
      /\ z.match.host = parser_reset(y.match.host)
      /\ ~y.found.connection => z.match.connection = parser_reset(y.match.connection)
      /\ z.full_message =
           (IF Taken(y) THEN y.full_message \o y.uri_host ELSE y.full_message) \o <<"CR", "LF">>
  BY <1>1, NewLineEffect
<1>6. /\ (Named(line, "host") <=> Named(p, "host"))
      /\ (Named(line, "connection") <=> Named(p, "connection"))
      /\ (Named(p, "host") => ~Named(p, "connection"))
      /\ ValueSoFar("CR_FIELD_VALUE", p) = ValueOf(line) /\ NameOf(line) = NameOf(p) /\ line # <<>>
      /\ NameOf(line) \in Seq(Byte) /\ ValueOf(line) \in Seq(Byte) /\ line \in Seq(Byte)
      /\ n \in Nat \ {0}
      /\ Named(line, "connection") => NamedIn(more, "connection") = NamedIn(lines, "connection") \cup {n + 1}
      /\ ~Named(line, "connection") => NamedIn(more, "connection") = NamedIn(lines, "connection")
  BY <1>1, <1>2, <1>3, NamedHere DEF LineOver
<1> HIDE DEF z
<1>7. /\ z.HTTP_header = "NEW_LINE" /\ z.uri_has_host = x.uri_has_host /\ z.uri_host = x.uri_host
      /\ z.HTTP_start_line = x.HTTP_start_line
  BY <1>1, <1>5 DEF Only, Fields, HeaderFields, SameHead
<1>8. LineAt("NEW_LINE", <<>>)
  BY DEF LineAt, InLineStates, ValueStates, CrStates, EndsCR, First
<1>9. NameSoFar("NEW_LINE", <<>>) = <<>> /\ "NEW_LINE" \notin ValueStates
  BY DEF NameSoFar, ValueStates, CrStates
<1>10. y.found = x.found /\ y.match = x.match /\ x.found.connection \in BOOLEAN
  BY <1>1 DEF SameHead, Ctx, Names
<1>11. Matched(z, <<>>)
  <2>1. /\ x.match.host \in Matcher /\ x.match.connection \in Matcher
        /\ HeaderName.host \in Seq(Byte) /\ HeaderName.connection \in Seq(Byte)
    BY <1>1 DEF Ctx, Names, ParserAssumption
  <2>2. /\ MatchParsed(parser_reset(x.match.host), HeaderName.host, <<>>)
        /\ MatchParsed(parser_reset(x.match.connection), HeaderName.connection, <<>>)
    BY <2>1, MatchStart
  <2> QED
    BY <1>5, <1>7, <1>9, <1>10, <2>2 DEF Matched
<1>12. /\ x.connection_avoid <=> NamedIn(lines, "connection") = {} /\ Named(line, "connection")
       /\ x.found.connection <=> NamedIn(lines, "connection") # {} \/ Named(line, "connection")
  BY <1>2, <1>6 DEF HeadParsed, ConnectionPart
<1>13. ConnectionPart(z, more, <<>>)
  BY <1>5, <1>6, <1>7, <1>9, <1>10, <1>12 DEF ConnectionPart
<1>14. UriPart(z, uri) /\ UriPart(x, uri)
  BY <1>7 DEF HeadParsed, UriPart
<1>15. ASSUME z.HTTP_start_line = "VERSION" PROVE ForwardPart(z, more, <<>>, uri)
  <2> DEFINE f == Forward(lines, uri)
             e == <<"CR", "LF">>
             given == ValueOf(line)
             colon == NameOf(line) \o <<"COLON">>
             kept == ~(x.uri_has_host /\ Is(x, "host") /\ ~x.found.host)
             v == IF uri # <<>> /\ Named(line, "host") /\ given # <<>> THEN uri ELSE given
  <2>1. /\ EndsLine(f)
        /\ x.connection_avoid => f = x.full_message \o e
        /\ ~x.connection_avoid => x.full_message = f \o Partial(x, p)
    BY <1>7, <1>15 DEF HeadParsed, ForwardPart
  <2>2. Partial(x, p) = colon \o (IF kept THEN given ELSE <<>>)
    BY <1>2, <1>6 DEF Partial, NameSoFar, ValueStates
  <2>3. Partial(z, <<>>) = <<>>
    BY <1>7, <1>9 DEF Partial
  <2>4. Forward(more, uri) = f \o NewForward(lines, uri, line)
    BY <1>1, <1>6, ForwardNext
  <2>5. /\ f \in Seq(Byte) /\ colon \in Seq(Byte) /\ e \in Seq(Byte) /\ given \in Seq(Byte)
        /\ v \in Seq(Byte)
    <3>1. <<"COLON">> \in Seq(Byte) /\ e \in Seq(Byte)
      BY DEF ParserAssumption, Marks
    <3>2. colon \in Seq(Byte)
      BY <1>6, <3>1, ConcatProperties
    <3> QED
      BY <1>1, <1>6, <2>1, <3>1, <3>2, EndsLineType
  <2>6. /\ Is(y, "host") <=> Is(x, "host")
        /\ Taken(y) <=> x.uri_has_host /\ ~x.found.host /\ x.value.host # <<>>
        /\ y.full_message = x.full_message /\ y.uri_host = x.uri_host
    BY <1>1 DEF Is, Taken, SameHead
  <2>7. (x.uri_has_host <=> uri # <<>>) /\ (x.uri_has_host => x.uri_host = uri)
    BY <1>14 DEF UriPart
  <2>8. CASE x.connection_avoid
    <3>1. ~Named(line, "host") /\ NewForward(lines, uri, line) = <<>>
      BY <1>6, <1>12, <2>8 DEF NewForward
    <3>2. ~Taken(y)
      BY <1>4, <2>6, <3>1
    <3>3. z.full_message = f
      BY <1>5, <2>1, <2>6, <2>8, <3>2
    <3>4. Forward(more, uri) = f /\ f \o <<>> = f
      <4>1. f \o <<>> = f
        BY <2>5, ConcatEmptySeq
      <4> QED
        BY <2>4, <3>1, <4>1
    <3>5. z.full_message = Forward(more, uri) \o Partial(z, <<>>) /\ EndsLine(Forward(more, uri))
      BY <2>1, <2>3, <3>3, <3>4
    <3> QED
      BY <1>5, <3>5 DEF ForwardPart
  <2>9. CASE ~x.connection_avoid
    <3>1. NewForward(lines, uri, line) = (colon \o v) \o e
      BY <1>6, <1>12, <2>9 DEF NewForward
    <3>2. x.full_message = f \o (colon \o (IF kept THEN given ELSE <<>>))
      BY <2>1, <2>2, <2>9
    <3>3. colon \o <<>> = colon
      BY <2>5, ConcatEmptySeq
    <3>4. ASSUME Taken(y) PROVE z.full_message = (f \o (colon \o v)) \o e
      <4>1. Is(x, "host") /\ given # <<>> /\ uri # <<>> /\ ~kept /\ Named(line, "host")
        BY <1>4, <2>6, <2>7, <3>4
      <4>2. v = uri /\ x.full_message = f \o colon
        BY <3>2, <3>3, <4>1
      <4>3. z.full_message = ((f \o colon) \o v) \o e
        BY <1>5, <2>6, <2>7, <3>4, <4>1, <4>2
      <4>4. (f \o colon) \o v = f \o (colon \o v)
        <5> HIDE DEF f, colon, v
        <5>1. Together(f, colon, v)
          BY <2>5, Associates
        <5> QED
          BY <5>1 DEF Together
      <4> QED
        BY <4>3, <4>4
    <3>5. ASSUME ~Taken(y) PROVE z.full_message = (f \o (colon \o v)) \o e
      <4>1. v = given /\ (~kept => given = <<>>)
        BY <1>4, <2>6, <2>7, <3>5
      <4>2. x.full_message = f \o (colon \o v)
        BY <3>2, <4>1
      <4> QED
        BY <1>5, <2>6, <3>5, <4>2
    <3> HIDE DEF f, colon, v, e
    <3>6. z.full_message = (f \o (colon \o v)) \o e
      BY <3>4, <3>5
    <3>7. f \o (colon \o v) \in Seq(Byte) /\ colon \o v \in Seq(Byte)
      <4>1. colon \o v \in Seq(Byte)
        BY <2>5, ConcatProperties
      <4> QED
        BY <2>5, <4>1, ConcatProperties
    <3>8. (f \o (colon \o v)) \o e = f \o ((colon \o v) \o e)
      <4> DEFINE u == colon \o v
      <4>1. u \in Seq(Byte)
        BY <3>7
      <4> HIDE DEF u
      <4>2. Together(f, u, e)
        BY <2>5, <4>1, Associates
      <4> QED
        BY <4>2 DEF Together, u
    <3>9. Forward(more, uri) = (f \o (colon \o v)) \o e
      BY <2>4, <3>1, <3>8
    <3>10. EndsLine(Forward(more, uri))
      BY <3>7, <3>9 DEF EndsLine, e
    <3>11. (f \o (colon \o v)) \o e \in Seq(Byte)
      BY <2>5, <3>7, ConcatProperties
    <3>12. z.full_message = Forward(more, uri) \o Partial(z, <<>>)
      <4>1. Forward(more, uri) \in Seq(Byte)
        BY <3>9, <3>11
      <4>2. Forward(more, uri) \o <<>> = Forward(more, uri)
        BY <4>1, ConcatEmptySeq
      <4> QED
        BY <2>3, <3>6, <3>9, <4>2
    <3> QED
      BY <1>5, <3>10, <3>12 DEF ForwardPart
  <2> QED
    BY <2>8, <2>9
<1>16. HeadParsed(z, more, <<>>, uri)
  BY <1>4, <1>7, <1>8, <1>11, <1>13, <1>14, <1>15 DEF HeadParsed
<1> QED
  BY <1>16 DEF z

LEMMA BlankNamed ==
  ASSUME NEW lines \in Seq(Seq(Byte)), lines # <<>>
  PROVE  /\ Len(lines) \in Nat \ {0} /\ NamedIn(lines, "host") \subseteq 2 .. Len(lines)
         /\ \A k \in 1 .. Len(lines) : Append(lines, <<>>)[k] = lines[k]
         /\ NamedIn(Append(lines, <<>>), "host") = NamedIn(lines, "host")
<1>1. ASSUME NEW line \in Seq(Byte), line = <<>>
      PROVE  /\ Len(lines) \in Nat \ {0} /\ NamedIn(lines, "host") \subseteq 2 .. Len(lines)
             /\ \A k \in 1 .. Len(lines) : Append(lines, line)[k] = lines[k]
             /\ NamedIn(Append(lines, line), "host") = NamedIn(lines, "host")
  <2>1. \A h : /\ Len(lines) \in Nat \ {0} /\ NamedIn(lines, h) \subseteq 2 .. Len(lines)
               /\ IsFiniteSet(NamedIn(lines, h))
               /\ Append(lines, line)[Len(lines) + 1] = line
               /\ Len(Append(lines, line)) = Len(lines) + 1
               /\ \A k \in 1 .. Len(lines) : Append(lines, line)[k] = lines[k]
               /\ NamedIn(Append(lines, line), h) = NamedIn(lines, h) \cup
                    (IF line # <<>> /\ Named(line, h) THEN {Len(lines) + 1} ELSE {})
    BY NamedNext
  <2> QED
    BY <1>1, <2>1
<1>2. <<>> \in Seq(Byte)
  OBVIOUS
<1> QED
  BY <1>1, <1>2

\* The blank line that ends the header.
LEMMA FinStep ==
  ASSUME ParserAssumption, NEW x, NEW y, NEW lines, NEW uri,
         HeadGiven(x, y, "FIN", lines, uri), HeadParsed(x, lines, <<"CR">>, uri),
         x.HTTP_header = "CR_FIN"
  PROVE  LET z == Written(y, <<"CR", "LF">>)
             more == Append(lines, <<>>)
         IN  /\ HeadOver(z, more, uri)
             /\ z.HTTP_start_line = "VERSION" => z.full_message = Forward(more, uri)
<1> DEFINE z == Written(y, <<"CR", "LF">>)
           more == Append(lines, <<>>)
           p == <<"CR">>
<1>1. /\ SameHead(x, y) /\ y.HTTP_header = "FIN" /\ x \in Ctx /\ y \in Ctx
      /\ lines \in Seq(Seq(Byte)) /\ lines # <<>> /\ uri \in Seq(Byte)
  BY DEF HeadGiven
<1>2. /\ Only({"full_message"}, y, z) /\ z.full_message = x.full_message \o <<"CR", "LF">>
  BY <1>1, OnlyWritten DEF Written, Ctx, SameHead
<1>3. <<>> \in Seq(Byte)
  OBVIOUS
<1>4. /\ Len(lines) \in Nat \ {0} /\ NamedIn(lines, "host") \subseteq 2 .. Len(lines)
      /\ \A k \in 1 .. Len(lines) : more[k] = lines[k]
      /\ NamedIn(more, "host") = NamedIn(lines, "host")
  BY <1>1, BlankNamed
<1>5. Forward(more, uri) = Forward(lines, uri) \o <<"CR", "LF">>
  BY <1>1, <1>3, ForwardNext DEF NewForward
<1> HIDE DEF z, more
<1>6. /\ z.HTTP_header = "FIN" /\ z.value = x.value /\ z.found = x.found
      /\ z.host_count = x.host_count /\ z.HTTP_start_line = x.HTTP_start_line
  BY <1>1, <1>2 DEF Only, Fields, SameHead
<1>7. x.HTTP_header \notin ValueStates /\ x.HTTP_header \in CrStates /\ "FIN" \notin ValueStates
  BY DEF ValueStates, CrStates
<1>8. HostPart(z, more, <<>>, uri)
  <2>1. \A k \in NamedIn(lines, "host") : more[k] = lines[k]
    BY <1>4
  <2> QED
    BY <1>4, <1>6, <1>7, <2>1 DEF HeadParsed, HostPart
<1>9. ASSUME z.HTTP_start_line = "VERSION" PROVE z.full_message = Forward(more, uri)
  <2> DEFINE f == Forward(lines, uri)
  <2>1. ~x.connection_avoid
    BY <1>7 DEF HeadParsed, ConnectionPart
  <2>2. EndsLine(f) /\ x.full_message = f \o Partial(x, p)
    BY <1>6, <1>9, <2>1 DEF HeadParsed, ForwardPart
  <2>3. Partial(x, p) = <<>>
    <3>1. WithoutCR(p) = <<>>
      BY DEF WithoutCR
    <3> QED
      BY <1>7, <3>1 DEF Partial, NameSoFar
  <2>4. f \in Seq(Byte)
    BY <2>2, EndsLineType
  <2> HIDE DEF f
  <2>5. x.full_message = f
    BY <2>2, <2>3, <2>4, ConcatEmptySeq
  <2> QED
    BY <1>2, <1>5, <2>5 DEF f
<1>10. HeadOver(z, more, uri)
  BY <1>6, <1>8 DEF HeadOver
<1> QED
  BY <1>9, <1>10 DEF z, more

\* A line whose name has a carriage return is not mended by what follows.
LEMMA BrokenEnds ==
  ASSUME ParserAssumption, NEW p \in Seq(Byte), Broken(p)
  PROVE  /\ \A c \in Byte : Broken(Append(p, c))
         /\ EndsCR(p) => BrokenName(WithoutCR(p)) /\ WithoutCR(p) # <<>>
<1>1. BrokenName(p)
  BY DEF Broken
<1>2. ASSUME EndsCR(p) PROVE BrokenName(WithoutCR(p)) /\ WithoutCR(p) # <<>>
  <2> DEFINE f == WithoutCR(p)
  <2>1. f \in Seq(Byte) /\ p = Append(f, "CR")
    <3>1. p[Len(p)] = "CR" /\ Len(p) > 0
      BY <1>2 DEF EndsCR
    <3>2. p # <<>>
      BY <3>1
    <3> QED
      BY <3>1, <3>2, LastAdded, SubSeqProperties DEF WithoutCR
  <2> HIDE DEF f
  <2>2. Broken(Append(f, "CR")) <=> BrokenName(f)
    BY <2>1, BrokenNext DEF ParserAssumption, Marks
  <2>3. BrokenName(f)
    BY <2>1, <2>2
  <2>4. f # <<>>
    <3>1. First(<<>>, "COLON") = 0 /\ First(<<>>, "CR") = 0
      BY DEF First
    <3>2. ~BrokenName(<<>>)
      BY <3>1 DEF BrokenName, NameOf, Before
    <3> QED
      BY <2>3, <3>2
  <2> QED
    BY <2>3, <2>4 DEF f
<1>3. ASSUME NEW c \in Byte PROVE Broken(Append(p, c))
  BY <1>1, BrokenNext
<1> QED
  BY <1>2, <1>3

\* A byte of the header, in a line (HeadGoesOn) or at its end (HeadTurns).
HeadGoesOn(z, lines, more, uri) == Broken(more) \/ HeadParsed(z, lines, more, uri)

HeadTurns(z, lines, p, uri) ==
  LET more == Append(lines, WithoutCR(p))
  IN  IF p = <<"CR">>
      THEN /\ HeadOver(z, more, uri)
           /\ z.HTTP_start_line = "VERSION" => z.full_message = Forward(more, uri)
      ELSE HeadParsed(z, more, <<>>, uri)

LEMMA HeadStep ==
  ASSUME ParserAssumption, NEW x \in Ctx, NEW lines \in Seq(Seq(Byte)), lines # <<>>,
         NEW uri \in Seq(Byte), NEW p \in Seq(Byte), NEW c \in Byte,
         HeadParsed(x, lines, p, uri), ~http_header(x, c).error
  PROVE  IF EndsCR(p) /\ c = "LF" THEN HeadTurns(http_header(x, c), lines, p, uri)
         ELSE HeadGoesOn(http_header(x, c), lines, Append(p, c), uri)
<1> DEFINE q == x.HTTP_header
           t == parser_feed(HTTP_header[q], c)
           y == [x EXCEPT !.HTTP_header = t.dest]
           z == http_header(x, c)
           more == Append(p, c)
<1>1. /\ y \in Ctx /\ y.HTTP_header = t.dest /\ Only({"HTTP_header"}, x, y)
      /\ t.acts # "error"
      /\ t.acts = "byte_fn" => z = NameByte(y, c)
      /\ t.acts = "wait" => z = y
      /\ t.acts = "wait_colon" => z = Colon(y)
      /\ t.acts \in ValueActs => z = ValueBytes(y, Added(t.acts, c))
      /\ t.acts = "byte_nl" => z = NewLine(y)
      /\ t.acts = "fin" => z = Written(y, <<"CR", "LF">>)
  BY HeaderEffect
<1>2. LineAt(q, p)
  BY DEF HeadParsed
<1>3. HeaderMove(q, c, t)
  BY HeaderMoves
<1>4. more \in Seq(Byte)
  BY AppendProperties
<1>5. HeadGiven(x, y, t.dest, lines, uri)
  <2>1. SameHead(x, y)
    BY <1>1, HeadSame DEF HeadMembers
  <2> QED
    BY <1>1, <2>1 DEF HeadGiven
<1>6. LineStepped(q, p, c, t, more) \/ Broken(more) \/ (EndsCR(p) /\ c = "LF")
  BY <1>1, <1>2, LineStep
<1>7. \A d, a : To(d, a).dest = d /\ To(d, a).acts = a
  BY DEF To
<1> HIDE DEF y, z, t, more
<1>8. CASE EndsCR(p) /\ c = "LF"
  <2>1. q \in CrStates
    BY <1>2, <1>8 DEF LineAt
  <2>2. q # "CR_FIELD_NAME"
    BY <1>1, <1>3, <1>8 DEF HeaderMove
  <2>3. CASE q = "CR_FIN"
    <3>1. t.dest = "FIN" /\ t.acts = "fin"
      BY <1>3, <1>7, <1>8, <2>3 DEF HeaderMove
    <3>2. p = <<"CR">>
      BY <1>2, <2>3 DEF LineAt
    <3>3. WithoutCR(p) = <<>>
      BY <3>2 DEF WithoutCR
    <3>4. z = Written(y, <<"CR", "LF">>)
      BY <1>1, <3>1
    <3>5. /\ HeadOver(z, Append(lines, <<>>), uri)
          /\ z.HTTP_start_line = "VERSION" => z.full_message = Forward(Append(lines, <<>>), uri)
      BY <1>5, <2>3, <3>1, <3>2, <3>4, FinStep
    <3>6. HeadTurns(z, lines, p, uri)
      BY <3>2, <3>3, <3>5 DEF HeadTurns
    <3> QED
      BY <1>8, <3>6 DEF z
  <2>4. CASE q = "CR_FIELD_VALUE"
    <3>1. t.dest = "NEW_LINE" /\ t.acts = "byte_nl"
      BY <1>3, <1>7, <1>8, <2>4 DEF HeaderMove
    <3>2. z = NewLine(y)
      BY <1>1, <3>1
    <3>3. HeadParsed(z, Append(lines, WithoutCR(p)), <<>>, uri)
      <4>1. ~z.error
        BY DEF z
      <4>2. PICK line : line = WithoutCR(p)
        OBVIOUS
      <4>3. PICK after : after = Append(lines, line)
        OBVIOUS
      <4>4. HeadGiven(x, y, "NEW_LINE", lines, uri) /\ x.HTTP_header = "CR_FIELD_VALUE"
        BY <1>5, <2>4, <3>1
      <4>5. ~NewLine(y).error
        BY <3>2, <4>1
      <4>6. HeadParsed(NewLine(y), after, <<>>, uri)
        BY <4>2, <4>3, <4>4, <4>5, NewLineStep
      <4> QED
        BY <3>2, <4>2, <4>3, <4>6
    <3>4. p # <<"CR">>
      <4>1. First(<<"CR">>, "COLON") = 0
        <5>1. {i \in DOMAIN <<"CR">> : <<"CR">>[i] = "COLON"} = {}
          OBVIOUS
        <5> QED
          BY <5>1 DEF First
      <4>2. First(p, "COLON") # 0
        BY <1>2, <2>4 DEF LineAt, ValueStates
      <4> QED
        BY <4>1, <4>2
    <3>5. HeadTurns(z, lines, p, uri)
      BY <3>3, <3>4 DEF HeadTurns
    <3> QED
      BY <1>8, <3>5 DEF z
  <2> QED
    BY <2>1, <2>2, <2>3, <2>4 DEF CrStates
<1>9. CASE ~(EndsCR(p) /\ c = "LF") /\ ~Broken(more)
  <2>1. LineStepped(q, p, c, t, more)
    BY <1>6, <1>9
  <2>2. t.acts \in {"byte_fn", "wait", "wait_colon"} \cup ValueActs
    BY <2>1 DEF LineStepped
  <2>3. ASSUME t.acts = "wait" PROVE HeadParsed(z, lines, more, uri)
    <3>1. HeadParsed(y, lines, more, uri)
      BY <1>4, <1>5, <2>1, <2>3, WaitStep
    <3> QED
      BY <1>1, <2>3, <3>1
  <2>4. ASSUME t.acts = "byte_fn" PROVE HeadParsed(z, lines, more, uri)
    <3>1. HeadParsed(NameByte(y, c), lines, more, uri)
      BY <1>4, <1>5, <2>1, <2>4, NameStep
    <3> QED
      BY <1>1, <2>4, <3>1
  <2>5. ASSUME t.acts = "wait_colon" PROVE HeadParsed(z, lines, more, uri)
    <3>1. HeadParsed(Colon(y), lines, more, uri)
      BY <1>4, <1>5, <2>1, <2>5, ColonStep
    <3> QED
      BY <1>1, <2>5, <3>1
  <2>6. ASSUME t.acts \in ValueActs PROVE HeadParsed(z, lines, more, uri)
    <3>1. HeadParsed(ValueBytes(y, Added(t.acts, c)), lines, more, uri)
      BY <1>4, <1>5, <2>1, <2>6, ValueStep
    <3> QED
      BY <1>1, <2>6, <3>1
  <2>7. HeadParsed(z, lines, more, uri)
    BY <2>2, <2>3, <2>4, <2>5, <2>6
  <2> QED
    BY <1>9, <2>7 DEF HeadGoesOn, z, more
<1>10. CASE ~(EndsCR(p) /\ c = "LF") /\ Broken(more)
  BY <1>10 DEF HeadGoesOn, more
<1> QED
  BY <1>8, <1>9, <1>10

-----------------------------------------------------------------------------
(* The header, in the run of the parser *)

LEMMA PastHeadStep ==
  ASSUME TypeOK, MasterInv, PastStart, PastHead, Parse PROVE PastHead'
<1> DEFINE c == Head(pending)
           q == ctx.HTTP_master
           t == parser_feed(HTTP_master[q], c)
           y == [ctx EXCEPT !.HTTP_master = t.dest]
<1>1. /\ c \in Byte /\ received' = Append(received, c) /\ ctx' = http_master(ctx, c)
      /\ side' = side /\ ctx \in Ctx /\ received \in Seq(Byte) /\ side \in {"request", "response"}
      /\ MasterInv'
  BY MasterStep DEF TypeOK
<1> HIDE DEF c
<1>2. /\ Blanks' = Blanks \cup (IF BlankNext /\ c = "LF" THEN {Len(received) + 1} ELSE {})
      /\ HeaderEnd' = IF Blanks = {} /\ LastCR /\ c = "LF" THEN Len(received) + 1 ELSE HeaderEnd
      /\ Len(received) \in Nat
  BY <1>1, EndsNext, HeaderEndNext
<1>3. SUFFICES ASSUME side = "request", Blanks' # {}
               PROVE  ctx'.HTTP_master \notin StartStates \cup HeadStates
  BY <1>1 DEF PastHead
<1>4. CASE Blanks = {}
  <2>1. HeaderEnd' = Len(received) + 1 /\ \A b \in Blanks' : b = Len(received) + 1
    BY <1>2, <1>3, <1>4 DEF BlankNext
  <2>2. ~BlankInBody'
    BY <1>2, <2>1 DEF BlankInBody
  <2>3. ctx'.HTTP_master \in BodyStates
    BY <1>1, <1>3, <2>2 DEF MasterInv, IsAt
  <2> QED
    BY <2>3 DEF BodyStates, StartStates, HeadStates
<1>5. CASE Blanks # {}
  <2>1. q \in DOMAIN HTTP_master \ (StartStates \cup HeadStates)
    BY <1>1, <1>3, <1>5 DEF PastHead, Ctx
  <2>2. t.dest \notin StartStates \cup HeadStates
    BY <2>1, MasterPast
  <2>3. t.acts # "fin" => ctx'.HTTP_master = t.dest
    BY <1>1, MasterEffect, ParserAssumption
  <2>4. t.acts = "fin" => ctx'.HTTP_master = t.dest
    <3>1. /\ y \in Ctx /\ y.HTTP_master = t.dest
          /\ ctx.error => http_master(ctx, c) = y
          /\ ~ctx.error /\ t.acts = "fin" => http_master(ctx, c) =
               IF side = "request" THEN [y EXCEPT !.has_finished = TRUE]
                                   ELSE [y EXCEPT !.HTTP_master = "START_LINE"]
      BY <1>1, MasterLeaves, ParserAssumption
    <3> HIDE DEF y, t
    <3>2. [y EXCEPT !.has_finished = TRUE].HTTP_master = t.dest
      BY <3>1 DEF Ctx
    <3> QED
      BY <1>1, <1>3, <3>1, <3>2
  <2> QED
    BY <2>2, <2>3, <2>4
<1> QED
  BY <1>4, <1>5

\* What is said of the header is left alone by what changes other members.
LEMMA HeaderSame ==
  ASSUME NEW x, NEW y, SameHead(x, y), y.HTTP_header = x.HTTP_header, NEW lines, NEW p, NEW uri
  PROVE  HeadParsed(x, lines, p, uri) => HeadParsed(y, lines, p, uri)
<1>1. Is(y, "host") <=> Is(x, "host")
  BY DEF Is, SameHead
<1>2. Partial(y, p) = Partial(x, p)
  BY <1>1 DEF Partial, SameHead
<1>3. Matched(x, p) => Matched(y, p)
  BY DEF Matched, SameHead
<1>4. HostPart(x, lines, p, uri) => HostPart(y, lines, p, uri)
  BY <1>1 DEF HostPart, SameHead
<1>5. (ConnectionPart(x, lines, p) => ConnectionPart(y, lines, p)) /\ (UriPart(x, uri) => UriPart(y, uri))
  BY DEF ConnectionPart, UriPart, SameHead
<1>6. ForwardPart(x, lines, p, uri) => ForwardPart(y, lines, p, uri)
  BY <1>2 DEF ForwardPart, SameHead
<1> QED
  BY <1>3, <1>4, <1>5, <1>6 DEF HeadParsed, SameHead

LEMMA HostSame ==
  ASSUME NEW F, NEW x, NEW y, Only(F, x, y),
         F \cap {"HTTP_header", "match", "value", "found", "host_count"} = {}, NEW lines, NEW uri
  PROVE  HeadOver(x, lines, uri) => HeadOver(y, lines, uri)
<1>1. /\ y.HTTP_header = x.HTTP_header /\ y.match = x.match /\ y.value = x.value
      /\ y.found = x.found /\ y.host_count = x.host_count
  BY DEF Only, Fields
<1> QED
  BY <1>1 DEF HeadOver, HostPart, Is

\* A byte of the body.
LEMMA BodyByte ==
  ASSUME ParserAssumption, side = "request", NEW x \in Ctx, NEW c \in Byte, ~x.error,
         x.HTTP_master \notin StartStates \cup HeadStates
  PROVE  /\ Only({"HTTP_master", "full_message", "has_finished", "message"}, x, http_master(x, c))
         /\ x.HTTP_master \in BodyStates /\ ~(x.HTTP_master = "DATA_CR_FIN" /\ c = "LF") =>
              http_master(x, c).full_message = Append(x.full_message, c)
<1> DEFINE t == parser_feed(HTTP_master[x.HTTP_master], c)
           y == [x EXCEPT !.HTTP_master = t.dest]
           z == http_master(x, c)
<1>1. /\ t.acts \notin {"start_line", "header"}
      /\ x.HTTP_master \in BodyStates /\ ~(x.HTTP_master = "DATA_CR_FIN" /\ c = "LF") =>
           t.acts = "data"
  <2>1. x.HTTP_master \in DOMAIN HTTP_master \ (StartStates \cup HeadStates)
    BY DEF Ctx
  <2> QED
    BY <2>1, MasterPast
<1>2. /\ y \in Ctx /\ Only({"HTTP_master"}, x, y)
      /\ t.acts = "data" => z = DataByte(y, c)
      /\ t.acts \notin {"start_line", "header", "data", "fin"} => z = y
      /\ t.acts = "fin" => z = [y EXCEPT !.has_finished = TRUE]
  BY MasterLeaves
<1> HIDE DEF t, y, z
<1>3. DOMAIN y = Fields
  BY <1>2, CtxFields
<1>4. Only({"full_message", "has_finished", "message"}, y, DataByte(y, c))
  BY <1>3 DEF Only, Fields, DataByte, Written
<1>5. Only({"has_finished"}, y, [y EXCEPT !.has_finished = TRUE])
  BY <1>3 DEF Only, Fields
<1>6. Only({"full_message", "has_finished", "message"}, y, z)
  BY <1>1, <1>2, <1>4, <1>5 DEF Only
<1>7. Only({"HTTP_master", "full_message", "has_finished", "message"}, x, z)
  BY <1>2, <1>6 DEF Only
<1>8. DataByte(y, c).full_message = Append(y.full_message, c)
  <2> DEFINE w == Written(y, <<c>>)
  <2>1. w \in Ctx /\ w.full_message = Append(y.full_message, c)
    BY <1>2, WrittenByte
  <2>2. DataByte(y, c) = [w EXCEPT !.has_finished = TRUE, !.message = Append(@, c)]
    BY DEF DataByte
  <2> HIDE DEF w
  <2> QED
    BY <2>1, <2>2, CtxFields DEF Fields
<1>9. y.full_message = x.full_message
  BY <1>2 DEF Only, Fields
<1> QED
  BY <1>1, <1>2, <1>7, <1>8, <1>9 DEF z

\* The line begun, and what its end is for the message.
LEMMA LineBegun ==
  ASSUME received \in Seq(Byte), Blanks = {}, LineEnds # {}
  PROVE  /\ Body \in Seq(Byte)
         /\ EndsCR(Body) <=> LastCR
         /\ LastCR => (Body = <<"CR">> <=> BlankNext)
<1> DEFINE n == Len(received)
           h == HeaderEnd
<1>1. n \in Nat /\ h \in 0 .. n /\ h \in LineEnds /\ \A i \in LineEnds : i <= h
  BY HeaderEndIs
<1>2. LineEnds = Ends
  BY DEF LineEnds
<1>3. /\ Body \in Seq(Byte) /\ Len(Body) = n - h
      /\ \A i \in 1 .. n - h : Body[i] = received[h + i]
  <2>1. Body = SubSeq(received, h + 1, n) /\ h + 1 \in Int /\ n \in Int
    BY <1>1 DEF Body
  <2>2. \A i \in h + 1 .. n : received[i] \in Byte
    BY <1>1
  <2>3. n - (h + 1) + 1 = n - h /\ (h + 1 > n => n - h = 0)
    BY <1>1
  <2> HIDE DEF n, h
  <2>4. /\ Body \in Seq(Byte) /\ Len(Body) = IF h + 1 <= n THEN n - (h + 1) + 1 ELSE 0
        /\ \A i \in 1 .. n - (h + 1) + 1 : Body[i] = received[(h + 1) + i - 1]
    BY <2>1, <2>2, SubSeqProperties
  <2>5. ASSUME NEW i \in 1 .. n - h PROVE Body[i] = received[h + i]
    <3>1. i \in 1 .. n - (h + 1) + 1 /\ (h + 1) + i - 1 = h + i
      BY <1>1, <2>3
    <3> QED
      BY <2>4, <3>1
  <2>6. Len(Body) = n - h
    BY <1>1, <2>3, <2>4
  <2> QED
    BY <2>4, <2>5, <2>6
<1> HIDE DEF h, n
<1>4. EndsCR(Body) <=> LastCR
  <2>1. CASE h = n
    <3>1. received[n] = "LF"
      BY <1>1, <1>2, <2>1 DEF Ends
    <3> QED
      BY <1>1, <1>3, <2>1, <3>1 DEF EndsCR, LastCR, n
  <2>2. CASE h # n
    <3>1. n - h \in 1 .. n - h /\ h + (n - h) = n /\ n - h > 0 /\ n > 0
      BY <1>1, <2>2
    <3>2. Body[n - h] = received[n]
      BY <1>3, <3>1
    <3> QED
      BY <1>3, <3>1, <3>2 DEF EndsCR, LastCR, n
  <2> QED
    BY <2>1, <2>2
<1>5. ASSUME LastCR PROVE Body = <<"CR">> <=> BlankNext
  <2>1. received[n] = "CR" /\ h # n /\ Len(Body) > 0 /\ Body[Len(Body)] = "CR"
    <3>1. received[n] = "CR"
      BY <1>5 DEF LastCR, n
    <3>2. h # n
      BY <1>1, <1>2, <3>1 DEF Ends
    <3> QED
      BY <1>4, <1>5, <3>1, <3>2 DEF EndsCR
  <2>2. ASSUME Body = <<"CR">> PROVE BlankNext
    <3>1. Len(Body) = 1
      BY <2>2
    <3>2. n - 1 = h
      <4>1. n - h = 1
        BY <1>3, <3>1
      <4> QED
        BY <1>1, <4>1
    <3> QED
      BY <1>1, <1>2, <1>5, <3>2 DEF BlankNext, n
  <2>3. ASSUME BlankNext PROVE Body = <<"CR">>
    <3>1. n - 1 \in LineEnds
      BY <1>2, <2>3 DEF BlankNext, n
    <3>2. n - 1 <= h
      BY <1>1, <3>1
    <3>3. n - h = 1
      BY <1>1, <2>1, <3>2
    <3> DEFINE b == Body
    <3>4. b \in Seq(Byte) /\ Len(b) = 1 /\ b[1] = "CR"
      BY <1>3, <2>1, <3>3
    <3> HIDE DEF b
    <3>5. b = <<"CR">>
      BY <3>4
    <3> QED
      BY <3>5 DEF b
  <2> QED
    BY <2>2, <2>3
<1> QED
  BY <1>3, <1>4, <1>5

\* A line broken stays so, and is not mended by another one.
LEMMA BrokenStays ==
  ASSUME NEW lines \in Seq(Seq(Byte)), lines # <<>>, NEW line \in Seq(Byte),
         SomeBroken(lines) \/ (line # <<>> /\ BrokenName(line))
  PROVE  SomeBroken(Append(lines, line))
<1> DEFINE n == Len(lines)
           more == Append(lines, line)
<1>1. /\ n \in Nat \ {0} /\ Len(more) = n + 1 /\ more[n + 1] = line
      /\ \A k \in 1 .. n : more[k] = lines[k]
  BY AppendProperties
<1> HIDE DEF n, more
<1>2. CASE line # <<>> /\ BrokenName(line)
  <2>1. n + 1 \in 2 .. Len(more)
    BY <1>1
  <2>2. SomeBroken(more)
    BY <1>1, <1>2, <2>1 DEF SomeBroken
  <2> QED
    BY <2>2 DEF more
<1>3. CASE SomeBroken(lines)
  <2>1. PICK k \in 2 .. n : lines[k] # <<>> /\ BrokenName(lines[k])
    BY <1>3 DEF SomeBroken, n
  <2>2. k \in 2 .. Len(more) /\ more[k] = lines[k]
    BY <1>1
  <2>3. SomeBroken(more)
    BY <2>1, <2>2 DEF SomeBroken
  <2> QED
    BY <2>3 DEF more
<1> QED
  BY <1>2, <1>3

\* The header begins as one, after the request line.
LEMMA HeadStart ==
  ASSUME ParserAssumption, NEW x \in Ctx, HeaderFresh(x), NEW line \in Seq(Byte),
         NEW uri \in Seq(Byte), UriPart(x, uri),
         x.HTTP_start_line = "VERSION" => x.full_message = line \o <<"CR", "LF">>
  PROVE  HeadParsed(x, <<line>>, <<>>, uri)
<1> DEFINE lines == <<line>>
<1>1. /\ x.HTTP_header = "NEW_LINE" /\ x.host_count = 0 /\ ~x.connection_avoid
      /\ ~x.found.host /\ ~x.found.connection /\ x.value.host = <<>>
      /\ x.match.host = NewMatcher /\ x.match.connection = NewMatcher
  BY DEF HeaderFresh, initCtx, Names, Kept
<1>2. LineAt("NEW_LINE", <<>>)
  BY DEF LineAt, InLineStates, ValueStates, CrStates, EndsCR, First
<1>3. NameSoFar("NEW_LINE", <<>>) = <<>> /\ "NEW_LINE" \notin ValueStates
  BY DEF NameSoFar, ValueStates, CrStates
<1>4. Matched(x, <<>>)
  <2>1. \A name \in Seq(Byte) : MatchParsed(NewMatcher, name, <<>>)
    BY DEF MatchParsed, StartOf, NewMatcher
  <2> QED
    BY <1>1, <1>3, <2>1 DEF Matched, ParserAssumption, Names
<1>5. \A h : NamedIn(lines, h) = {}
  BY DEF NamedIn
<1>6. Cardinality({}) = 0
  BY FS_EmptySet
<1> HIDE DEF lines
<1>7. HostPart(x, lines, <<>>, uri)
  <2>1. NamedIn(lines, "host") = {} /\ Cardinality(NamedIn(lines, "host")) = 0
    BY <1>5, <1>6
  <2> QED
    BY <1>1, <1>3, <2>1 DEF HostPart
<1>8. ConnectionPart(x, lines, <<>>)
  BY <1>1, <1>3, <1>5 DEF ConnectionPart
<1>9. line \o <<"CR", "LF">> \in Seq(Byte)
  <2>1. <<"CR", "LF">> \in Seq(Byte)
    BY DEF ParserAssumption, Marks
  <2> QED
    BY <2>1, ConcatProperties
<1>10. Forward(lines, uri) = line \o <<"CR", "LF">>
  <2> USE DEF lines
  <2> DEFINE s == line \o <<"CR", "LF">>
  <2>1. ForwardIn(lines, uri, 1) = s
    BY DEF ForwardIn
  <2>2. [k \in 1 .. Len(lines) |-> ForwardIn(lines, uri, k)] = <<s>>
    <3>1. Len(lines) = 1
      OBVIOUS
    <3> HIDE DEF lines, s
    <3> QED
      BY <2>1, <3>1
  <2> HIDE DEF s
  <2>3. FlattenSeq(<<s>>) = s
    <3>1. <<s>> \in Seq(Seq(Byte)) /\ Len(<<s>>) = 0 + 1 /\ <<s>>[1] = s
      BY <1>9 DEF s
    <3>2. Len(<<>>) = 0 /\ \A i \in 1 .. 0 : <<>>[i] = <<s>>[i]
      OBVIOUS
    <3>3. FlattenSeq(<<s>>) = IF 0 = 0 THEN <<s>>[1] ELSE FlattenSeq(<<>>) \o <<s>>[0 + 1]
      <4> DEFINE v == <<s>>
                 u == <<>>
      <4>1. Len(u) = 0 /\ Len(v) = 0 + 1 /\ \A i \in 1 .. 0 : u[i] = v[i]
        BY <3>1, <3>2
      <4> HIDE DEF u, v
      <4> PICK k \in Nat : k = 0
        OBVIOUS
      <4>2. Len(u) = k /\ Len(v) = k + 1 /\ \A i \in 1 .. k : u[i] = v[i]
        BY <4>1
      <4>3. FlattenSeq(v) = IF k = 0 THEN v[1] ELSE FlattenSeq(u) \o v[k + 1]
        BY <4>2, FlattenNext
      <4> QED
        BY <4>3 DEF u, v
    <3> QED
      BY <3>1, <3>3
  <2> QED
    BY <2>2, <2>3 DEF Forward, s
<1>11. Partial(x, <<>>) = <<>>
  BY <1>1, <1>3 DEF Partial
<1>12. x.HTTP_start_line = "VERSION" => ForwardPart(x, lines, <<>>, uri)
  <2> DEFINE s == line \o <<"CR", "LF">>
  <2>1. EndsLine(s)
    BY DEF EndsLine
  <2> HIDE DEF s
  <2>2. s \o <<>> = s
    BY <1>9, ConcatEmptySeq DEF s
  <2> QED
    BY <1>1, <1>10, <1>11, <2>1, <2>2 DEF ForwardPart, s
<1> QED
  BY <1>1, <1>2, <1>4, <1>7, <1>8, <1>12 DEF HeadParsed, lines

LEMMA UriIsRead ==
  ASSUME ParserAssumption, NEW x \in Ctx, NEW line \in Seq(Byte), RequestParsed(x, line)
  PROVE  /\ UriPart(x, UriOf(x)) /\ UriOf(x) \in Seq(Byte)
         /\ UriOf(x) = IF x.connect_method_used THEN <<>> ELSE HostIn(TargetOf(line))
<1>1. x.uri_host \in Seq(Byte) /\ x.uri_has_host \in BOOLEAN
  BY DEF Ctx
<1>2. HostIn(<<>>) = <<>>
  <2>1. First(<<>>, "SLASH") = 0
    BY DEF First
  <2>2. HostEnds(<<>>) = {}
    BY <2>1 DEF HostEnds, HostAt
  <2> QED
    BY <2>2 DEF HostIn
<1>3. CASE x.HTTP_start_line = "METHOD"
  <2>1. First(line, "SP") = 0 /\ ~x.uri_has_host
    BY <1>3 DEF RequestParsed, TargetParsed
  <2>2. TargetOf(line) = <<>>
    BY <2>1, NoTarget
  <2> QED
    BY <1>2, <2>1, <2>2 DEF UriPart, UriOf
<1>4. CASE x.HTTP_start_line = "REQUEST_TARGET"
  <2>1. First(After(line, "SP"), "SP") = 0 /\ ~x.uri_has_host
    BY <1>4 DEF RequestParsed, TargetParsed
  <2>2. TargetOf(line) = <<>>
    BY <2>1 DEF TargetOf
  <2> QED
    BY <1>2, <2>1, <2>2 DEF UriPart, UriOf
<1>5. CASE x.HTTP_start_line \notin {"METHOD", "REQUEST_TARGET"}
  <2>1. TargetRead(x, TargetOf(line))
    BY <1>5 DEF RequestParsed
  <2> QED
    BY <1>1, <2>1 DEF TargetRead, UriPart, UriOf
<1> QED
  BY <1>3, <1>4, <1>5

\* The first line ends.
LEMMA HeaderBegins ==
  ASSUME TypeOK, TypeOK', MasterInv, RequestInv, HeaderInv, Parse, LineEnds = {},
         side = "request", ~ctx'.error
  PROVE  IF LineEnds' = {} THEN HeaderFresh(ctx') ELSE HeaderPart'
<1> DEFINE c == Head(pending)
<1>1. /\ c \in Byte /\ received' = Append(received, c) /\ ctx' = http_master(ctx, c)
      /\ ctx \in Ctx /\ received \in Seq(Byte) /\ side \in {"request", "response"}
      /\ Ranked(LineEnds) /\ ctx' \in Ctx
  BY MasterStep DEF TypeOK, RequestInv
<1>2. /\ RequestParsed(ctx', Append(received, c))
      /\ Copied(ctx', Append(received, c))
      /\ Only(StartFields \cup {"HTTP_master"}, ctx, ctx')
  BY FirstLineStep
<1> HIDE DEF c
<1>3. Blanks = {} /\ Ends = {} /\ ~ctx.error
  BY <1>1, FirstLineEnds, MasterByte, ParserAssumption
<1>4. HeaderFresh(ctx')
  <2>1. HeaderFresh(ctx)
    BY <1>3 DEF HeaderInv
  <2>2. /\ ctx'.HTTP_header = ctx.HTTP_header /\ ctx'.match = ctx.match
        /\ ctx'.value = ctx.value /\ ctx'.found = ctx.found
        /\ ctx'.host_count = ctx.host_count
        /\ ctx'.connection_avoid = ctx.connection_avoid
    BY <1>2 DEF Only, Fields, StartFields
  <2> QED
    BY <2>1, <2>2 DEF HeaderFresh
<1>5. ASSUME LineEnds' # {} PROVE HeaderPart'
  <2>1. LastCR /\ c = "LF" /\ HeaderEnd = 0 /\ ~BlankNext
    <3>1. Ends' = Ends \cup (IF LastCR /\ c = "LF" THEN {Len(received) + 1} ELSE {})
      BY <1>1, EndsNext
    <3>2. LineEnds' = Ends'
      BY <1>1, <1>3, HeaderEndNext
    <3>3. HeaderEnd = 0
      BY <1>1, HeaderEndIs
    <3> QED
      BY <1>3, <1>5, <3>1, <3>2, <3>3 DEF BlankNext
  <2>2. Blanks' = {} /\ Body' = <<>>
    BY <1>1, <1>3, <2>1, EndsNext, BodyNext
  <2>3. Body = received
    <3>1. SubSeq(received, 1, Len(received)) = received
      BY <1>1, SubSeqFull
    <3> QED
      BY <2>1, <3>1 DEF Body
  <2> DEFINE line == SubSeq(received, 1, Len(received) - 1)
             e == <<"CR", "LF">>
             uri == UriOf(ctx')
  <2>4. Lines' = <<line>>
    <3>1. Lines' = Append(Lines, line)
      BY <1>1, <1>3, <2>1, <2>3, LinesNext
    <3>2. Lines \in Seq(Seq(Byte)) /\ Len(Lines) = Cardinality(LineEnds)
      BY <1>1, LinesType
    <3>3. Cardinality(LineEnds) = 0
      BY FS_EmptySet
    <3>4. Lines = <<>>
      BY <3>2, <3>3
    <3> HIDE DEF line
    <3> QED
      BY <3>1, <3>4
  <2>5. line \in Seq(Byte) /\ received = Append(line, "CR")
    BY <1>1, <2>1, LastAdded DEF LastCR
  <2> HIDE DEF line
  <2>6. Append(received, c) = line \o e
    <3>1. "CR" \in Byte /\ "LF" \in Byte
      BY ParserAssumption DEF ParserAssumption, Marks
    <3> QED
      BY <2>1, <2>5, <3>1
  <2>7. UriPart(ctx', uri) /\ uri \in Seq(Byte)
    <3>1. Append(received, c) \in Seq(Byte)
      BY <1>1
    <3> QED
      BY <1>1, <1>2, <3>1, UriIsRead, ParserAssumption
  <2>8. ctx'.HTTP_start_line = "VERSION" => ctx'.full_message = line \o e
    BY <1>2, <2>6 DEF Copied, StarIsDue, LineStates
  <2>9. HeadParsed(ctx', <<line>>, <<>>, UriOf(ctx'))
    BY <1>1, <1>4, <2>5, <2>7, <2>8, HeadStart, ParserAssumption
  <2> QED
    BY <2>2, <2>4, <2>9 DEF HeaderPart
<1> QED
  BY <1>4, <1>5

\* A byte of the header.
LEMMA HeaderGoesOn ==
  ASSUME TypeOK, TypeOK', MasterInv, RequestInv, HeaderInv, Parse, LineEnds # {}, Blanks = {},
         side = "request", ~ctx'.error
  PROVE  HeaderPart'
<1> DEFINE c == Head(pending)
           q == ctx.HTTP_master
           t == parser_feed(HTTP_master[q], c)
           y == [ctx EXCEPT !.HTTP_master = t.dest]
<1>1. /\ c \in Byte /\ received' = Append(received, c) /\ ctx' = http_master(ctx, c)
      /\ ctx \in Ctx /\ received \in Seq(Byte) /\ side \in {"request", "response"}
      /\ Ranked(LineEnds) /\ ctx' \in Ctx
  BY MasterStep DEF TypeOK, RequestInv
<1> HIDE DEF c
<1>2. ~ctx.error
  BY <1>1, MasterByte, ParserAssumption
<1>3. HeaderPart /\ Ends # {} /\ ~BlankInBody
  <2>1. Ends # {}
    BY DEF LineEnds
  <2> QED
    BY <1>2, <2>1 DEF HeaderInv, BlankInBody
<1>4. t.acts = "header" /\ q \notin StartStates
  <2>1. q \in HeadStates
    BY <1>3 DEF MasterInv, IsAt
  <2>2. q \notin StartStates
    BY <2>1 DEF HeadStates, StartStates
  <2> QED
    BY <2>1, <2>2, MasterActs
<1>5. y \in Ctx /\ Only({"HTTP_master"}, ctx, y) /\ ctx' = http_header(y, c)
  BY <1>1, <1>2, <1>4, MasterLeaves, ParserAssumption
<1> HIDE DEF y, t, q
<1>6. SameHead(ctx, y) /\ y.HTTP_header = ctx.HTTP_header
  <2>1. {"HTTP_master"} \cap HeadMembers = {}
    BY DEF HeadMembers
  <2>2. SameHead(ctx, y)
    BY <1>5, <2>1, HeadSame
  <2> QED
    BY <1>5, <2>2 DEF Only, Fields
<1>7. UriOf(ctx') = UriOf(ctx) /\ UriOf(ctx) \in Seq(Byte)
  <2>1. Only(HeaderFields, y, ctx')
    BY <1>1, <1>5, OnlyHeader, ParserAssumption
  <2>2. ctx'.uri_has_host = ctx.uri_has_host /\ ctx'.uri_host = ctx.uri_host
    BY <1>6, <2>1 DEF Only, Fields, HeaderFields, SameHead
  <2>3. UriOf(ctx) \in Seq(Byte)
    BY <1>1 DEF UriOf, Ctx
  <2> QED
    BY <2>2, <2>3 DEF UriOf
<1>8. Lines \in Seq(Seq(Byte)) /\ Lines # <<>>
  <2>1. /\ Lines \in Seq(Seq(Byte)) /\ Len(Lines) = Cardinality(LineEnds)
        /\ Cardinality(LineEnds) # 0
    BY <1>1, LinesType, EndsAre
  <2> QED
    BY <2>1
<1>9. /\ Body \in Seq(Byte)
      /\ EndsCR(Body) <=> LastCR
      /\ LastCR => (Body = <<"CR">> <=> BlankNext)
  BY <1>1, LineBegun
<1>10. /\ Blanks' = Blanks \cup (IF BlankNext /\ c = "LF" THEN {Len(received) + 1} ELSE {})
       /\ Body' = IF Blanks = {} /\ LastCR /\ c = "LF" THEN <<>> ELSE Append(Body, c)
       /\ Blanks = {} /\ LastCR /\ c = "LF" => Lines' = Append(Lines, WithoutCR(Body))
       /\ ~(Blanks = {} /\ LastCR /\ c = "LF") => Lines' = Lines
  BY <1>1, EndsNext, BodyNext, LinesNext DEF WithoutCR
<1>11. WithoutCR(Body) \in Seq(Byte)
  BY <1>9, SubSeqProperties DEF WithoutCR
<1> PICK p : p = Body
  OBVIOUS
<1> PICK lines : lines = Lines
  OBVIOUS
<1> PICK uri : uri = UriOf(ctx)
  OBVIOUS
<1>12. \/ SomeBroken(lines) \/ Broken(p) \/ HeadParsed(ctx, lines, p, uri)
  BY <1>3 DEF HeaderPart
<1>13. p \in Seq(Byte) /\ lines \in Seq(Seq(Byte)) /\ lines # <<>> /\ uri \in Seq(Byte)
         /\ WithoutCR(p) \in Seq(Byte) /\ UriOf(ctx') = uri
  BY <1>7, <1>8, <1>9, <1>11
<1>14. ASSUME HeadParsed(ctx, lines, p, uri)
       PROVE  IF EndsCR(p) /\ c = "LF" THEN HeadTurns(ctx', lines, p, uri)
              ELSE HeadGoesOn(ctx', lines, Append(p, c), uri)
  <2>1. HeadParsed(y, lines, p, uri)
    BY <1>6, <1>14, HeaderSame
  <2>2. ~http_header(y, c).error
    BY <1>5
  <2>3. IF EndsCR(p) /\ c = "LF" THEN HeadTurns(http_header(y, c), lines, p, uri)
        ELSE HeadGoesOn(http_header(y, c), lines, Append(p, c), uri)
    BY <1>1, <1>5, <1>13, <2>1, <2>2, HeadStep, ParserAssumption
  <2> QED
    BY <1>5, <2>3
<1>15. CASE LastCR /\ c = "LF"
  <2>1. Lines' = Append(lines, WithoutCR(p)) /\ Body' = <<>> /\ EndsCR(p)
          /\ (Blanks' # {} <=> p = <<"CR">>)
    BY <1>9, <1>10, <1>15
  <2>2. CASE SomeBroken(lines) \/ Broken(p)
    <3>1. Broken(p) => WithoutCR(p) # <<>> /\ BrokenName(WithoutCR(p))
      BY <1>13, <2>1, BrokenEnds, ParserAssumption
    <3>2. SomeBroken(Append(lines, WithoutCR(p)))
      BY <1>13, <2>2, <3>1, BrokenStays
    <3> QED
      BY <2>1, <3>2 DEF HeaderPart
  <2>3. CASE HeadParsed(ctx, lines, p, uri)
    <3>1. HeadTurns(ctx', lines, p, uri)
      BY <1>14, <1>15, <2>1, <2>3
    <3>2. CASE p = <<"CR">>
      <4>1. /\ HeadOver(ctx', Append(lines, WithoutCR(p)), uri)
            /\ ctx'.HTTP_start_line = "VERSION" => ctx'.full_message = Forward(Append(lines, WithoutCR(p)), uri)
        BY <3>1, <3>2 DEF HeadTurns
      <4>2. ctx'.full_message \in Seq(Byte) /\ ctx'.full_message \o <<>> = ctx'.full_message
        <5>1. ctx'.full_message \in Seq(Byte)
          BY <1>1 DEF Ctx
        <5> QED
          BY <5>1, ConcatEmptySeq
      <4>3. BodyForwarded'
        BY <1>13, <2>1, <4>1, <4>2 DEF BodyForwarded
      <4> QED
        BY <1>13, <2>1, <3>2, <4>1, <4>3 DEF HeaderPart
    <3>3. CASE p # <<"CR">>
      <4>1. HeadParsed(ctx', Append(lines, WithoutCR(p)), <<>>, uri)
        BY <3>1, <3>3 DEF HeadTurns
      <4> QED
        BY <1>13, <2>1, <3>3, <4>1 DEF HeaderPart
    <3> QED
      BY <3>2, <3>3
  <2> QED
    BY <1>12, <2>2, <2>3
<1>16. CASE ~(LastCR /\ c = "LF")
  <2>1. Lines' = lines /\ Body' = Append(p, c) /\ Blanks' = {} /\ ~(EndsCR(p) /\ c = "LF")
    BY <1>9, <1>10, <1>16 DEF BlankNext
  <2>2. CASE SomeBroken(lines)
    BY <2>1, <2>2 DEF HeaderPart
  <2>3. CASE Broken(p)
    <3>1. Broken(Append(p, c))
      BY <1>1, <1>13, <2>3, BrokenEnds, ParserAssumption
    <3> QED
      BY <2>1, <3>1 DEF HeaderPart
  <2>4. CASE HeadParsed(ctx, lines, p, uri)
    <3>1. HeadGoesOn(ctx', lines, Append(p, c), uri)
      BY <1>14, <2>1, <2>4
    <3> QED
      BY <1>13, <2>1, <3>1 DEF HeaderPart, HeadGoesOn
  <2> QED
    BY <1>12, <2>2, <2>3, <2>4
<1> QED
  BY <1>15, <1>16

\* A byte of the body.
LEMMA HeaderStays ==
  ASSUME TypeOK, MasterInv, RequestInv, HeaderInv, Parse, LineEnds # {}, Blanks # {},
         side = "request", ~ctx'.error
  PROVE  HeaderPart'
<1> DEFINE c == Head(pending)
           q == ctx.HTTP_master
<1>1. /\ c \in Byte /\ received' = Append(received, c) /\ ctx' = http_master(ctx, c)
      /\ ctx \in Ctx /\ received \in Seq(Byte) /\ side \in {"request", "response"}
      /\ Ranked(LineEnds) /\ (BlankInBody => BlankInBody')
      /\ ~BlankInBody' => ~(q = "DATA_CR_FIN" /\ c = "LF")
  BY MasterStep DEF TypeOK, RequestInv
<1> HIDE DEF c
<1>2. ~ctx.error
  BY <1>1, MasterByte, ParserAssumption
<1>3. SomeBroken(Lines) \/ (HeadOver(ctx, Lines, UriOf(ctx)) /\ BodyForwarded)
  BY <1>2 DEF HeaderInv, HeaderPart
<1>4. /\ Lines' = Lines /\ Body' = Append(Body, c) /\ Blanks' # {} /\ Body \in Seq(Byte)
  BY <1>1, EndsNext, BodyNext, LinesNext
<1>5. q \notin StartStates \cup HeadStates
  BY DEF HeaderInv, PastHead
<1>6. /\ Only({"HTTP_master", "full_message", "has_finished", "message"}, ctx, ctx')
      /\ q \in BodyStates /\ ~(q = "DATA_CR_FIN" /\ c = "LF") =>
           ctx'.full_message = Append(ctx.full_message, c)
  BY <1>1, <1>2, <1>5, BodyByte, ParserAssumption
<1>7. UriOf(ctx') = UriOf(ctx) /\ ctx'.HTTP_start_line = ctx.HTTP_start_line
  BY <1>6 DEF UriOf, Only, Fields
<1>8. HeadOver(ctx, Lines, UriOf(ctx)) => HeadOver(ctx', Lines, UriOf(ctx))
  <2>1. {"HTTP_master", "full_message", "has_finished", "message"} \cap
          {"HTTP_header", "match", "value", "found", "host_count"} = {}
    OBVIOUS
  <2> QED
    BY <1>6, <2>1, HostSame
<1>9. BodyForwarded => BodyForwarded'
  <2> PICK f : f = Forward(Lines, UriOf(ctx))
    OBVIOUS
  <2> PICK b : b = Body
    OBVIOUS
  <2>1. SUFFICES ASSUME ctx.HTTP_start_line = "VERSION", f \in Seq(Byte),
                        ~BlankInBody => ctx.full_message = f \o b
                 PROVE  ~BlankInBody' => ctx'.full_message = f \o Append(b, c)
    BY <1>4, <1>7 DEF BodyForwarded
  <2>2. ASSUME ~BlankInBody' PROVE ctx'.full_message = f \o Append(b, c)
    <3>1. q \in BodyStates
      BY <1>1, <2>2 DEF MasterInv, IsAt
    <3>2. ctx'.full_message = Append(f \o b, c)
      BY <1>1, <1>6, <2>1, <2>2, <3>1
    <3>3. b \in Seq(Byte) /\ <<c>> \in Seq(Byte)
      BY <1>1, <1>4
    <3>4. Append(f \o b, c) = (f \o b) \o <<c>> /\ Append(b, c) = b \o <<c>>
      <4>1. f \o b \in Seq(Byte)
        BY <2>1, <3>3, ConcatProperties
      <4> QED
        BY <1>1, <3>3, <4>1, AppendIsConcat
    <3>5. Together(f, b, <<c>>)
      BY <2>1, <3>3, Associates
    <3> QED
      BY <3>2, <3>4, <3>5 DEF Together
  <2> QED
    BY <2>2
<1> QED
  BY <1>3, <1>4, <1>7, <1>8, <1>9 DEF HeaderPart

LEMMA HeaderInvStep ==
  ASSUME TypeOK, TypeOK', MasterInv, RequestInv, HeaderInv, Parse PROVE HeaderInv'
<1>1. side' = side /\ PastHead' /\ (LineEnds # {} => LineEnds' # {})
  <2>1. received \in Seq(Byte) /\ Head(pending) \in Byte
          /\ received' = Append(received, Head(pending)) /\ side' = side
    BY MasterStep DEF TypeOK
  <2>2. LineEnds # {} => LineEnds' # {}
    BY <2>1, FirstLineEnds DEF RequestInv
  <2> QED
    BY <2>1, <2>2, PastHeadStep DEF RequestInv, HeaderInv
<1>2. SUFFICES ASSUME side = "request", ~ctx'.error
               PROVE  IF LineEnds' = {} THEN HeaderFresh(ctx') ELSE HeaderPart'
  BY <1>1 DEF HeaderInv
<1>3. CASE LineEnds = {}
  BY <1>2, <1>3, HeaderBegins
<1>4. CASE LineEnds # {} /\ Blanks = {}
  BY <1>1, <1>2, <1>4, HeaderGoesOn
<1>5. CASE LineEnds # {} /\ Blanks # {}
  BY <1>1, <1>2, <1>5, HeaderStays
<1> QED
  BY <1>3, <1>4, <1>5

LEMMA HeaderAlways == Spec => []HeaderInv
<1>1. Init => HeaderInv
  <2> SUFFICES ASSUME Init PROVE HeaderInv
    OBVIOUS
  <2>1. received = <<>> /\ (side = "request" => ctx = initCtx)
    BY DEF Init
  <2>2. Ends = {} /\ LineEnds = {} /\ Blanks = {}
    BY <2>1 DEF Ends, LineEnds, Blanks
  <2>3. HeaderFresh(initCtx)
    BY DEF HeaderFresh
  <2> QED
    BY <2>1, <2>2, <2>3 DEF HeaderInv, PastHead
<1>2. TypeOK /\ TypeOK' /\ MasterInv /\ RequestInv /\ HeaderInv /\ [Next]_vars => HeaderInv'
  <2> SUFFICES ASSUME TypeOK, TypeOK', MasterInv, RequestInv, HeaderInv, [Next]_vars PROVE HeaderInv'
    OBVIOUS
  <2>1. CASE Parse
    BY <2>1, HeaderInvStep
  <2>2. CASE Read \/ UNCHANGED vars
    <3>1. UNCHANGED <<side, ctx, received>>
      BY <2>2, OtherSteps
    <3>2. Ends' = Ends
      BY <3>1 DEF Ends
    <3>3. Blanks' = Blanks
      BY <3>2 DEF Blanks
    <3>4. LineEnds' = LineEnds
      BY <3>2, <3>3 DEF LineEnds
    <3>5. Lines' = Lines
      BY <3>1, <3>4 DEF Lines, EndOf
    <3>6. HeaderEnd' = HeaderEnd
      BY <3>4 DEF HeaderEnd
    <3>7. Body' = Body
      BY <3>1, <3>6 DEF Body
    <3>8. BlankInBody' <=> BlankInBody
      BY <3>3, <3>6 DEF BlankInBody
    <3>9. BodyForwarded' <=> BodyForwarded
      BY <3>1, <3>5, <3>7, <3>8 DEF BodyForwarded
    <3>10. HeaderPart' <=> HeaderPart
      BY <3>1, <3>3, <3>5, <3>7, <3>9 DEF HeaderPart
    <3>11. PastHead' <=> PastHead
      BY <3>1, <3>3 DEF PastHead
    <3>12. HeaderFresh(ctx)' <=> HeaderFresh(ctx)
      BY <3>1 DEF HeaderFresh
    <3> QED
      BY <3>1, <3>4, <3>10, <3>11, <3>12 DEF HeaderInv
  <2> QED
    BY <2>1, <2>2 DEF Next
<1> QED
  BY <1>1, <1>2, ParserTypeCorrect, MasterAlways, RequestAlways, PTL DEF Spec

\* At the end of a line of the header, and in the body.
LEMMA AtLineEndIs ==
  ASSUME TypeOK, MasterInv, RequestInv, HeaderInv, AtLineEnd
  PROVE  /\ HostPart(ctx, Lines, <<>>, UriOf(ctx)) /\ ctx.HTTP_header \notin ValueStates
         /\ ctx.HTTP_start_line = "VERSION" /\ ~BlankInBody =>
              ctx.full_message = Forward(Lines, UriOf(ctx)) \o Body
         /\ DOMAIN Lines = 1 .. Len(Lines)
         /\ ~ctx.connect_method_used => UriOf(ctx) = UriHost
<1>1. /\ side = "request" /\ ~ctx.error /\ received \in Seq(Byte) /\ ctx \in Ctx
      /\ Ranked(LineEnds) /\ RequestParsed(ctx, RequestLine)
      /\ ctx.HTTP_master \in {"HEADER_NEW_LINE"} \cup BodyStates
  BY DEF AtLineEnd, TypeOK, RequestInv
<1>2. Lines \in Seq(Seq(Byte)) /\ DOMAIN Lines = 1 .. Len(Lines) /\ Len(Lines) \in Nat
  <2>1. Lines \in Seq(Seq(Byte))
    BY <1>1, LinesType
  <2> QED
    BY <2>1
<1>3. ~ctx.connect_method_used => UriOf(ctx) = UriHost
  <2>1. TargetOf(RequestLine) = TargetOf(FirstLine)
    BY <1>1, RequestLineIs, ParserAssumption
  <2>2. RequestLine \in Seq(Byte)
    <3>1. LineEnds # {} => Lines[1] \in Seq(Byte)
      <4>1. Len(Lines) = Cardinality(LineEnds) /\ (Cardinality(LineEnds) = 0 <=> LineEnds = {})
        BY <1>1, LinesType, EndsAre
      <4>2. LineEnds # {} => 1 \in 1 .. Len(Lines)
        BY <1>2, <4>1
      <4> QED
        BY <1>2, <4>2, ElementOfSeq
    <3>2. "CR" \in Byte /\ "LF" \in Byte
      BY ParserAssumption DEF ParserAssumption, Marks
    <3> QED
      BY <1>1, <3>1, <3>2 DEF RequestLine
  <2>3. UriOf(ctx) = IF ctx.connect_method_used THEN <<>> ELSE HostIn(TargetOf(RequestLine))
    BY <1>1, <2>2, UriIsRead, ParserAssumption
  <2> QED
    BY <2>1, <2>3 DEF UriHost
<1>4. ~SomeBroken(Lines)
  <2>1. \A k \in 2 .. Len(Lines) : Lines[k] # <<>> => k \in HeaderLines
    BY <1>2 DEF HeaderLines
  <2> QED
    BY <2>1 DEF SomeBroken, AtLineEnd
<1>5. CASE ctx.HTTP_master = "HEADER_NEW_LINE"
  <2>1. Blanks = {} /\ ~BlankInBody
    <3>1. ctx.HTTP_master \in HeadStates
      BY <1>5 DEF HeadStates
    <3> QED
      BY <1>1, <3>1 DEF HeaderInv, PastHead, BlankInBody
  <2>2. Ends # {} /\ AtEnd
    BY <1>5, <2>1 DEF MasterInv, IsAt, StartStates
  <2>3. LineEnds = Ends
    BY <2>1 DEF LineEnds
  <2>4. Body = <<>>
    <3>1. HeaderEnd \in 0 .. Len(received) /\ Len(received) <= HeaderEnd /\ Len(received) \in Nat
      BY <1>1, <2>2, <2>3, HeaderEndIs DEF AtEnd
    <3>2. HeaderEnd = Len(received)
      BY <3>1
    <3> QED
      BY <1>1, <3>1, <3>2, SubSeqEmpty DEF Body
  <2>5. ~Broken(<<>>)
    <3>1. First(<<>>, "COLON") = 0 /\ First(<<>>, "CR") = 0
      BY DEF First
    <3> QED
      BY <3>1 DEF Broken, BrokenName, NameOf, Before
  <2>6. HeadParsed(ctx, Lines, <<>>, UriOf(ctx))
    BY <1>1, <1>4, <2>1, <2>2, <2>3, <2>4, <2>5 DEF HeaderInv, HeaderPart
  <2>7. ctx.HTTP_header = "NEW_LINE"
    BY <2>6 DEF HeadParsed, LineAt
  <2>8. "NEW_LINE" \notin ValueStates /\ NameSoFar("NEW_LINE", <<>>) = <<>>
    BY DEF ValueStates, NameSoFar, CrStates
  <2>9. ~ctx.connection_avoid /\ Partial(ctx, <<>>) = <<>>
    BY <2>6, <2>7, <2>8 DEF HeadParsed, ConnectionPart, Partial
  <2>10. ctx.HTTP_start_line = "VERSION" => ctx.full_message = Forward(Lines, UriOf(ctx)) \o Body
    BY <2>4, <2>6, <2>9 DEF HeadParsed, ForwardPart
  <2> QED
    BY <1>2, <1>3, <2>6, <2>7, <2>8, <2>10 DEF HeadParsed
<1>6. CASE ctx.HTTP_master \in BodyStates
  <2>1. Blanks # {}
    <3>1. BlankInBody => Blanks # {}
      BY DEF BlankInBody
    <3> QED
      BY <1>6, <3>1 DEF MasterInv, IsAt
  <2>2. LineEnds # {}
    <3>1. LineEnds = {} => Blanks = {}
      <4>1. Blanks \in SUBSET Nat /\ Blanks \subseteq Ends
        BY DEF Blanks, Ends
      <4>2. \E b \in Blanks : \A i \in Blanks : b <= i
        BY <2>1, <4>1, Least
      <4> QED
        BY <4>1, <4>2 DEF LineEnds
    <3> QED
      BY <2>1, <3>1
  <2>3. HeadOver(ctx, Lines, UriOf(ctx)) /\ BodyForwarded
    BY <1>1, <1>4, <2>1, <2>2 DEF HeaderInv, HeaderPart
  <2>4. "FIN" \notin ValueStates
    BY DEF ValueStates
  <2> QED
    BY <1>2, <1>3, <2>3, <2>4 DEF HeadOver, BodyForwarded
<1> QED
  BY <1>1, <1>5, <1>6

\* The headers of the reference are those of the invariant.
LEMMA HeadersOf ==
  ASSUME DOMAIN Lines = 1 .. Len(Lines), Len(Lines) \in Nat
  PROVE  \A h : Of(h) = NamedIn(Lines, h)
  BY DEF Of, HeaderLines, NamedIn

\* Whatever is sent and however it is split into reads, the host is known when the
\* Host header has a value, there is one such header at most, and the host the proxy
\* looks up for a request other than CONNECT is the one it names: that of the target
\* when it has one, else the value of the header, whole (HTTP_HEADER_FIELD_VALUE and
\* HTTP_HEADER_NEW_LINE in http_header, HTTP_ABSOLUTE_URI_HOST in http_abs_parser).
THEOREM HostAsNamed == Spec => []HostIsTheRequests
<1>1. TypeOK /\ MasterInv /\ RequestInv /\ HeaderInv => HostIsTheRequests
  <2> SUFFICES ASSUME TypeOK, MasterInv, RequestInv, HeaderInv, AtLineEnd
               PROVE  /\ Cardinality(Of("host")) <= 1
                      /\ ctx.found.host <=> \E k \in Of("host") : ValueOf(Lines[k]) # <<>>
                      /\ ctx.found.host /\ ~ctx.connect_method_used => ctx.value.host =
                           IF UriHost # <<>> THEN UriHost
                           ELSE ValueOf(Lines[CHOOSE k \in Of("host") : TRUE])
    BY DEF HostIsTheRequests
  <2>1. /\ HostPart(ctx, Lines, <<>>, UriOf(ctx)) /\ DOMAIN Lines = 1 .. Len(Lines)
        /\ ~ctx.connect_method_used => UriOf(ctx) = UriHost
    BY AtLineEndIs
  <2>2. Len(Lines) \in Nat
    BY LinesType DEF TypeOK, RequestInv
  <2>3. Of("host") = NamedIn(Lines, "host")
    BY <2>1, <2>2, HeadersOf
  <2> PICK hosts : hosts = Of("host")
    OBVIOUS
  <2>4. /\ Cardinality(hosts) <= 1
        /\ ctx.found.host <=> \E k \in hosts : ValueOf(Lines[k]) # <<>>
        /\ ctx.found.host => \A k \in hosts :
             ctx.value.host = IF UriOf(ctx) # <<>> THEN UriOf(ctx) ELSE ValueOf(Lines[k])
    BY <2>1, <2>3 DEF HostPart
  <2>5. ctx.found.host => (CHOOSE k \in hosts : TRUE) \in hosts
    BY <2>4
  <2> QED
    BY <2>1, <2>4, <2>5
<1> QED
  BY <1>1, ParserTypeCorrect, MasterAlways, RequestAlways, HeaderAlways, PTL

\* Whatever is sent and however it is split into reads, what is forwarded of a
\* request other than CONNECT is what was received, but for the first Connection header, the Host that
\* gives way to that of the target and the spaces before values (what http_start_line,
\* http_header and http_master write to full_message).
THEOREM ForwardedAsSent == Spec => []ForwardsTheRequest
<1>1. TypeOK /\ MasterInv /\ RequestInv /\ HeaderInv => ForwardsTheRequest
  <2> SUFFICES ASSUME TypeOK, MasterInv, RequestInv, HeaderInv, AtLineEnd,
                      ~ctx.connect_method_used, ctx.HTTP_start_line = "VERSION", ~BlankInBody
               PROVE  ctx.full_message =
                        FlattenSeq([k \in DOMAIN Lines |-> ForwardedLine(k)]) \o Body
    BY DEF ForwardsTheRequest
  <2>1. ctx.full_message = Forward(Lines, UriHost) \o Body /\ DOMAIN Lines = 1 .. Len(Lines)
    <3>1. /\ ctx.full_message = Forward(Lines, UriOf(ctx)) \o Body
          /\ DOMAIN Lines = 1 .. Len(Lines) /\ UriOf(ctx) = UriHost
      BY AtLineEndIs
    <3> QED
      BY <3>1
  <2>2. Len(Lines) \in Nat
    BY LinesType DEF TypeOK, RequestInv
  <2>3. \A h : Of(h) = NamedIn(Lines, h)
    BY <2>1, <2>2, HeadersOf
  <2>4. \A k \in DOMAIN Lines : ForwardedLine(k) = ForwardIn(Lines, UriHost, k)
    BY <2>3 DEF ForwardedLine, ForwardIn
  <2>5. [k \in DOMAIN Lines |-> ForwardedLine(k)] =
          [k \in 1 .. Len(Lines) |-> ForwardIn(Lines, UriHost, k)]
    BY <2>1, <2>4
  <2> QED
    BY <2>1, <2>5 DEF Forward
<1> QED
  BY <1>1, ParserTypeCorrect, MasterAlways, RequestAlways, HeaderAlways, PTL
=============================================================================
