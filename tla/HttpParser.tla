----------------------------- MODULE HttpParser -----------------------------
(***************************************************************************)
(* The HTTP parser (parsers/): five automata fed one byte at a time        *)
(* (HTTP_master_parser.c, HTTP_start_line_parser.c, HTTP_header_parser.c,  *)
(* HTTP_request_uri_parser.c, HTTP_absolute_uri_parser.c), the string      *)
(* matchers (parser_utils.c), and what HTTP_parser.c makes of their        *)
(* events: the host, the method CONNECT, the message to forward.           *)
(*                                                                         *)
(* The bytes the automata tell apart are those of Marks; the others are    *)
(* what a run needs.                                                       *)
(*                                                                         *)
(* The event FIN of the start line never happens: states[] of              *)
(* HTTP_start_line_parser.c has the rows of CR and FIN in the other order. *)
(* What only that event reads (version, form of the target, OPTIONS, path) *)
(* is left out.                                                            *)
(***************************************************************************)
EXTENDS Integers, Sequences

CONSTANTS
  Byte,
  TOKEN_ALPHA,   \* letters
  SCHEME_TOKEN,  \* letters, digits, "+", "-" and "."
  tolower,       \* the small letter of each letter
  CONNECT,       \* the method, a sequence of bytes
  HeaderName,    \* the four names the parser looks for, in small letters
  MethodLimit,   \* bytes of a method (10) and of a host (8000) in the request
  UriLimit,      \* line before one more is an error
  StartLines,    \* bounds of the model: what the first read brings,
  Pieces,        \* what each later read brings,
  MaxReads       \* and how many reads there are

Names == {"host", "content_length", "auth", "connection"}
Kept  == Names \ {"connection"}   \* those whose value is kept

\* CR, LF, space, : / * - _ and the byte 0
Marks == {"CR", "LF", "SP", "COLON", "SLASH", "STAR", "DASH", "UNDERSCORE", "NUL"}

ParserAssumption ==
  /\ Marks \subseteq Byte
  /\ CONNECT \in Seq(Byte \ Marks) \ {<<>>} /\ "SLASH" \notin SCHEME_TOKEN
  /\ HeaderName \in [Names -> Seq(Byte)] /\ HeaderName.host # HeaderName.connection
  /\ MaxReads \in Nat /\ MethodLimit \in Nat /\ UriLimit \in Nat
  /\ StartLines \in [{"request", "response"} -> SUBSET Seq(Byte)]
  /\ Pieces \subseteq Seq(Byte)

ASSUME ParserAssumption

VARIABLES
  side,      \* whose messages: of a client (initCtx) or of the DoH server
  ctx,       \* struct ctx
  pending,   \* bytes of the last read that are still to be parsed
  received,  \* all bytes parsed (history)
  reads      \* how many reads there were (bound)

vars == <<side, ctx, pending, received, reads>>

-----------------------------------------------------------------------------
(* parser_feed: a row of an automaton has a transition for some bytes or   *)
(* classes, and one for the others                                         *)

To(dest, acts) == [dest |-> dest, acts |-> acts]

parser_feed(row, c) ==
  IF c \in DOMAIN row THEN row[c]
  ELSE IF "ALPHA" \in DOMAIN row /\ c \in TOKEN_ALPHA THEN row.ALPHA
  ELSE IF "SCHEME" \in DOMAIN row /\ c \in SCHEME_TOKEN THEN row.SCHEME
  ELSE row.ANY

HTTP_master ==
  [START_LINE      |-> [CR |-> To("START_LINE_CR", "start_line"),
                        ANY |-> To("START_LINE", "start_line")],
   START_LINE_CR   |-> [CR |-> To("START_LINE_CR", "start_line"),
                        LF |-> To("HEADER_NEW_LINE", "start_line"),
                        ANY |-> To("START_LINE", "start_line")],
   HEADER_NEW_LINE |-> [CR |-> To("HEADER_CR_FIN", "header"),
                        ANY |-> To("HEADER", "header")],
   HEADER          |-> [CR |-> To("HEADER_CR", "header"),
                        ANY |-> To("HEADER", "header")],
   HEADER_CR       |-> [CR |-> To("HEADER_CR", "header"),
                        LF |-> To("HEADER_NEW_LINE", "header"),
                        ANY |-> To("HEADER", "header")],
   HEADER_CR_FIN   |-> [CR |-> To("HEADER_CR", "header"),
                        LF |-> To("DATA_NEW_LINE", "header"),
                        ANY |-> To("HEADER", "header")],
   DATA_NEW_LINE   |-> [CR |-> To("DATA_CR_FIN", "data"), ANY |-> To("DATA", "data")],
   DATA            |-> [CR |-> To("DATA_CR", "data"), ANY |-> To("DATA", "data")],
   DATA_CR         |-> [CR |-> To("DATA_CR", "data"), LF |-> To("DATA_NEW_LINE", "data"),
                        ANY |-> To("DATA", "data")],
   DATA_CR_FIN     |-> [CR |-> To("DATA_CR", "data"), LF |-> To("FIN", "fin"),
                        ANY |-> To("DATA", "data")],
   FIN             |-> [ANY |-> To("ERROR", "error")],
   ERROR           |-> [ANY |-> To("ERROR", "error")]]

HTTP_start_line ==
  [METHOD         |-> [SP |-> To("REQUEST_TARGET", "wait_space1"),
                       ANY |-> To("METHOD", "byte_method")],
   REQUEST_TARGET |-> [SP |-> To("VERSION", "wait_space2"),
                       ANY |-> To("REQUEST_TARGET", "byte_target")],
   VERSION        |-> [SP |-> To("MAY_FIN", "wait_space2"),
                       ANY |-> To("VERSION", "byte_version")],
   MAY_FIN        |-> [SP |-> To("MAY_FIN", "may_fin"), CR |-> To("CR", "wait_lf"),
                       ANY |-> To("ERROR", "error")],
   CR             |-> [ANY |-> To("ERROR", "error")],
   FIN            |-> [LF |-> To("FIN", "fin"), ANY |-> To("ERROR", "error")],
   ERROR          |-> [ANY |-> To("ERROR", "error")]]

HTTP_request_target ==
  [START       |-> [SLASH |-> To("ERROR", "error"), SP |-> To("ERROR", "error"),
                    STAR |-> To("IS_ASTERISK", "may_asterisk"),
                    ANY |-> To("URI", "may_abs")],
   URI         |-> [SP |-> To("FIN", "fin"), ANY |-> To("URI", "may_abs")],
   IS_ASTERISK |-> [SP |-> To("FIN", "is_asterisk"), ANY |-> To("ERROR", "error")],
   FIN         |-> [ANY |-> To("ERROR", "error")],
   ERROR       |-> [ANY |-> To("ERROR", "error")]]

HTTP_request_abs ==
  [SCHEME_FIRST |-> [ALPHA |-> To("SCHEME", "scheme"), ANY |-> To("ERROR", "error")],
   SCHEME       |-> [SCHEME |-> To("SCHEME", "scheme"), COLON |-> To("MAY_HOST1", "scheme"),
                     ANY |-> To("ERROR", "error")],
   MAY_HOST1    |-> [SLASH |-> To("MAY_HOST2", "wait_host"), ANY |-> To("ERROR", "error")],
   MAY_HOST2    |-> [SLASH |-> To("GUION", "wait_host"), ANY |-> To("ERROR", "error")],
   HOST         |-> [SLASH |-> To("REST", "byte_rest"), DASH |-> To("GUION", "byte_host"),
                     UNDERSCORE |-> To("ERROR", "error"), ANY |-> To("HOST", "byte_host")],
   GUION        |-> [DASH |-> To("ERROR", "error"), UNDERSCORE |-> To("ERROR", "error"),
                     ANY |-> To("HOST", "byte_host")],
   REST         |-> [SP |-> To("FIN", "fin"), ANY |-> To("REST", "byte_rest")],
   FIN          |-> [ANY |-> To("ERROR", "error")],
   ERROR        |-> [ANY |-> To("ERROR", "error")]]

\* Mutant: a second space leads to OWS_END, a state of the enum without a row.
ST_OWS_end == [CR |-> To("CR_FIELD_VALUE", "wait"), SP |-> To("OWS_END", "wait"),
               ANY |-> To("FIELD_VALUE", "byte_fv")]

ST_OWS == [CR |-> To("CR_FIELD_VALUE", "wait"), SP |-> To("OWS", "wait"),
           ANY |-> To("FIELD_VALUE", "byte_fv")]

\* Mutant: a carriage return that follows another one counts as text.
ST_CR_FIELD_VALUE_once ==
  [CR |-> To("FIELD_VALUE", "cr_fv"), LF |-> To("NEW_LINE", "byte_nl"),
   ANY |-> To("FIELD_VALUE", "cr_fv_byte_fv")]

ST_CR_FIELD_VALUE ==
  [CR |-> To("CR_FIELD_VALUE", "cr_fv"), LF |-> To("NEW_LINE", "byte_nl"),
   ANY |-> To("FIELD_VALUE", "cr_fv_byte_fv")]

HTTP_header ==
  [NEW_LINE       |-> [COLON |-> To("ERROR", "error"), CR |-> To("CR_FIN", "wait"),
                       ANY |-> To("FIELD_NAME", "byte_fn")],
   FIELD_NAME     |-> [COLON |-> To("COLON", "wait_colon"),
                       CR |-> To("CR_FIELD_NAME", "wait"),
                       ANY |-> To("FIELD_NAME", "byte_fn")],
   COLON          |-> [CR |-> To("CR_FIELD_VALUE", "wait"), SP |-> To("OWS", "wait"),
                       ANY |-> To("FIELD_VALUE", "byte_fv")],
   OWS            |-> ST_OWS,
   FIELD_VALUE    |-> [CR |-> To("CR_FIELD_VALUE", "wait"),
                       ANY |-> To("FIELD_VALUE", "byte_fv")],
   CR_FIELD_NAME  |-> [CR |-> To("CR_FIELD_NAME", "cr_fn"), LF |-> To("ERROR", "error"),
                       ANY |-> To("FIELD_NAME", "cr_fn_byte_fv")],
   CR_FIELD_VALUE |-> ST_CR_FIELD_VALUE,
   CR_FIN         |-> [CR |-> To("CR_FIELD_NAME", "cr_fv"), LF |-> To("FIN", "fin"),
                       ANY |-> To("FIELD_VALUE", "cr_fv_byte_fv")],
   FIN            |-> [ANY |-> To("ERROR", "error")],
   ERROR          |-> [ANY |-> To("ERROR", "error")]]

-----------------------------------------------------------------------------
(* Matchers: how far one is in its name, and what it said last *)

NewMatcher == [at |-> 0, event |-> "NEQ"]

parser_reset(m) == [m EXCEPT !.at = 0]

lower(c) == IF c \in TOKEN_ALPHA THEN tolower[c] ELSE c

Advance(name, m) ==
  [at |-> m.at + 1, event |-> IF m.at + 1 = Len(name) THEN "EQ" ELSE "MAYEQ"]

Failed(name) == [at |-> Len(name) + 1, event |-> "NEQ"]

\* Mutant: the end of the name is enough.
strcmpi_prefix(name, m, c) ==
  IF m.at < Len(name) /\ lower(c) = name[m.at + 1] THEN Advance(name, m)
  ELSE IF m.at >= Len(name) THEN m ELSE Failed(name)

strcmpi(name, m, c) ==
  IF m.at < Len(name) /\ lower(c) = name[m.at + 1] THEN Advance(name, m) ELSE Failed(name)

\* Mutant: the letter before the last one is the end of the name.
strcmps_short(name, m, c) ==
  IF m.at >= Len(name) THEN Failed(name)
  ELSE IF c = name[m.at + 1] THEN [Advance(name, m) EXCEPT
         !.event = IF m.at + 2 >= Len(name) THEN "EQ" ELSE "MAYEQ"]
  ELSE m

\* The transition for the other bytes is stored at i * 2 + 2, where that of the
\* next letter overwrites it: before its end, the matcher of a method stays
\* where it is on any byte but the one it waits for (and 0, see CallsNull).
strcmps(name, m, c) ==
  IF m.at >= Len(name) THEN Failed(name)
  ELSE IF c = name[m.at + 1] THEN Advance(name, m)
  ELSE m

-----------------------------------------------------------------------------
(* The handlers of HTTP_parser.c, from the innermost *)

Error(x) == [x EXCEPT !.error = TRUE]

Written(x, bytes) == [x EXCEPT !.full_message = @ \o bytes]

http_abs_parser(x, c) ==
  LET t == parser_feed(HTTP_request_abs[x.HTTP_request_abs], c)
      y == [x EXCEPT !.HTTP_request_abs = t.dest]
  IN  CASE t.acts = "error"     -> Error(y)
        [] t.acts = "byte_host" -> [y EXCEPT !.uri_host = Append(@, c)]
        [] t.acts = "fin"       -> [y EXCEPT !.uri_has_host = @ \/ x.uri_host # <<>>]
        [] OTHER                -> y

http_request_target(x, c) ==
  LET t == parser_feed(HTTP_request_target[x.HTTP_request_target], c)
      y == [x EXCEPT !.HTTP_request_target = t.dest]
  IN  CASE t.acts = "error"       -> Error(y)
        [] t.acts = "may_abs"     -> http_abs_parser(Written(y, <<c>>), c)
        [] t.acts = "is_asterisk" -> Written(y, <<"STAR">>)
        [] t.acts = "fin"         -> http_abs_parser(y, "SP")
        [] OTHER                  -> y

MethodByte(x, c) ==
  LET m == strcmps(CONNECT, x.HTTP_connect, c)
  IN  [Written(x, <<c>>) EXCEPT !.error = @ \/ x.method > MethodLimit,
                                !.HTTP_connect = m,
                                !.connect_method_used = @ \/ m.event = "EQ",
                                !.method = @ + 1]

TargetByte(x, c) ==
  LET y == [x EXCEPT !.error = @ \/ Len(x.uri_host) > UriLimit]
  IN  IF x.connect_method_used
      THEN [Written(y, <<c>>) EXCEPT !.uri_host = Append(@, c)]
      ELSE http_request_target(y, c)

http_start_line(x, c) ==
  LET t == parser_feed(HTTP_start_line[x.HTTP_start_line], c)
      y == [x EXCEPT !.HTTP_start_line = t.dest]
  IN  CASE t.acts = "byte_method"  -> MethodByte(y, c)
        [] t.acts = "byte_target"  -> TargetByte(y, c)
        [] t.acts = "byte_version" -> Written(y, <<c>>)
        [] t.acts = "wait_space1"  -> Written(y, <<"SP">>)
        [] t.acts = "wait_space2"  ->
             Written(IF y.connect_method_used THEN y ELSE http_request_target(y, "SP"), <<"SP">>)
        [] OTHER                   -> y

\* The name of the line read last is that of header h.
Is(x, h) == x.match[h].event = "EQ"

NameByte(x, c) ==
  [Written(x, <<c>>) EXCEPT !.match =
     [h \in Names |-> strcmpi(HeaderName[h], x.match[h], c)]]

\* A first Connection header is taken back, with the CR LF before it (12 bytes).
Colon(x) ==
  LET avoid == Is(x, "connection") /\ ~x.found.connection
      kept  == Len(x.full_message) - (Len(HeaderName.connection) + 2)
  IN  IF avoid
      THEN [x EXCEPT !.found.connection = TRUE, !.connection_avoid = TRUE,
                     !.full_message = SubSeq(@, 1, kept)]
      ELSE [Written(x, <<"COLON">>) EXCEPT !.connection_avoid = FALSE]

\* Mutant: the Host header of the client is forwarded beside that of the URI.
ForwardedAlways(x) == ~x.connection_avoid

\* Whether the value is forwarded: not that of the Connection header taken back,
\* nor that of a Host header the URI takes precedence over.
Forwarded(x) ==
  /\ ~x.connection_avoid
  /\ ~(x.uri_has_host /\ Is(x, "host") /\ ~x.found.host)

\* Mutant: the value of every header of the name is kept.
ValueBytesAgain(x, bytes) ==
  LET y == [x EXCEPT !.value = [h \in Kept |-> IF Is(x, h) THEN @[h] \o bytes ELSE @[h]]]
  IN  IF Forwarded(x) THEN Written(y, bytes) ELSE y

ValueBytes(x, bytes) ==
  LET y == [x EXCEPT !.value = [h \in Kept |-> IF Is(x, h) /\ ~x.found[h]
                                               THEN @[h] \o bytes ELSE @[h]]]
  IN  IF Forwarded(x) THEN Written(y, bytes) ELSE y

\* The host of the URI takes the place of that of the header.
HostOfLine(x) ==
  IF x.uri_has_host /\ ~x.found.host /\ x.value.host # <<>>
  THEN [Written(x, x.uri_host) EXCEPT !.value.host = x.uri_host] ELSE x

NewLine(x) ==
  LET count == x.host_count + IF Is(x, "host") THEN 1 ELSE 0
      y == HostOfLine([x EXCEPT !.host_count = count,
                                !.error = @ \/ (Is(x, "host") /\ count > 1)])
  IN  [Written(y, <<"CR", "LF">>) EXCEPT
         !.found = [h \in Names |-> @[h] \/ (h \in Kept /\ y.value[h] # <<>>)],
         !.match = [h \in Names |-> IF h \in Kept \/ ~x.found.connection
                                    THEN parser_reset(@[h]) ELSE @[h]],
         !.connection_avoid = FALSE]

http_header(x, c) ==
  LET t == parser_feed(HTTP_header[x.HTTP_header], c)
      y == [x EXCEPT !.HTTP_header = t.dest]
  IN  CASE t.acts = "error"          -> Error(y)
        [] t.acts = "byte_fn"        -> NameByte(y, c)
        [] t.acts = "cr_fn"          -> NameByte(y, "CR")
        [] t.acts = "byte_fv"        -> ValueBytes(y, <<c>>)
        [] t.acts = "cr_fv"          -> ValueBytes(y, <<"CR">>)
        [] t.acts = "cr_fn_byte_fv" -> ValueBytes(NameByte(y, "CR"), <<c>>)
        [] t.acts = "cr_fv_byte_fv" -> ValueBytes(y, <<"CR", c>>)
        [] t.acts = "wait_colon"     -> Colon(y)
        [] t.acts = "byte_nl"        -> NewLine(y)
        [] t.acts = "fin"            -> Written(y, <<"CR", "LF">>)
        [] t.acts = "wait"           -> y

\* Mutant: the first byte of the body only ends the header.
DataByteAfter(x, c) ==
  [Written(x, <<c>>) EXCEPT !.has_finished = TRUE,
                            !.message = IF x.has_finished THEN Append(@, c) ELSE @]

DataByte(x, c) ==
  [Written(x, <<c>>) EXCEPT !.has_finished = TRUE, !.message = Append(@, c)]

\* Of an answer (http_master_response) the start line is only copied, and the
\* end of a body starts the master automaton again.
http_master(x, c) ==
  LET t == parser_feed(HTTP_master[x.HTTP_master], c)
      y == [x EXCEPT !.HTTP_master = t.dest]
  IN  IF x.error THEN y
      ELSE CASE t.acts = "start_line" ->
                  IF side = "request" THEN http_start_line(y, c) ELSE Written(y, <<c>>)
             [] t.acts = "header"     -> http_header(y, c)
             [] t.acts = "data"       -> DataByte(y, c)
             [] t.acts = "fin"        ->
                  IF side = "request" THEN [y EXCEPT !.has_finished = TRUE]
                                      ELSE [y EXCEPT !.HTTP_master = "START_LINE"]
             [] OTHER                 -> y

-----------------------------------------------------------------------------
(* A context, the reads and the parsing of each byte *)

Matcher == [at : Nat, event : {"MAYEQ", "EQ", "NEQ"}]

\* struct ctx.  found.host is host_found, match[h].event the status of header h.
Ctx ==
  [HTTP_master : DOMAIN HTTP_master, HTTP_start_line : DOMAIN HTTP_start_line,
   HTTP_request_target : DOMAIN HTTP_request_target,
   HTTP_request_abs : DOMAIN HTTP_request_abs, HTTP_header : DOMAIN HTTP_header,
   HTTP_connect : Matcher, connect_method_used : BOOLEAN, method : Nat,
   uri_host : Seq(Byte), uri_has_host : BOOLEAN,
   match : [Names -> Matcher], value : [Kept -> Seq(Byte)],
   found : [Names -> BOOLEAN], host_count : Nat, connection_avoid : BOOLEAN,
   error : BOOLEAN, has_finished : BOOLEAN,
   full_message : Seq(Byte), message : Seq(Byte)]

initCtx ==
  [HTTP_master |-> "START_LINE", HTTP_start_line |-> "METHOD",
   HTTP_request_target |-> "START", HTTP_request_abs |-> "SCHEME_FIRST",
   HTTP_header |-> "NEW_LINE",
   HTTP_connect |-> NewMatcher, connect_method_used |-> FALSE, method |-> 0,
   uri_host |-> <<>>, uri_has_host |-> FALSE,
   match |-> [h \in Names |-> NewMatcher], value |-> [h \in Kept |-> <<>>],
   found |-> [h \in Names |-> FALSE], host_count |-> 0, connection_avoid |-> FALSE,
   error |-> FALSE, has_finished |-> FALSE,
   full_message |-> <<>>, message |-> <<>>]

initCtxResponse == [initCtx EXCEPT !.has_finished = TRUE]

Init ==
  /\ side \in {"request", "response"}
  /\ ctx = IF side = "request" THEN initCtx ELSE initCtxResponse
  /\ pending = <<>> /\ received = <<>> /\ reads = 0

\* read() in readAndParseRequest and readAndParseResponse.  A request with an
\* error is read no more, an answer is.
Read ==
  /\ pending = <<>> /\ reads < MaxReads
  /\ side = "request" => ~ctx.error
  /\ pending' \in (IF reads = 0 THEN StartLines[side] ELSE Pieces)
  /\ reads' = reads + 1
  /\ UNCHANGED <<side, ctx, received>>

\* A byte 0 in a method: in the slot that was left zero in a matcher not yet at
\* its end (within MethodLimit some matcher of the eight always is) parser_feed
\* finds a transition for 0 whose act1 is NULL, and the process ends.  In a
\* version it may end likewise.
CallsNull(x, c) ==
  /\ side = "request" /\ ~x.error
  /\ x.HTTP_master \in {"START_LINE", "START_LINE_CR"} /\ x.HTTP_start_line = "METHOD"
  /\ c = "NUL"

\* One turn of their loop.
Parse ==
  /\ pending # <<>>
  /\ ~CallsNull(ctx, Head(pending))
  /\ ctx' = http_master(ctx, Head(pending))
  /\ pending' = Tail(pending)
  /\ received' = Append(received, Head(pending))
  /\ UNCHANGED <<side, reads>>

Next == Read \/ Parse

Spec == Init /\ [][Next]_vars
=============================================================================
