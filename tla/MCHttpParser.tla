---------------------------- MODULE MCHttpParser ----------------------------
(***************************************************************************)
(* An instance of the parser for TLC.  Names have two letters; the names   *)
(* of Connection and Content-Length begin alike, as in the code.           *)
(***************************************************************************)
EXTENDS HttpParserProperties

EOL == <<"CR", "LF">>

ConnectName == <<"C", "N">>

Small == [a |-> "a", c |-> "c", h |-> "h", l |-> "l", n |-> "n", o |-> "o", u |-> "u",
          H |-> "h", C |-> "c", N |-> "n"]

Looked == [host |-> <<"h", "o">>, content_length |-> <<"c", "l">>,
           auth |-> <<"a", "u">>, connection |-> <<"c", "n">>]

\* The codes of the bytes, for their classes.
Code ==
  [a |-> 97, c |-> 99, h |-> 104, l |-> 108, n |-> 110, o |-> 111, u |-> 117,
   H |-> 72, C |-> 67, N |-> 78, one |-> 49, two |-> 50, CR |-> 13, LF |-> 10, SP |-> 32,
   COLON |-> 58, SLASH |-> 47, STAR |-> 42, DASH |-> 45, UNDERSCORE |-> 95, NUL |-> 0]

Scheme == <<"a", "COLON", "SLASH", "SLASH">>

Line(method, target) == method \o <<"SP">> \o target \o <<"SP", "one">> \o EOL

Class == INSTANCE CharClasses
Bytes == DOMAIN Code
Letters == {b \in Bytes : Code[b] \in Class!TokenAlpha}
SchemeBytes == {b \in Bytes : Code[b] \in Class!SchemeToken}

FirstReads ==
  [request  |-> {Line(<<"o">>, Scheme \o <<"u", "DASH", "u", "SLASH">>),
                 Line(<<"o">>, Scheme \o <<"u">>),
                 Line(<<"C", "N">>, <<"u">>),
                 Line(<<"C", "o", "N">>, <<"u">>),
                 Line(<<"o", "NUL">>, <<"u">>),
                 Line(<<"N", "C">>, Scheme \o <<"C", "SLASH", "N">>),
                 Line(<<"o">>, <<"STAR">>),
                 Line(<<"o">>, <<"SLASH">>),
                 Line(<<"o">>, <<"STAR", "u">>),
                 Line(<<"o">>, Scheme \o <<"u", "UNDERSCORE", "SLASH">>),
                 Line(<<"o">>, Scheme \o <<"u", "u", "u", "u", "u", "u", "SLASH">>),
                 Line(<<"o", "o", "o", "o", "o">>, Scheme),
                 Line(<<"C", "N">>, <<"u", "SP", "one">>),
                 Line(<<"o">>, Scheme \o <<"SLASH", "u", "DASH", "SLASH", "SLASH">>),
                 <<"o", "SP">> \o Scheme \o <<"u", "SLASH">> \o EOL,
                 <<"C">> \o EOL},
   response |-> {<<"one", "SP", "two">> \o EOL}]

LaterReads ==
  {<<"h", "o", "COLON", "SP", "SP", "n", "SP">> \o EOL,
   <<"H", "o", "COLON", "l", "CR", "CR", "LF">>,
   <<"h", "o", "COLON">> \o EOL,
   <<"C", "N", "COLON", "c">> \o EOL,
   <<"h", "o", "n", "COLON", "c", "n">> \o EOL,
   <<"c">>, <<"COLON">>, <<"CR">>, EOL}
=============================================================================
