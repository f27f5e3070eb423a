----------------------------- MODULE Authorization -----------------------------
(***************************************************************************)
(* What saveAuthorization (proxyUtils.c) makes of the value of the header  *)
(* Authorization once a client has ended its request: it looks for the     *)
(* scheme Basic, then for a token, and writes the decoded credentials to   *)
(* the log.  Its two loops count in a byte (uint8_t), whatever the length  *)
(* of the value.  Positions count from 0.                                  *)
(***************************************************************************)
EXTENDS Base64

CONSTANTS
  CounterSize,   \* how many values the two counters have (256 in the code)
  Values,        \* what the parser may have kept of the header
  Credentials    \* what clients encode in it

AuthorizationAssumption ==
  /\ CounterSize \in Nat \ {0}
  /\ Values \subseteq Seq(Octet)
  /\ Credentials \subseteq Seq(Octet) \ {<<>>}

ASSUME AuthorizationAssumption

VARIABLES
  authorization,  \* ctx->auth, a buffer with `from` bytes
  i, j,           \* the counters of the two loops
  out,            \* what is written to the log
  pc

vars == <<authorization, i, j, out, pc>>

Counter == 0 .. CounterSize - 1

from == Len(authorization)
At(k) == authorization[k + 1]

CR == 13
SP == 32

toupper(c) == IF c \in 97 .. 122 THEN c - 32 ELSE c

\* "Basic".
basic_string == <<66, 97, 115, 105, 99>>

\* Mutant: the counters have a bit less, as those of int8_t.
IncrementedShort(k) == (k + 1) % (CounterSize \div 2)

Incremented(k) == (k + 1) % CounterSize

Init ==
  /\ authorization \in Values
  /\ i = 0 /\ j = 0
  /\ out = <<>>
  /\ pc = "scan"

-----------------------------------------------------------------------------
(* The loop over i *)

Scanning == pc = "scan" /\ i < from

\* A value that ends before its token, or has none.
NoToken ==
  /\ pc = "scan"
  /\ i >= from
  /\ pc' = "returned"
  /\ UNCHANGED <<authorization, i, j, out>>

MatchScheme ==
  /\ Scanning /\ i < 5
  /\ IF toupper(At(i)) = toupper(basic_string[i + 1])
       THEN i' = Incremented(i) /\ pc' = "scan"
       ELSE i' = i /\ pc' = "returned"
  /\ UNCHANGED <<authorization, j, out>>

SkipSpace ==
  /\ Scanning /\ i >= 5
  /\ At(i) = SP
  /\ i' = Incremented(i)
  /\ UNCHANGED <<authorization, j, out, pc>>

FindToken ==
  /\ Scanning /\ i >= 5
  /\ At(i) # SP
  /\ pc' = "token"
  /\ UNCHANGED <<authorization, i, j, out>>

-----------------------------------------------------------------------------
(* The loop over j, and what follows it.  The byte after the value is read  *)
(* before the bound is tested; whatever it is, the loop ends there.         *)

InToken == i + j < from /\ At(i + j) \notin {CR, SP}

MeasureToken ==
  /\ pc = "token"
  /\ InToken
  /\ j' = Incremented(j)
  /\ UNCHANGED <<authorization, i, out, pc>>

Found == SubSeq(authorization, i + 1, i + j)

\* The credentials are logged.  When base64_decode returns NULL its result is
\* written to all the same, which ends the process.
Decode ==
  /\ pc = "token"
  /\ ~InToken
  /\ \/ Decodable(Found) /\ out' = base64_decode(Found) /\ pc' = "logged"
     \/ ~Decodable(Found) /\ UNCHANGED out /\ pc' = "fault"
  /\ UNCHANGED <<authorization, i, j>>

Loops == NoToken \/ MatchScheme \/ SkipSpace \/ FindToken \/ MeasureToken

Next == Loops \/ Decode

Spec == Init /\ [][Next]_vars

\* The function runs until it returns.
FairSpec == Spec /\ WF_vars(Loops) /\ WF_vars(Decode)

-----------------------------------------------------------------------------
(* Properties *)

Ended == {"returned", "logged", "fault"}

\* Every variable holds a value of its type; what is logged are bytes.
TypeOK ==
  /\ authorization \in Seq(Octet)
  /\ i \in Counter /\ j \in Counter
  /\ out \in Seq(Octet)
  /\ pc \in {"scan", "token"} \cup Ended

\* The value split without counters: the scheme, and the first run of bytes
\* after it that has no space and no carriage return.
IsBasic ==
  from >= 5 /\ \A k \in 1 .. 5 : toupper(authorization[k]) = toupper(basic_string[k])

TokenStart ==
  CHOOSE k \in 5 .. from : /\ k < from => At(k) # SP
                           /\ \A m \in 5 .. k - 1 : At(m) = SP

TokenEnd ==
  LET start == TokenStart
  IN  CHOOSE k \in start .. from : /\ k < from => At(k) \in {CR, SP}
                                   /\ \A m \in start .. k - 1 : At(m) \notin {CR, SP}

Token == SubSeq(authorization, TokenStart + 1, TokenEnd)

\* Whoever sends its credentials as Basic, in any case and after any number of
\* spaces, has exactly these logged: no length of theirs, no padding and nothing
\* that follows the token changes them or ends the process.
DecodesCredentials ==
  \A x \in Credentials :
    pc \in Ended /\ IsBasic /\ Token = Encode(x) => pc = "logged" /\ out = x

\* The function ends, as long as the counters can hold the start and the length
\* of the token, however long the whole value is.
SniffEnds ==
  pc = "scan" /\ i = 0 /\ (IsBasic => TokenStart \in Counter /\ TokenEnd - TokenStart \in Counter)
    => <>(pc \in Ended)
=============================================================================
