---------------------------- MODULE MCAuthorization ----------------------------
(***************************************************************************)
(* An instance of Authorization for TLC with counters of 5 bits instead of *)
(* 8: tokens and spaces on both sides of the largest count, every padding, *)
(* text after the token, other schemes, and tokens that are not Base64.    *)
(***************************************************************************)
EXTENDS Authorization

Of(c, k) == [m \in 1 .. k |-> c]

Basic  == basic_string
bAsIc  == <<98, 65, 115, 73, 99>>
Bearer == <<66, 101, 97, 114, 101, 114>>

Short == {<<97, 58, 98>>, <<97, 58, 255, 0>>, <<58>>, <<97, 58>>}
Long  == {Of(255, 21), Of(0, 19), Of(7, 24), [k \in 1 .. 20 |-> 11 * k]}
SomeCredentials == Short \cup Long

Tails == {<<>>, <<SP>>, <<CR>>, <<SP, 97>>}

NotBase64 == {<<81, 85, 74>>, <<81, 61, 61, 61>>, <<PadSign>>, <<36>>}

\* A group after a padded one, and signs that are not of the alphabet.
Loose == {<<81, 81, 61, 61, 81, 85, 74, 68>>, <<36, 81, 85, 36, 74, 68>>}

SomeValues ==
  {scheme \o space \o token \o tail :
     scheme \in {Basic, bAsIc}, space \in {Of(SP, k) : k \in {0, 1, 2}},
     token \in {Encode(x) : x \in Short} \cup NotBase64 \cup Loose, tail \in Tails}
  \cup {Basic \o <<SP>> \o Encode(x) \o tail : x \in Long, tail \in {<<>>, <<SP>> \o Of(97, 50)}}
  \cup {Basic \o <<SP>> \o token : token \in {Of(97, 31), Of(97, 32), Of(36, 50)}}
  \cup {Basic \o Of(SP, k) \o Encode(<<97, 58, 98>>) : k \in {10, 11, 26, 27, 50}}
  \cup {Basic \o Of(SP, k) : k \in {0, 3, 26, 27, 50}}
  \cup {<<>>, Bearer, <<66, 97>>, Basic \o Of(97, 30)}
=============================================================================
