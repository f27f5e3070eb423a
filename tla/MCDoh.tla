-------------------------------- MODULE MCDoh --------------------------------
(***************************************************************************)
(* An instance of Doh for TLC: a name of two labels, both kinds of literal *)
(* addresses, and zones with and without aliases before the addresses,     *)
(* whose records name their owner by a pointer or in full.                 *)
(***************************************************************************)
EXTENDS Doh

FourOf(k) == [i \in 1 .. V4 |-> k]
SixteenOf(k) == [i \in 1 .. V6 |-> k]
Loopback == <<127, 0, 0, 1>>

SomeHosts ==
  LET H(literal, labels, port) ==
        [literal |-> literal, labels |-> labels, port |-> port]
  IN  {H(<<>>, <<<<97>>, <<98, 99>>>>, 0), H(<<>>, <<<<97>>, <<98, 99>>>>, 8080),
       H(FourOf(7), <<>>, 81), H(SixteenOf(7), <<>>, 0), H(Loopback, <<>>, 8080)}

Pointer == <<192, 12>>
InFull  == <<1, 97, 2, 98, 99, 0>>

SomeZones ==
  LET R(name, type, data) == [name |-> name, type |-> type, data |-> data]
      Alias == R(Pointer, 5, <<1, 100, 0>>)
      OfA == {[rcode |-> 3, records |-> <<>>],
              [rcode |-> 0, records |-> <<>>],
              [rcode |-> 0, records |-> <<R(Pointer, A, FourOf(1)),
                                          R(Pointer, A, Loopback)>>],
              [rcode |-> 0, records |-> <<Alias, R(InFull, A, FourOf(1)),
                                          R(Pointer, A, FourOf(2))>>]}
      OfAAAA == {[rcode |-> 3, records |-> <<>>],
                 [rcode |-> 0, records |-> <<>>],
                 [rcode |-> 0, records |-> <<R(InFull, AAAA, SixteenOf(3)), Alias,
                                             R(Pointer, AAAA, SixteenOf(4))>>]}
  IN  {[t \in {A, AAAA} |-> IF t = A THEN a ELSE b] : a \in OfA, b \in OfAAAA}

Own == {Loopback, SixteenOf(0)}
=============================================================================
