-------------------------- MODULE AuthorizationProofs --------------------------
(***************************************************************************)
(* Theorems about Base64 and Authorization, for every text, every value of *)
(* the header and every size of the counters.                              *)
(***************************************************************************)
EXTENDS Authorization, SequenceLemmas, SequenceTheorems, TLAPS

-----------------------------------------------------------------------------
(* The table of base64Decoder.c and its inverse *)

LEMMA TableIsInjective ==
  /\ \A k \in Sextet : base64_table[k] \in Octet \ {PadSign}
  /\ \A k, m \in Sextet : base64_table[k] = base64_table[m] => k = m
BY SMTT(30) DEF base64_table, Sextet, Octet, PadSign

LEMMA TableIsUndone ==
  /\ \A k \in Sextet : /\ base64_table[k] \in Alphabet
                       /\ base64_table[k] # PadSign
                       /\ dtable[base64_table[k]] = k
  /\ PadSign \in Alphabet /\ dtable[PadSign] = 0
  /\ \A c \in Alphabet : dtable[c] \in Sextet
<1>1. PadSign \in Alphabet /\ dtable[PadSign] = 0
  BY DEF Alphabet, dtable
<1>2. ASSUME NEW k \in Sextet
      PROVE  /\ base64_table[k] \in Alphabet
             /\ base64_table[k] # PadSign
             /\ dtable[base64_table[k]] = k
  <2> DEFINE c == base64_table[k]
  <2>1. c \in Alphabet /\ c # PadSign
    BY TableIsInjective DEF Alphabet
  <2> HIDE DEF c
  <2>2. dtable[c] = CHOOSE m \in Sextet : base64_table[m] = c
    BY <2>1 DEF dtable
  <2>3. \A m \in Sextet : base64_table[m] = c => m = k
    BY TableIsInjective DEF c
  <2>4. k \in Sextet /\ base64_table[k] = c
    BY DEF c
  <2>5. (CHOOSE m \in Sextet : base64_table[m] = c) = k
    BY <2>3, <2>4
  <2> QED
    BY <2>1, <2>2, <2>5 DEF c
<1>3. ASSUME NEW c \in Alphabet
      PROVE  dtable[c] \in Sextet
  <2>1. CASE c = PadSign
    BY <2>1, <1>1 DEF Sextet
  <2>2. CASE c # PadSign
    <3> PICK k \in Sextet : c = base64_table[k]
      BY <2>2 DEF Alphabet
    <3> QED
      BY <1>2
  <2> QED
    BY <2>1, <2>2
<1> QED
  BY <1>1, <1>2, <1>3

-----------------------------------------------------------------------------
(* Bits *)

\* The byte at position q of a text, or what stands for it after its end.
ByteAt(x, q) == IF q <= Len(x) THEN x[q] ELSE 0

LEMMA ByteType ==
  ASSUME NEW x \in Seq(Octet), NEW q \in Nat \ {0}
  PROVE  ByteAt(x, q) \in Octet
<1>1. 0 \in Octet
  BY DEF Octet
<1>2. q <= Len(x) => x[q] \in Octet
  OBVIOUS
<1> QED
  BY <1>1, <1>2 DEF ByteAt

\* Bit b of byte q + 1.
LEMMA BitsOfByte ==
  ASSUME NEW x \in Seq(Octet), NEW q \in Nat
  PROVE  /\ Bit(x, 8 * q) = (ByteAt(x, q + 1) \div 128) % 2
         /\ Bit(x, 8 * q + 1) = (ByteAt(x, q + 1) \div 64) % 2
         /\ Bit(x, 8 * q + 2) = (ByteAt(x, q + 1) \div 32) % 2
         /\ Bit(x, 8 * q + 3) = (ByteAt(x, q + 1) \div 16) % 2
         /\ Bit(x, 8 * q + 4) = (ByteAt(x, q + 1) \div 8) % 2
         /\ Bit(x, 8 * q + 5) = (ByteAt(x, q + 1) \div 4) % 2
         /\ Bit(x, 8 * q + 6) = (ByteAt(x, q + 1) \div 2) % 2
         /\ Bit(x, 8 * q + 7) = ByteAt(x, q + 1) % 2
<1> DEFINE B(b) ==
      IF q < Len(x) THEN (x[q + 1] \div 2 ^ (7 - b)) % 2 ELSE 0
<1>1. ASSUME NEW b \in 0 .. 7
      PROVE  Bit(x, 8 * q + b) = B(b)
  <2>1. (8 * q + b) \div 8 = q /\ (8 * q + b) % 8 = b
    OBVIOUS
  <2>2. 8 * q + b < 8 * Len(x) <=> q < Len(x)
    OBVIOUS
  <2> QED
    BY <2>1, <2>2 DEF Bit
<1>2. /\ 2 ^ (7 - 0) = 128 /\ 2 ^ (7 - 1) = 64 /\ 2 ^ (7 - 2) = 32
      /\ 2 ^ (7 - 3) = 16 /\ 2 ^ (7 - 4) = 8 /\ 2 ^ (7 - 5) = 4
      /\ 2 ^ (7 - 6) = 2 /\ 2 ^ (7 - 7) = 1
  OBVIOUS
<1> DEFINE t == ByteAt(x, q + 1)
<1>3. t \in Octet /\ t = IF q < Len(x) THEN x[q + 1] ELSE 0
  <2>1. q + 1 \in Nat \ {0} /\ (q + 1 <= Len(x) <=> q < Len(x))
    OBVIOUS
  <2> QED
    BY <2>1, ByteType DEF ByteAt
<1> HIDE DEF t
<1>4. /\ B(0) = (t \div 128) % 2 /\ B(1) = (t \div 64) % 2 /\ B(2) = (t \div 32) % 2
      /\ B(3) = (t \div 16) % 2 /\ B(4) = (t \div 8) % 2 /\ B(5) = (t \div 4) % 2
      /\ B(6) = (t \div 2) % 2 /\ B(7) = t % 2
  BY <1>2, <1>3 DEF Octet
<1> HIDE DEF B
<1>5. /\ Bit(x, 8 * q + 0) = B(0) /\ Bit(x, 8 * q + 1) = B(1)
      /\ Bit(x, 8 * q + 2) = B(2) /\ Bit(x, 8 * q + 3) = B(3)
      /\ Bit(x, 8 * q + 4) = B(4) /\ Bit(x, 8 * q + 5) = B(5)
      /\ Bit(x, 8 * q + 6) = B(6) /\ Bit(x, 8 * q + 7) = B(7)
  BY <1>1
<1>6. 8 * q + 0 = 8 * q
  OBVIOUS
<1> QED
  BY <1>4, <1>5, <1>6 DEF t
\* The four signs of three bytes, as numbers.
Sextets(t) ==
  <<t[1] \div 4, (t[1] % 4) * 16 + (t[2] \div 16), (t[2] % 16) * 4 + (t[3] \div 64),
    t[3] % 64>>

\* Three bytes of a text from position 3 * m + 1 on.
Triple(x, m) ==
  <<ByteAt(x, 3 * m + 1), ByteAt(x, 3 * m + 2), ByteAt(x, 3 * m + 3)>>

LEMMA TripleType ==
  ASSUME NEW x \in Seq(Octet), NEW m \in Nat
  PROVE  Triple(x, m) \in Octet \X Octet \X Octet
<1>1. 3 * m + 1 \in Nat \ {0} /\ 3 * m + 2 \in Nat \ {0} /\ 3 * m + 3 \in Nat \ {0}
  OBVIOUS
<1> QED
  BY <1>1, ByteType DEF Triple

LEMMA SextetsType ==
  ASSUME NEW t \in Octet \X Octet \X Octet
  PROVE  Sextets(t) \in Sextet \X Sextet \X Sextet \X Sextet
BY DEF Octet, Sextet, Sextets

\* What the bits of bytes add up to.
FirstSextet(a) ==
  32 * ((a \div 128) % 2) + 16 * ((a \div 64) % 2) + 8 * ((a \div 32) % 2)
    + 4 * ((a \div 16) % 2) + 2 * ((a \div 8) % 2) + ((a \div 4) % 2)
SecondSextet(a, b) ==
  32 * ((a \div 2) % 2) + 16 * (a % 2) + 8 * ((b \div 128) % 2)
    + 4 * ((b \div 64) % 2) + 2 * ((b \div 32) % 2) + ((b \div 16) % 2)
ThirdSextet(b, c) ==
  32 * ((b \div 8) % 2) + 16 * ((b \div 4) % 2) + 8 * ((b \div 2) % 2)
    + 4 * (b % 2) + 2 * ((c \div 128) % 2) + ((c \div 64) % 2)
FourthSextet(c) ==
  32 * ((c \div 32) % 2) + 16 * ((c \div 16) % 2) + 8 * ((c \div 8) % 2)
    + 4 * ((c \div 4) % 2) + 2 * ((c \div 2) % 2) + (c % 2)

\* The bits above the lowest k of a byte are its quotient, the others its rest.
LEMMA BitsAddUp ==
  ASSUME NEW a \in Octet, NEW b \in Octet
  PROVE  /\ FirstSextet(a) = a \div 4
         /\ SecondSextet(a, b) = (a % 4) * 16 + (b \div 16)
         /\ ThirdSextet(a, b) = (a % 16) * 4 + (b \div 64)
         /\ FourthSextet(a) = a % 64
<1>1. FirstSextet(a) = a \div 4
  BY DEF Octet, FirstSextet
<1>2. 2 * ((a \div 2) % 2) + (a % 2) = a % 4
  BY DEF Octet
<1>3. 8 * ((b \div 128) % 2) + 4 * ((b \div 64) % 2) + 2 * ((b \div 32) % 2)
        + ((b \div 16) % 2) = b \div 16
  BY DEF Octet
<1>4. SecondSextet(a, b) = (a % 4) * 16 + (b \div 16)
  BY <1>2, <1>3 DEF SecondSextet, Octet
<1>5. 8 * ((a \div 8) % 2) + 4 * ((a \div 4) % 2) + 2 * ((a \div 2) % 2) + (a % 2)
        = a % 16
  BY DEF Octet
<1>6. 2 * ((b \div 128) % 2) + ((b \div 64) % 2) = b \div 64
  BY DEF Octet
<1>7. ThirdSextet(a, b) = (a % 16) * 4 + (b \div 64)
  BY <1>5, <1>6 DEF ThirdSextet, Octet
<1>8. FourthSextet(a) = a % 64
  BY SMTT(30) DEF Octet, FourthSextet
<1> QED
  BY <1>1, <1>4, <1>7, <1>8

\* The sextets of Encode are those of the three bytes they begin in.
LEMMA SextetsOfTriple ==
  ASSUME NEW x \in Seq(Octet), NEW m \in Nat
  PROVE  /\ SextetAt(x, 24 * m) = Sextets(Triple(x, m))[1]
         /\ SextetAt(x, 24 * m + 6) = Sextets(Triple(x, m))[2]
         /\ SextetAt(x, 24 * m + 12) = Sextets(Triple(x, m))[3]
         /\ SextetAt(x, 24 * m + 18) = Sextets(Triple(x, m))[4]
<1> DEFINE a == ByteAt(x, 3 * m + 1)
           b == ByteAt(x, 3 * m + 2)
           c == ByteAt(x, 3 * m + 3)
           B(p) == Bit(x, 24 * m + p)
<1>1. a \in Octet /\ b \in Octet /\ c \in Octet
  <2>1. 3 * m + 1 \in Nat \ {0} /\ 3 * m + 2 \in Nat \ {0} /\ 3 * m + 3 \in Nat \ {0}
    OBVIOUS
  <2> QED
    BY <2>1, ByteType
<1>2. /\ B(0) = (a \div 128) % 2 /\ B(1) = (a \div 64) % 2 /\ B(2) = (a \div 32) % 2
      /\ B(3) = (a \div 16) % 2 /\ B(4) = (a \div 8) % 2 /\ B(5) = (a \div 4) % 2
      /\ B(6) = (a \div 2) % 2 /\ B(7) = a % 2
  <2>1. 3 * m \in Nat /\ 8 * (3 * m) = 24 * m /\ 24 * m + 0 = 24 * m
    OBVIOUS
  <2> QED
    BY <2>1, BitsOfByte
<1>3. /\ B(8) = (b \div 128) % 2 /\ B(9) = (b \div 64) % 2 /\ B(10) = (b \div 32) % 2
      /\ B(11) = (b \div 16) % 2 /\ B(12) = (b \div 8) % 2 /\ B(13) = (b \div 4) % 2
      /\ B(14) = (b \div 2) % 2 /\ B(15) = b % 2
  <2> DEFINE q == 3 * m + 1
  <2>1. /\ q \in Nat /\ q + 1 = 3 * m + 2 /\ 8 * q = 24 * m + 8
        /\ 8 * q + 1 = 24 * m + 9 /\ 8 * q + 2 = 24 * m + 10 /\ 8 * q + 3 = 24 * m + 11
        /\ 8 * q + 4 = 24 * m + 12 /\ 8 * q + 5 = 24 * m + 13 /\ 8 * q + 6 = 24 * m + 14
        /\ 8 * q + 7 = 24 * m + 15
    OBVIOUS
  <2> HIDE DEF q
  <2>2. /\ Bit(x, 8 * q) = (ByteAt(x, q + 1) \div 128) % 2
        /\ Bit(x, 8 * q + 1) = (ByteAt(x, q + 1) \div 64) % 2
        /\ Bit(x, 8 * q + 2) = (ByteAt(x, q + 1) \div 32) % 2
        /\ Bit(x, 8 * q + 3) = (ByteAt(x, q + 1) \div 16) % 2
        /\ Bit(x, 8 * q + 4) = (ByteAt(x, q + 1) \div 8) % 2
        /\ Bit(x, 8 * q + 5) = (ByteAt(x, q + 1) \div 4) % 2
        /\ Bit(x, 8 * q + 6) = (ByteAt(x, q + 1) \div 2) % 2
        /\ Bit(x, 8 * q + 7) = ByteAt(x, q + 1) % 2
    BY <2>1, BitsOfByte
  <2> QED
    BY <2>1, <2>2, ZenonT(30)
<1>4. /\ B(16) = (c \div 128) % 2 /\ B(17) = (c \div 64) % 2 /\ B(18) = (c \div 32) % 2
      /\ B(19) = (c \div 16) % 2 /\ B(20) = (c \div 8) % 2 /\ B(21) = (c \div 4) % 2
      /\ B(22) = (c \div 2) % 2 /\ B(23) = c % 2
  <2> DEFINE q == 3 * m + 2
  <2>1. /\ q \in Nat /\ q + 1 = 3 * m + 3 /\ 8 * q = 24 * m + 16
        /\ 8 * q + 1 = 24 * m + 17 /\ 8 * q + 2 = 24 * m + 18 /\ 8 * q + 3 = 24 * m + 19
        /\ 8 * q + 4 = 24 * m + 20 /\ 8 * q + 5 = 24 * m + 21 /\ 8 * q + 6 = 24 * m + 22
        /\ 8 * q + 7 = 24 * m + 23
    OBVIOUS
  <2> HIDE DEF q
  <2>2. /\ Bit(x, 8 * q) = (ByteAt(x, q + 1) \div 128) % 2
        /\ Bit(x, 8 * q + 1) = (ByteAt(x, q + 1) \div 64) % 2
        /\ Bit(x, 8 * q + 2) = (ByteAt(x, q + 1) \div 32) % 2
        /\ Bit(x, 8 * q + 3) = (ByteAt(x, q + 1) \div 16) % 2
        /\ Bit(x, 8 * q + 4) = (ByteAt(x, q + 1) \div 8) % 2
        /\ Bit(x, 8 * q + 5) = (ByteAt(x, q + 1) \div 4) % 2
        /\ Bit(x, 8 * q + 6) = (ByteAt(x, q + 1) \div 2) % 2
        /\ Bit(x, 8 * q + 7) = ByteAt(x, q + 1) % 2
    BY <2>1, BitsOfByte
  <2> QED
    BY <2>1, <2>2, ZenonT(30)
<1>5. /\ SextetAt(x, 24 * m) =
           32 * B(0) + 16 * B(1) + 8 * B(2) + 4 * B(3) + 2 * B(4) + B(5)
      /\ SextetAt(x, 24 * m + 6) =
           32 * B(6) + 16 * B(7) + 8 * B(8) + 4 * B(9) + 2 * B(10) + B(11)
      /\ SextetAt(x, 24 * m + 12) =
           32 * B(12) + 16 * B(13) + 8 * B(14) + 4 * B(15) + 2 * B(16) + B(17)
      /\ SextetAt(x, 24 * m + 18) =
           32 * B(18) + 16 * B(19) + 8 * B(20) + 4 * B(21) + 2 * B(22) + B(23)
  <2>1. /\ 24 * m + 0 = 24 * m
        /\ (24 * m + 6) + 1 = 24 * m + 7 /\ (24 * m + 6) + 2 = 24 * m + 8
        /\ (24 * m + 6) + 3 = 24 * m + 9 /\ (24 * m + 6) + 4 = 24 * m + 10
        /\ (24 * m + 6) + 5 = 24 * m + 11
    OBVIOUS
  <2>2. /\ (24 * m + 12) + 1 = 24 * m + 13 /\ (24 * m + 12) + 2 = 24 * m + 14
        /\ (24 * m + 12) + 3 = 24 * m + 15 /\ (24 * m + 12) + 4 = 24 * m + 16
        /\ (24 * m + 12) + 5 = 24 * m + 17
    OBVIOUS
  <2>3. /\ (24 * m + 18) + 1 = 24 * m + 19 /\ (24 * m + 18) + 2 = 24 * m + 20
        /\ (24 * m + 18) + 3 = 24 * m + 21 /\ (24 * m + 18) + 4 = 24 * m + 22
        /\ (24 * m + 18) + 5 = 24 * m + 23
    OBVIOUS
  <2> QED
    BY <2>1, <2>2, <2>3 DEF SextetAt
<1>6. Sextets(Triple(x, m)) =
        <<a \div 4, (a % 4) * 16 + (b \div 16), (b % 16) * 4 + (c \div 64), c % 64>>
  BY DEF Sextets, Triple
<1> HIDE DEF a, b, c, B
<1>7. /\ SextetAt(x, 24 * m) = FirstSextet(a)
      /\ SextetAt(x, 24 * m + 6) = SecondSextet(a, b)
      /\ SextetAt(x, 24 * m + 12) = ThirdSextet(b, c)
      /\ SextetAt(x, 24 * m + 18) = FourthSextet(c)
  BY <1>2, <1>3, <1>4, <1>5, Zenon DEF FirstSextet, SecondSextet, ThirdSextet, FourthSextet
<1>8. /\ FirstSextet(a) = a \div 4
      /\ SecondSextet(a, b) = (a % 4) * 16 + (b \div 16)
      /\ ThirdSextet(b, c) = (b % 16) * 4 + (c \div 64)
      /\ FourthSextet(c) = c % 64
  BY <1>1, BitsAddUp
<1> HIDE DEF Sextets
<1> QED
  BY <1>6, <1>7, <1>8

\* The shifts of base64_decode put the three bytes together again.
LEMMA ShiftsUndone ==
  ASSUME NEW t \in Octet \X Octet \X Octet
  PROVE  ThreeOctets(Sextets(t)) = t
<1> DEFINE a == t[1]
           b == t[2]
           c == t[3]
<1>1. a \in Octet /\ b \in Octet /\ c \in Octet /\ t = <<a, b, c>>
  OBVIOUS
<1> HIDE DEF a, b, c
<1>2. /\ ((a \div 4) * 4 + (((a % 4) * 16 + (b \div 16)) \div 16)) % 256 = a
      /\ (((a % 4) * 16 + (b \div 16)) * 16
            + (((b % 16) * 4 + (c \div 64)) \div 4)) % 256 = b
      /\ (((b % 16) * 4 + (c \div 64)) * 64 + (c % 64)) % 256 = c
  BY <1>1 DEF Octet
<1> QED
  BY <1>1, <1>2 DEF ThreeOctets, Sextets
-----------------------------------------------------------------------------
(* Groups of four signs *)

Count(x) == (Len(x) + 2) \div 3

LEMMA CountOf ==
  ASSUME NEW x \in Seq(Octet), x # <<>>
  PROVE  /\ Count(x) \in Nat \ {0} /\ Len(x) \in Nat \ {0}
         /\ 3 * (Count(x) - 1) < Len(x) /\ Len(x) <= 3 * Count(x)
<1>1. Len(x) \in Nat \ {0}
  OBVIOUS
<1> QED
  BY <1>1 DEF Count

\* The signs of group m + 1, of which the last two may stand for no byte.
LEMMA SignsOfGroup ==
  ASSUME NEW x \in Seq(Octet), x # <<>>, NEW m \in 0 .. Count(x) - 1
  PROVE  LET q == Sextets(Triple(x, m))
             e == Encode(x)
         IN  /\ q \in Sextet \X Sextet \X Sextet \X Sextet
             /\ e[4 * m + 1] = base64_table[q[1]]
             /\ e[4 * m + 2] = base64_table[q[2]]
             /\ e[4 * m + 3] = IF 3 * m + 2 <= Len(x) THEN base64_table[q[3]] ELSE PadSign
             /\ e[4 * m + 4] = IF 3 * m + 3 <= Len(x) THEN base64_table[q[4]] ELSE PadSign
             /\ 3 * m + 2 > Len(x) => q[3] = 0
             /\ 3 * m + 3 > Len(x) => q[4] = 0
<1> DEFINE q == Sextets(Triple(x, m))
           n == Len(x)
<1>1. /\ m \in Nat /\ n \in Nat /\ 3 * m < n /\ m < Count(x) /\ Count(x) \in Nat
  BY CountOf
<1>2. q \in Sextet \X Sextet \X Sextet \X Sextet
  BY <1>1, TripleType, SextetsType
<1>3. /\ SextetAt(x, 24 * m) = q[1] /\ SextetAt(x, 24 * m + 6) = q[2]
      /\ SextetAt(x, 24 * m + 12) = q[3] /\ SextetAt(x, 24 * m + 18) = q[4]
  BY <1>1, SextetsOfTriple
<1>4. /\ 3 * m + 2 > n => q[3] = 0
      /\ 3 * m + 3 > n => q[4] = 0
  <2>1. 3 * m + 2 > n => ByteAt(x, 3 * m + 2) = 0
    BY <1>1 DEF ByteAt
  <2>2. 3 * m + 3 > n => ByteAt(x, 3 * m + 3) = 0
    BY <1>1 DEF ByteAt
  <2>3. 3 * m + 2 > n => 3 * m + 3 > n
    BY <1>1
  <2> QED
    BY <2>1, <2>2, <2>3 DEF Sextets, Triple
<1> HIDE DEF q
<1>5. /\ 4 * m + 1 \in 1 .. 4 * Count(x) /\ 4 * m + 2 \in 1 .. 4 * Count(x)
      /\ 4 * m + 3 \in 1 .. 4 * Count(x) /\ 4 * m + 4 \in 1 .. 4 * Count(x)
  BY <1>1
<1>6. \A k \in 1 .. 4 * Count(x) :
        Encode(x)[k] = IF 6 * (k - 1) < 8 * n THEN base64_table[SextetAt(x, 6 * (k - 1))]
                       ELSE PadSign
  BY DEF Encode, Count
<1>7. /\ 6 * ((4 * m + 1) - 1) = 24 * m /\ 24 * m < 8 * n
      /\ 6 * ((4 * m + 2) - 1) = 24 * m + 6 /\ 24 * m + 6 < 8 * n
      /\ 6 * ((4 * m + 3) - 1) = 24 * m + 12
      /\ 24 * m + 12 < 8 * n <=> 3 * m + 2 <= n
      /\ 6 * ((4 * m + 4) - 1) = 24 * m + 18
      /\ 24 * m + 18 < 8 * n <=> 3 * m + 3 <= n
  BY <1>1
<1> HIDE DEF n
<1>8. /\ Encode(x)[4 * m + 1] = base64_table[q[1]]
      /\ Encode(x)[4 * m + 2] = base64_table[q[2]]
  BY <1>3, <1>5, <1>6, <1>7
<1>9. /\ Encode(x)[4 * m + 3] = IF 3 * m + 2 <= n THEN base64_table[q[3]] ELSE PadSign
      /\ Encode(x)[4 * m + 4] = IF 3 * m + 3 <= n THEN base64_table[q[4]] ELSE PadSign
  BY <1>3, <1>5, <1>6, <1>7
<1> QED
  BY <1>2, <1>4, <1>8, <1>9 DEF q, n

LEMMA EncodeType ==
  ASSUME NEW x \in Seq(Octet), x # <<>>
  PROVE  Encode(x) \in Seq(Alphabet) /\ Len(Encode(x)) = 4 * Count(x)
<1> DEFINE e == Encode(x)
<1>1. Count(x) \in Nat \ {0}
  BY CountOf
<1>2. DOMAIN e = 1 .. 4 * Count(x) /\ e = [k \in 1 .. 4 * Count(x) |-> e[k]]
  BY DEF Encode, Count
<1>3. ASSUME NEW k \in 1 .. 4 * Count(x)
      PROVE  e[k] \in Alphabet
  <2> DEFINE m == (k - 1) \div 4
             q == Sextets(Triple(x, m))
  <2>1. /\ m \in 0 .. Count(x) - 1
        /\ k \in {4 * m + 1, 4 * m + 2, 4 * m + 3, 4 * m + 4}
    BY <1>1
  <2> HIDE DEF m
  <2>2. /\ q \in Sextet \X Sextet \X Sextet \X Sextet
        /\ e[4 * m + 1] = base64_table[q[1]]
        /\ e[4 * m + 2] = base64_table[q[2]]
        /\ e[4 * m + 3] \in {base64_table[q[3]], PadSign}
        /\ e[4 * m + 4] \in {base64_table[q[4]], PadSign}
    BY <2>1, SignsOfGroup
  <2> HIDE DEF q, e
  <2>3. q[1] \in Sextet /\ q[2] \in Sextet /\ q[3] \in Sextet /\ q[4] \in Sextet
    BY <2>2
  <2>4. /\ base64_table[q[1]] \in Alphabet /\ base64_table[q[2]] \in Alphabet
        /\ base64_table[q[3]] \in Alphabet /\ base64_table[q[4]] \in Alphabet
        /\ PadSign \in Alphabet
    BY <2>3, TableIsUndone, Zenon
  <2>5. \A p \in {4 * m + 1, 4 * m + 2, 4 * m + 3, 4 * m + 4} : e[p] \in Alphabet
    BY <2>2, <2>4, Zenon
  <2> QED
    BY <2>1, <2>5, Zenon
<1> HIDE DEF e
<1>4. e \in [1 .. 4 * Count(x) -> Alphabet]
  BY <1>2, <1>3
<1>5. 4 * Count(x) \in Nat
  BY <1>1
<1> QED
  BY <1>4, <1>5 DEF e

\* What base64_decode makes of the signs of a group.
LEMMA GroupOfEncode ==
  ASSUME NEW x \in Seq(Octet), x # <<>>, NEW m \in 0 .. Count(x) - 1
  PROVE  LET g == Group(Encode(x), m + 1)
         IN  /\ Block(g) = Sextets(Triple(x, m))
             /\ Pad(g) = IF 3 * m + 3 <= Len(x) THEN 0
                         ELSE IF 3 * m + 2 <= Len(x) THEN 1 ELSE 2
<1> DEFINE e == Encode(x)
           g == Group(e, m + 1)
           q == Sextets(Triple(x, m))
<1>1. /\ m \in Nat /\ Len(x) \in Nat /\ m < Count(x) /\ Count(x) \in Nat
  BY CountOf
<1>2. e \in Seq(Alphabet) /\ Len(e) = 4 * Count(x)
  BY EncodeType
<1>3. /\ q \in Sextet \X Sextet \X Sextet \X Sextet
      /\ e[4 * m + 1] = base64_table[q[1]]
      /\ e[4 * m + 2] = base64_table[q[2]]
      /\ e[4 * m + 3] = IF 3 * m + 2 <= Len(x) THEN base64_table[q[3]] ELSE PadSign
      /\ e[4 * m + 4] = IF 3 * m + 3 <= Len(x) THEN base64_table[q[4]] ELSE PadSign
      /\ 3 * m + 2 > Len(x) => q[3] = 0
      /\ 3 * m + 3 > Len(x) => q[4] = 0
  BY SignsOfGroup
<1> HIDE DEF e, q
<1>4. /\ g[1] = e[4 * m + 1] /\ g[2] = e[4 * m + 2] /\ g[3] = e[4 * m + 3]
      /\ g[4] = e[4 * m + 4]
  <2>1. 4 * (m + 1) - 3 = 4 * m + 1 /\ 4 * (m + 1) = 4 * m + 4
    BY <1>1
  <2>2. 4 * m + 1 \in 1 .. Len(e) + 1 /\ 4 * m + 4 \in 4 * m .. Len(e)
    BY <1>1, <1>2
  <2>3. \A k \in 1 .. 4 : SubSeq(e, 4 * m + 1, 4 * m + 4)[k] = e[4 * m + k]
    BY <1>1, <1>2, <2>2
  <2> QED
    BY <2>1, <2>3 DEF Group
<1> HIDE DEF g
<1>5. q[1] \in Sextet /\ q[2] \in Sextet /\ q[3] \in Sextet /\ q[4] \in Sextet
      /\ q = <<q[1], q[2], q[3], q[4]>>
  BY <1>3
<1>6. /\ dtable[g[1]] = q[1] /\ dtable[g[2]] = q[2]
      /\ dtable[g[3]] = q[3] /\ dtable[g[4]] = q[4]
  BY <1>1, <1>3, <1>4, <1>5, TableIsUndone
<1>7. Block(g) = q
  <2>1. Block(g) = <<dtable[g[1]], dtable[g[2]], dtable[g[3]], dtable[g[4]]>>
    BY DEF Block
  <2> QED
    BY <1>5, <1>6, <2>1
<1>8. /\ g[1] # PadSign /\ g[2] # PadSign
      /\ g[3] = PadSign <=> ~(3 * m + 2 <= Len(x))
      /\ g[4] = PadSign <=> ~(3 * m + 3 <= Len(x))
  BY <1>3, <1>4, <1>5, TableIsUndone
<1> DEFINE signs == {k \in 1 .. 4 : g[k] = PadSign}
<1>9. Pad(g) = Cardinality(signs)
  BY DEF Pad
<1>10. CASE 3 * m + 3 <= Len(x)
  <2>1. signs = {}
    BY <1>1, <1>8, <1>10
  <2> QED
    BY <1>7, <1>9, <1>10, <2>1, FS_EmptySet DEF g, e, q
<1>11. CASE ~(3 * m + 3 <= Len(x)) /\ 3 * m + 2 <= Len(x)
  <2>1. signs = {4}
    BY <1>1, <1>8, <1>11
  <2> QED
    BY <1>7, <1>9, <1>11, <2>1, FS_Singleton DEF g, e, q
<1>12. CASE ~(3 * m + 3 <= Len(x)) /\ ~(3 * m + 2 <= Len(x))
  <2>1. signs = 3 .. 4
    BY <1>1, <1>8, <1>12
  <2>2. Cardinality(3 .. 4) = 2
    <3>1. 3 \in Int /\ 4 \in Int
      OBVIOUS
    <3>2. Cardinality(3 .. 4) = IF 3 > 4 THEN 0 ELSE 4 - 3 + 1
      BY <3>1, FS_Interval, Zenon
    <3> QED
      BY <3>2
  <2> HIDE DEF signs
  <2> QED
    BY <1>7, <1>9, <1>12, <2>1, <2>2 DEF g, e, q
<1> QED
  BY <1>10, <1>11, <1>12
-----------------------------------------------------------------------------
(* The decoder *)

\* A text of the alphabet has no sign to be skipped.
LEMMA AllSignificant ==
  ASSUME NEW s \in Seq(Alphabet)
  PROVE  Significant(s) = s
<1> DEFINE one == [k \in DOMAIN s |-> IF s[k] \in Alphabet THEN <<s[k]>> ELSE <<>>]
           G == [k \in 1 .. Len(s) |-> SubSeq(s, 1, k)]
<1>1. one \in Seq(Seq(Alphabet)) /\ Len(one) = Len(s)
      /\ \A k \in 1 .. Len(s) : one[k] = <<s[k]>>
  <2>1. \A k \in 1 .. Len(s) : s[k] \in Alphabet /\ <<s[k]>> \in Seq(Alphabet)
    OBVIOUS
  <2>2. one = [k \in 1 .. Len(s) |-> <<s[k]>>]
    BY <2>1
  <2>3. one \in [1 .. Len(s) -> Seq(Alphabet)]
    BY <2>1, <2>2
  <2> QED
    BY <2>2, <2>3
<1>2. Significant(s) = FlattenSeq(one)
  BY DEF Significant
<1> HIDE DEF one
<1>3. CASE Len(s) = 0
  <2>1. one = <<>> /\ s = <<>>
    BY <1>1, <1>3
  <2> QED
    BY <1>2, <2>1 DEF FlattenSeq
<1>4. CASE Len(s) # 0
  <2>1. Len(one) \in Nat \ {0}
    BY <1>1, <1>4
  <2>2. G[1] = one[1]
    <3>1. 1 \in 1 .. Len(s) /\ SubSeq(s, 1, 1) = SubSeq(s, 1, 0) \o <<s[1]>>
      BY <1>4, SubSeqRecursiveSecond
    <3>2. SubSeq(s, 1, 0) = <<>> /\ <<>> \o <<s[1]>> = <<s[1]>>
      BY <1>4, SubSeqEmpty
    <3> QED
      BY <1>1, <3>1, <3>2
  <2>3. ASSUME NEW k \in 2 .. Len(one)
        PROVE  G[k] = G[k - 1] \o one[k]
    <3>1. k \in 1 .. Len(s) /\ k - 1 \in 1 .. Len(s) /\ 1 \in 1 .. Len(s)
      BY <1>1
    <3>2. G[k] = SubSeq(s, 1, k) /\ G[k - 1] = SubSeq(s, 1, k - 1)
      BY <3>1
    <3>3. one[k] = <<s[k]>>
      BY <1>1, <3>1
    <3> HIDE DEF G
    <3>4. SubSeq(s, 1, k) = SubSeq(s, 1, k - 1) \o <<s[k]>>
      BY <3>1, SubSeqRecursiveSecond
    <3> QED
      BY <3>2, <3>3, <3>4
  <2>4. FlattenSeq(one) = G[Len(one)]
    <3> HIDE DEF G
    <3> QED
      BY <2>1, <2>2, <2>3, FlattenIs
  <2>5. G[Len(one)] = s
    BY <1>1, <1>4
  <2> QED
    BY <1>2, <2>4, <2>5
<1> QED
  BY <1>3, <1>4

\* The groups of an encoded text: padding is in the last one only.
LEMMA GroupsOfEncode ==
  ASSUME NEW x \in Seq(Octet), x # <<>>
  PROVE  Groups(Encode(x)) = 1 .. Count(x)
<1> DEFINE e == Encode(x)
           padded == {k \in 1 .. Len(e) \div 4 : Pad(Group(e, k)) > 0}
<1>1. /\ Count(x) \in Nat \ {0} /\ Len(x) \in Nat
      /\ 3 * (Count(x) - 1) < Len(x) /\ Len(e) = 4 * Count(x)
  BY CountOf, EncodeType
<1>2. Len(e) \div 4 = Count(x)
  BY <1>1
<1> HIDE DEF e
<1>3. ASSUME NEW k \in padded
      PROVE  k = Count(x)
  <2>1. k \in 1 .. Count(x) /\ Pad(Group(e, k)) > 0
    BY <1>2
  <2> DEFINE m == k - 1
  <2>2. m \in 0 .. Count(x) - 1 /\ m + 1 = k
    BY <1>1, <2>1
  <2> HIDE DEF m
  <2>3. Pad(Group(e, k)) = IF 3 * m + 3 <= Len(x) THEN 0
                           ELSE IF 3 * m + 2 <= Len(x) THEN 1 ELSE 2
    BY <2>2, GroupOfEncode DEF e
  <2>4. ~(3 * m + 3 <= Len(x))
    BY <2>1, <2>3
  <2> QED
    BY <1>1, <2>2, <2>4
<1>4. Groups(e) = {k \in 1 .. Len(e) \div 4 : \A m \in padded : k <= m}
  BY DEF Groups
<1> HIDE DEF padded
<1>5. Groups(e) = 1 .. Count(x)
  BY <1>1, <1>2, <1>3, <1>4
<1> QED
  BY <1>5 DEF e

\* The bytes of group m + 1 are the three of the text, or those that are left.
LEMMA GroupDecodes ==
  ASSUME NEW x \in Seq(Octet), x # <<>>, NEW m \in 0 .. Count(x) - 1
  PROVE  LET g == Group(Encode(x), m + 1)
         IN  SubSeq(ThreeOctets(Block(g)), 1, Kept(g))
               = SubSeq(x, 3 * m + 1, IF 3 * m + 3 <= Len(x) THEN 3 * m + 3 ELSE Len(x))
<1> DEFINE g == Group(Encode(x), m + 1)
           t == Triple(x, m)
<1>1. /\ m \in Nat /\ Len(x) \in Nat /\ 3 * m < Len(x)
  BY CountOf
<1>2. t \in Octet \X Octet \X Octet
  BY <1>1, TripleType
<1>3. /\ Block(g) = Sextets(t)
      /\ Pad(g) = IF 3 * m + 3 <= Len(x) THEN 0
                  ELSE IF 3 * m + 2 <= Len(x) THEN 1 ELSE 2
  BY GroupOfEncode
<1> HIDE DEF g
<1>4. ThreeOctets(Block(g)) = t
  BY <1>2, <1>3, ShiftsUndone
<1>5. /\ t[1] = x[3 * m + 1]
      /\ 3 * m + 2 <= Len(x) => t[2] = x[3 * m + 2]
      /\ 3 * m + 3 <= Len(x) => t[3] = x[3 * m + 3]
      /\ t = <<t[1], t[2], t[3]>>
  BY <1>1 DEF Triple, ByteAt
<1> HIDE DEF t
<1>6. t \in Seq(Octet) /\ Len(t) = 3
  <2>1. t[1] \in Octet /\ t[2] \in Octet /\ t[3] \in Octet
    BY <1>2
  <2>2. <<t[1], t[2], t[3]>> \in Seq(Octet) /\ Len(<<t[1], t[2], t[3]>>) = 3
    BY <2>1
  <2> QED
    BY <1>5, <2>2
<1> DEFINE k == IF 3 * m + 3 <= Len(x) THEN 3 ELSE IF 3 * m + 2 <= Len(x) THEN 2 ELSE 1
<1>7. /\ k \in Nat /\ k <= 3 /\ 3 * m + k <= Len(x) /\ 3 * m \in Nat
      /\ 3 * m + k = IF 3 * m + 3 <= Len(x) THEN 3 * m + 3 ELSE Len(x)
  BY <1>1
<1>8. Kept(g) = k
  BY <1>3 DEF Kept
<1>9. ASSUME NEW p \in 1 .. k
      PROVE  t[p] = x[3 * m + p]
  <2>1. \/ p = 1
        \/ p = 2 /\ 3 * m + 2 <= Len(x)
        \/ p = 3 /\ 3 * m + 3 <= Len(x)
    BY <1>1
  <2> HIDE DEF k
  <2> QED
    BY <1>5, <2>1
<1> HIDE DEF k
<1>10. SubSeq(t, 1, k) = SubSeq(x, 3 * m + 1, 3 * m + k)
  BY <1>6, <1>7, <1>9, SameParts
<1> QED
  BY <1>4, <1>7, <1>8, <1>10 DEF g
\* base64_decode gives back every text that was encoded, to its last byte and
\* with none added, for each of the three lengths of its last group.
THEOREM DecodeUndoesEncode ==
  ASSUME NEW x \in Seq(Octet), x # <<>>
  PROVE  Decodable(Encode(x)) /\ base64_decode(Encode(x)) = x
<1> DEFINE e == Encode(x)
           n == Count(x)
           chunks == [k \in Groups(e) |->
                        SubSeq(ThreeOctets(Block(Group(e, k))), 1, Kept(Group(e, k)))]
           End(k) == IF 3 * k <= Len(x) THEN 3 * k ELSE Len(x)
           G == [k \in 1 .. n |-> SubSeq(x, 1, End(k))]
<1>1. /\ e \in Seq(Alphabet) /\ Len(e) = 4 * n /\ n \in Nat \ {0}
      /\ Len(x) \in Nat \ {0} /\ 3 * (n - 1) < Len(x) /\ Len(x) <= 3 * n
  BY CountOf, EncodeType
<1>2. Significant(e) = e /\ Groups(e) = 1 .. n
  BY <1>1, AllSignificant, GroupsOfEncode
<1>3. ASSUME NEW k \in 1 .. n
      PROVE  /\ Pad(Group(e, k)) <= 2
             /\ chunks[k] = SubSeq(x, 3 * (k - 1) + 1, End(k))
  <2> DEFINE m == k - 1
             g == Group(e, k)
  <2>1. m \in 0 .. n - 1 /\ m + 1 = k /\ 3 * m + 3 = 3 * k
    BY <1>1
  <2> HIDE DEF m
  <2>2. Pad(g) = IF 3 * m + 3 <= Len(x) THEN 0 ELSE IF 3 * m + 2 <= Len(x) THEN 1 ELSE 2
    BY <2>1, GroupOfEncode
  <2>3. SubSeq(ThreeOctets(Block(g)), 1, Kept(g)) = SubSeq(x, 3 * m + 1, End(k))
    BY <2>1, GroupDecodes
  <2>4. chunks[k] = SubSeq(ThreeOctets(Block(g)), 1, Kept(g))
    BY <1>2
  <2>5. Pad(g) <= 2
    BY <2>2
  <2> HIDE DEF chunks, g, End
  <2> QED
    BY <2>3, <2>4, <2>5 DEF m, g
<1>4. Decodable(e)
  <2>1. e # <<>> /\ Len(e) % 4 = 0
    BY <1>1
  <2>2. \A k \in Groups(e) : Pad(Group(e, k)) <= 2
    BY <1>2, <1>3
  <2> HIDE DEF e
  <2> QED
    BY <1>2, <2>1, <2>2 DEF Decodable
<1>5. base64_decode(e) = FlattenSeq(chunks)
  <2> HIDE DEF e
  <2> QED
    BY <1>2 DEF base64_decode
<1>6. Len(chunks) = n /\ DOMAIN chunks = 1 .. n
  BY <1>1, <1>2
<1>7. G[1] = chunks[1]
  <2>1. 1 \in 1 .. n
    BY <1>1
  <2>2. chunks[1] = SubSeq(x, 3 * (1 - 1) + 1, End(1))
    BY <1>3, <2>1
  <2>3. 3 * (1 - 1) + 1 = 1
    OBVIOUS
  <2> HIDE DEF chunks, End
  <2> QED
    BY <2>1, <2>2, <2>3
<1>8. ASSUME NEW k \in 2 .. Len(chunks)
      PROVE  G[k] = G[k - 1] \o chunks[k]
  <2>1. k \in 1 .. n /\ k - 1 \in 1 .. n
    BY <1>1, <1>6
  <2>2. End(k - 1) = 3 * (k - 1) /\ 3 * (k - 1) \in 0 .. Len(x)
    BY <1>1, <2>1
  <2>3. End(k) \in 3 * (k - 1) .. Len(x)
    BY <1>1, <2>1
  <2>4. chunks[k] = SubSeq(x, 3 * (k - 1) + 1, End(k))
    BY <1>3, <2>1
  <2>5. G[k] = SubSeq(x, 1, End(k)) /\ G[k - 1] = SubSeq(x, 1, 3 * (k - 1))
    BY <2>1, <2>2
  <2> DEFINE p == 3 * (k - 1)
             q == End(k)
  <2>6. /\ 1 \in 1 .. Len(x) + 1 /\ p \in 1 - 1 .. Len(x) /\ q \in p .. Len(x)
    BY <1>1, <2>2, <2>3
  <2> HIDE DEF G, chunks, End, p, q
  <2>7. SubSeq(x, 1, p) \o SubSeq(x, p + 1, q) = SubSeq(x, 1, q)
    BY <2>6, ConcatAdjacentSubSeq
  <2> QED
    BY <2>4, <2>5, <2>7 DEF p, q
<1>9. G[n] = x
  <2>1. n \in 1 .. n /\ End(n) = Len(x)
    BY <1>1
  <2>2. SubSeq(x, 1, Len(x)) = x
    BY SubSeqFull
  <2> HIDE DEF End, n
  <2> QED
    BY <2>1, <2>2
<1> HIDE DEF G, chunks
<1>10. FlattenSeq(chunks) = G[n]
  <2>1. Len(chunks) \in Nat \ {0}
    BY <1>1, <1>6
  <2>2. FlattenSeq(chunks) = G[Len(chunks)]
    BY <1>7, <1>8, <2>1, FlattenIs
  <2> QED
    BY <1>6, <2>2
<1> QED
  BY <1>4, <1>5, <1>9, <1>10 DEF e
\* Whatever is decoded, bytes come out.
LEMMA DecodeType ==
  ASSUME NEW src \in Seq(Octet), Decodable(src)
  PROVE  base64_decode(src) \in Seq(Octet)
<1> DEFINE s == Significant(src)
           N == Len(s) \div 4
           padded == {k \in 1 .. N : Pad(Group(s, k)) > 0}
           Chunk(k) == SubSeq(ThreeOctets(Block(Group(s, k))), 1, Kept(Group(s, k)))
           chunks == [k \in Groups(s) |-> Chunk(k)]
<1>1. s \in Seq(Alphabet)
  <2> DEFINE one == [k \in DOMAIN src |->
                       IF src[k] \in Alphabet THEN <<src[k]>> ELSE <<>>]
  <2>1. one \in Seq(Seq(Alphabet))
    <3>1. \A k \in 1 .. Len(src) : one[k] \in Seq(Alphabet)
      <4>1. \A c \in Alphabet : <<c>> \in Seq(Alphabet)
        OBVIOUS
      <4>2. <<>> \in Seq(Alphabet)
        OBVIOUS
      <4> QED
        BY <4>1, <4>2
    <3>2. DOMAIN src = 1 .. Len(src) /\ Len(src) \in Nat
      OBVIOUS
    <3>3. one \in [1 .. Len(src) -> Seq(Alphabet)]
      BY <3>1, <3>2
    <3> QED
      BY <3>2, <3>3
  <2> HIDE DEF one
  <2>2. FlattenSeq(one) \in Seq(Alphabet)
    BY <2>1, FlattenType
  <2> QED
    BY <2>2 DEF Significant, one
<1>2. \A k \in Groups(s) : Pad(Group(s, k)) <= 2
  BY DEF Decodable
<1> HIDE DEF s
<1>3. N \in Nat /\ 4 * N <= Len(s)
  BY <1>1
<1> HIDE DEF N
<1>4. Groups(s) = {k \in 1 .. N : \A m \in padded : k <= m}
  BY DEF Groups, N
<1>5. \E n \in 0 .. N : Groups(s) = 1 .. n
  <2>1. CASE padded = {}
    <3>1. Groups(s) = 1 .. N
      BY <1>4, <2>1
    <3> QED
      BY <1>3, <3>1
  <2>2. CASE padded # {}
    <3>1. padded \in SUBSET Nat
      BY <1>3
    <3> HIDE DEF padded
    <3> PICK t \in padded : TRUE
      BY <2>2
    <3> PICK n \in padded : \A m \in padded : n <= m
      BY <3>1, Least
    <3>2. n \in 1 .. N
      BY DEF padded
    <3>3. Groups(s) = 1 .. n
      BY <1>3, <1>4, <3>1, <3>2
    <3> QED
      BY <3>2, <3>3
  <2> QED
    BY <2>1, <2>2
<1> PICK n \in 0 .. N : Groups(s) = 1 .. n
  BY <1>5
<1>6. ASSUME NEW k \in 1 .. n
      PROVE  Chunk(k) \in Seq(Octet)
  <2> DEFINE g == Group(s, k)
             signs == {p \in 1 .. 4 : g[p] = PadSign}
             b == Block(g)
             t == ThreeOctets(b)
  <2>1. k \in Nat \ {0} /\ 4 * k <= Len(s)
    BY <1>3
  <2>2. \A p \in 1 .. 4 : g[p] \in Alphabet
    <3>1. /\ 4 * k - 3 \in Int /\ 4 * k \in Int /\ 4 * k - (4 * k - 3) + 1 = 4
          /\ \A p \in 4 * k - 3 .. 4 * k : s[p] \in Alphabet
          /\ \A p \in 1 .. 4 : 4 * k - 3 + p - 1 \in 4 * k - 3 .. 4 * k
      BY <1>1, <2>1
    <3>2. \A p \in 1 .. 4 : SubSeq(s, 4 * k - 3, 4 * k)[p] = s[4 * k - 3 + p - 1]
      BY <3>1, SubSeqProperties
    <3> QED
      BY <3>1, <3>2 DEF Group
  <2>3. Pad(g) \in Nat /\ Pad(g) <= 2
    <3>1. IsFiniteSet(1 .. 4)
      <4>1. 1 \in Int /\ 4 \in Int
        OBVIOUS
      <4> QED
        BY <4>1, FS_Interval, Zenon
    <3>2. signs \in SUBSET (1 .. 4)
      OBVIOUS
    <3>3. Cardinality(signs) \in Nat
      BY <3>1, <3>2, FS_Subset, FS_CardinalityType
    <3>4. Pad(g) = Cardinality(signs)
      BY DEF Pad
    <3> QED
      BY <1>2, <3>3, <3>4
  <2> HIDE DEF g
  <2>4. b[1] \in Sextet /\ b[2] \in Sextet /\ b[3] \in Sextet /\ b[4] \in Sextet
    <3>1. \A p \in 1 .. 4 : b[p] = dtable[g[p]]
      BY DEF Block
    <3> HIDE DEF b
    <3> QED
      BY <2>2, <3>1, TableIsUndone
  <2> HIDE DEF b
  <2>5. t[1] \in Octet /\ t[2] \in Octet /\ t[3] \in Octet
    <3>1. \A p, q \in Sextet : /\ (p * 4 + (q \div 16)) % 256 \in Octet
                              /\ (p * 16 + (q \div 4)) % 256 \in Octet
                              /\ (p * 64 + q) % 256 \in Octet
      BY DEF Octet, Sextet
    <3>2. t = <<(b[1] * 4 + (b[2] \div 16)) % 256, (b[2] * 16 + (b[3] \div 4)) % 256,
                (b[3] * 64 + b[4]) % 256>>
      BY DEF ThreeOctets
    <3> HIDE DEF t
    <3>3. /\ t[1] = (b[1] * 4 + (b[2] \div 16)) % 256
          /\ t[2] = (b[2] * 16 + (b[3] \div 4)) % 256
          /\ t[3] = (b[3] * 64 + b[4]) % 256
      BY <3>2
    <3> QED
      <4>1. /\ (b[1] * 4 + (b[2] \div 16)) % 256 \in Octet
            /\ (b[2] * 16 + (b[3] \div 4)) % 256 \in Octet
            /\ (b[3] * 64 + b[4]) % 256 \in Octet
        <5>1. b[1] \in Sextet /\ b[2] \in Sextet /\ b[3] \in Sextet /\ b[4] \in Sextet
          BY <2>4
        <5>2. (b[1] * 4 + (b[2] \div 16)) % 256 \in Octet
          BY <3>1, <5>1
        <5>3. (b[2] * 16 + (b[3] \div 4)) % 256 \in Octet
          BY <3>1, <5>1
        <5>4. (b[3] * 64 + b[4]) % 256 \in Octet
          BY <3>1, <5>1
        <5> QED
          BY <5>2, <5>3, <5>4
      <4> QED
        BY <3>3, <4>1, ZenonT(30)
  <2>6. Kept(g) \in 1 .. 3
    BY <2>3 DEF Kept
  <2>7. \A p \in 1 .. Kept(g) : t[p] \in Octet
    <3>1. \A p \in 1 .. Kept(g) : p = 1 \/ p = 2 \/ p = 3
      BY <2>6
    <3> HIDE DEF t
    <3> QED
      BY <2>5, <3>1
  <2> HIDE DEF t
  <2>8. SubSeq(t, 1, Kept(g)) \in Seq(Octet)
    <3>1. 1 \in Int /\ Kept(g) \in Int
      BY <2>6
    <3> QED
      BY <2>7, <3>1, SubSeqProperties
  <2> QED
    BY <2>8 DEF t, b, g
<1>7. chunks \in Seq(Seq(Octet))
  <2> HIDE DEF Chunk
  <2>1. chunks \in [1 .. n -> Seq(Octet)]
    BY <1>6
  <2>2. n \in Nat
    BY <1>3
  <2> QED
    BY <2>1, <2>2
<1> HIDE DEF chunks
<1>8. FlattenSeq(chunks) \in Seq(Octet)
  BY <1>7, FlattenType
<1> QED
  BY <1>8 DEF base64_decode, s, chunks, Chunk
-----------------------------------------------------------------------------
(* The loops of saveAuthorization *)

\* All bytes between the scheme and place k are spaces.
SpacesTo(k) == \A m \in 5 .. k - 1 : At(m) = SP

\* The j bytes from i on are those of a token, as far as it was measured.
AtToken ==
  /\ 5 <= i /\ i < from /\ At(i) # SP
  /\ i + j <= from
  /\ \A m \in i .. i + j - 1 : At(m) \notin {CR, SP}

\* What the counters stand for at each point, however often they wrapped.
IInv ==
  /\ TypeOK
  /\ i <= from /\ SpacesTo(i)
  /\ pc = "scan" => j = 0
  /\ pc \in {"token", "logged", "fault"} => AtToken
  /\ pc = "returned" => ~IsBasic \/ i = from
  /\ pc \in {"logged", "fault"} => ~InToken
  /\ pc = "logged" => Decodable(Found) /\ out = base64_decode(Found)
  /\ pc = "fault" => ~Decodable(Found)

\* A counter grows by one or starts again.
LEMMA CountersStep ==
  ASSUME NEW k \in Counter
  PROVE  Incremented(k) \in Counter /\ Incremented(k) <= k + 1
<1>1. CounterSize \in Nat \ {0}
  BY AuthorizationAssumption DEF AuthorizationAssumption
<1>2. CASE k + 1 < CounterSize
  <2>1. (k + 1) % CounterSize = k + 1
    BY <1>1, <1>2 DEF Counter
  <2> QED
    BY <1>1, <1>2, <2>1 DEF Counter, Incremented
<1>3. CASE k + 1 = CounterSize
  <2>1. CounterSize % CounterSize = 0
    BY <1>1
  <2> QED
    BY <1>1, <1>3, <2>1 DEF Counter, Incremented
<1> QED
  BY <1>1, <1>2, <1>3 DEF Counter

\* What a counter passes when it grows by one at most.
LEMMA OneMore ==
  ASSUME NEW a \in Nat, NEW k \in Nat, NEW l \in Nat, l <= k + 1
  PROVE  \A m \in a .. l - 1 : m \in a .. k - 1 \/ m = k
OBVIOUS

\* ... and the same for a count that starts at a place of its own.
LEMMA OneMoreAfter ==
  ASSUME NEW a \in Nat, NEW k \in Nat, NEW l \in Nat, l <= k + 1
  PROVE  \A m \in a .. a + l - 1 : m \in a .. a + k - 1 \/ m = a + k
OBVIOUS

\* A counter that has not come to the end of the scheme has passed nothing after it.
LEMMA NothingPassed ==
  ASSUME NEW k \in Nat, NEW l \in Nat, k < 5, l <= k + 1
  PROVE  5 .. l - 1 = {}
OBVIOUS

LEMMA InitInv == Init => IInv
<1> SUFFICES ASSUME Init
             PROVE  IInv
  OBVIOUS
<1>1. TypeOK
  <2>1. 0 \in Counter
    BY AuthorizationAssumption DEF AuthorizationAssumption, Counter
  <2>2. authorization \in Seq(Octet) /\ <<>> \in Seq(Octet)
    BY AuthorizationAssumption DEF AuthorizationAssumption, Init
  <2> QED
    BY <2>1, <2>2 DEF Init, TypeOK
<1>2. from \in Nat
  BY <1>1 DEF TypeOK, from
<1> QED
  BY <1>1, <1>2 DEF Init, IInv, SpacesTo

LEMMA NextKeeps ==
  ASSUME IInv, [Next]_vars
  PROVE  IInv'
<1>1. /\ TypeOK /\ i <= from /\ SpacesTo(i)
      /\ i \in Nat /\ j \in Nat /\ from \in Nat
  BY DEF IInv, TypeOK, Counter, from
<1>2. CASE UNCHANGED vars
  BY <1>2 DEF vars, IInv, TypeOK, SpacesTo, AtToken, IsBasic, InToken, Found, At, from
<1>3. CASE NoToken
  <2>1. pc' = "returned" /\ UNCHANGED <<authorization, i, j, out>> /\ i >= from
    BY <1>3 DEF NoToken
  <2>2. i = from
    BY <1>1, <2>1
  <2>3. TypeOK'
    BY <1>1, <2>1 DEF TypeOK, Ended
  <2> QED
    BY <1>1, <2>1, <2>2, <2>3 DEF IInv, SpacesTo, At, from
<1>4. CASE MatchScheme
  <2>1. /\ pc = "scan" /\ i < from /\ i < 5
        /\ UNCHANGED <<authorization, j, out>>
        /\ \/ i' = Incremented(i) /\ pc' = "scan"
           \/ i' = i /\ pc' = "returned" /\ toupper(At(i)) # toupper(basic_string[i + 1])
    BY <1>4 DEF MatchScheme, Scanning
  <2>2. i' \in Counter /\ i' <= i + 1 /\ i' \in Nat
    <3>1. i \in Counter
      BY <1>1 DEF TypeOK
    <3>2. Incremented(i) \in Counter /\ Incremented(i) <= i + 1
      BY <3>1, CountersStep
    <3>3. i' = i \/ i' = Incremented(i)
      BY <2>1
    <3>4. i' \in Counter
      BY <3>1, <3>2, <3>3
    <3>5. i <= i + 1
      BY <1>1
    <3> QED
      BY <3>2, <3>3, <3>4, <3>5 DEF Counter
  <2>3. TypeOK'
    BY <1>1, <2>1, <2>2 DEF TypeOK, Ended
  <2>4. i' <= from' /\ SpacesTo(i)'
    <3>1. i' <= from
      BY <1>1, <2>1, <2>2
    <3>2. i \in Nat /\ i < 5 /\ i' \in Nat /\ i' <= i + 1
      BY <1>1, <2>1, <2>2, Zenon
    <3>3. 5 .. i' - 1 = {}
      BY <3>2, NothingPassed, Zenon
    <3> QED
      BY <2>1, <3>1, <3>3 DEF SpacesTo, from
  <2>5. pc' = "returned" => ~IsBasic'
    <3> SUFFICES ASSUME pc' = "returned", IsBasic
                 PROVE  FALSE
      BY <2>1 DEF IsBasic, from
    <3>1. i + 1 \in 1 .. 5
      BY <1>1, <2>1
    <3>2. toupper(authorization[i + 1]) = toupper(basic_string[i + 1])
      BY <3>1 DEF IsBasic
    <3> QED
      BY <2>1, <3>2 DEF At
  <2> QED
    BY <2>1, <2>3, <2>4, <2>5 DEF IInv
<1>5. CASE SkipSpace
  <2>1. /\ pc = "scan" /\ i < from /\ i >= 5 /\ At(i) = SP
        /\ UNCHANGED <<authorization, j, out, pc>> /\ i' = Incremented(i)
    BY <1>5 DEF SkipSpace, Scanning
  <2>2. i' \in Counter /\ i' <= i + 1 /\ i' \in Nat
    <3>1. i \in Counter
      BY <1>1 DEF TypeOK
    <3>2. Incremented(i) \in Counter /\ Incremented(i) <= i + 1
      BY <3>1, CountersStep
    <3>3. i' = i \/ i' = Incremented(i)
      BY <2>1
    <3>4. i' \in Counter
      BY <3>1, <3>2, <3>3
    <3>5. i <= i + 1
      BY <1>1
    <3> QED
      BY <3>2, <3>3, <3>4, <3>5 DEF Counter
  <2>3. TypeOK'
    BY <1>1, <2>1, <2>2 DEF TypeOK
  <2>4. i' <= from'
    BY <1>1, <2>1, <2>2 DEF from
  <2>5. SpacesTo(i)'
    <3>1. \A m \in 5 .. i' - 1 : m \in 5 .. i - 1 \/ m = i
      <4>1. 5 \in Nat
        OBVIOUS
      <4> QED
        BY <1>1, <2>2, <4>1, OneMore
    <3>2. \A m \in 5 .. i' - 1 : At(m) = SP
      BY <1>1, <2>1, <3>1 DEF SpacesTo
    <3> QED
      BY <2>1, <3>2 DEF SpacesTo, At
  <2> QED
    BY <2>1, <2>3, <2>4, <2>5 DEF IInv
<1>6. CASE FindToken
  <2>1. /\ pc = "scan" /\ i < from /\ i >= 5 /\ At(i) # SP
        /\ UNCHANGED <<authorization, i, j, out>> /\ pc' = "token"
    BY <1>6 DEF FindToken, Scanning
  <2>2. TypeOK'
    BY <1>1, <2>1 DEF TypeOK
  <2>3. AtToken'
    <3>1. j = 0
      BY <2>1 DEF IInv
    <3>2. i + 0 = i /\ i .. i + 0 - 1 = {}
      BY <1>1
    <3> QED
      BY <1>1, <2>1, <3>1, <3>2 DEF AtToken, At, from
  <2>4. i' <= from' /\ SpacesTo(i)'
    BY <1>1, <2>1 DEF SpacesTo, At, from
  <2> QED
    BY <2>1, <2>2, <2>3, <2>4 DEF IInv
<1>7. CASE MeasureToken
  <2>1. /\ pc = "token" /\ i + j < from /\ At(i + j) \notin {CR, SP}
        /\ UNCHANGED <<authorization, i, out, pc>> /\ j' = Incremented(j)
    BY <1>7 DEF MeasureToken, InToken
  <2>2. j' \in Counter /\ j' <= j + 1 /\ j' \in Nat
    BY <1>1, <2>1, CountersStep DEF TypeOK, Counter
  <2>3. TypeOK'
    BY <1>1, <2>1, <2>2 DEF TypeOK
  <2>4. AtToken
    BY <2>1 DEF IInv
  <2>5. AtToken'
    <3>1. \A m \in i .. i + j' - 1 : m \in i .. i + j - 1 \/ m = i + j
      <4>1. i \in Nat /\ j \in Nat /\ j' \in Nat /\ j' <= j + 1
        BY <1>1, <2>2, Zenon
      <4> QED
        BY <4>1, OneMoreAfter, Zenon
    <3>2. \A m \in i .. i + j' - 1 : At(m) \notin {CR, SP}
      BY <2>1, <2>4, <3>1 DEF AtToken
    <3>3. i + j' <= from
      BY <1>1, <2>1, <2>2
    <3> QED
      BY <2>1, <2>4, <3>2, <3>3 DEF AtToken, At, from
  <2>6. i' <= from' /\ SpacesTo(i)'
    BY <1>1, <2>1 DEF SpacesTo, At, from
  <2> QED
    BY <2>1, <2>3, <2>5, <2>6 DEF IInv
<1>8. CASE Decode
  <2>1. /\ pc = "token" /\ ~InToken /\ UNCHANGED <<authorization, i, j>>
        /\ \/ Decodable(Found) /\ out' = base64_decode(Found) /\ pc' = "logged"
           \/ ~Decodable(Found) /\ out' = out /\ pc' = "fault"
    BY <1>8 DEF Decode
  <2>2. AtToken
    BY <2>1 DEF IInv
  <2>3. Found \in Seq(Octet)
    <3>1. \A m \in i + 1 .. i + j : authorization[m] \in Octet
      BY <1>1, <2>2 DEF TypeOK, AtToken, from
    <3>2. i + 1 \in Int /\ i + j \in Int
      BY <1>1
    <3> QED
      BY <3>1, <3>2, SubSeqProperties DEF Found
  <2>4. Decodable(Found) => base64_decode(Found) \in Seq(Octet)
    BY <2>3, DecodeType
  <2>5. TypeOK'
    BY <1>1, <2>1, <2>4 DEF TypeOK, Ended
  <2>6. /\ i' <= from' /\ SpacesTo(i)' /\ AtToken' /\ (~InToken)' /\ Found' = Found
    BY <1>1, <2>1, <2>2 DEF SpacesTo, At, from, AtToken, InToken, Found
  <2>7. CASE pc' = "logged"
    <3>1. Decodable(Found) /\ out' = base64_decode(Found)
      BY <2>1, <2>7
    <3>2. Decodable(Found') /\ out' = base64_decode(Found')
      BY <2>6, <3>1
    <3> QED
      BY <2>5, <2>6, <2>7, <3>2 DEF IInv
  <2>8. CASE pc' = "fault"
    <3>1. ~Decodable(Found)
      BY <2>1, <2>8
    <3>2. ~Decodable(Found')
      BY <2>6, <3>1
    <3> QED
      BY <2>5, <2>6, <2>8, <3>2 DEF IInv
  <2> QED
    BY <2>1, <2>7, <2>8
<1> QED
  BY <1>2, <1>3, <1>4, <1>5, <1>6, <1>7, <1>8 DEF Next, Loops

LEMMA Invariance == Spec => []IInv
<1>1. Init => IInv
  BY InitInv
<1>2. IInv /\ [Next]_vars => IInv'
  BY NextKeeps
<1> QED
  BY <1>1, <1>2, PTL DEF Spec

-----------------------------------------------------------------------------
(* What the log gets *)

\* The places of the definition without counters are those the loops find.
LEMMA StartIsFound ==
  ASSUME TypeOK, from >= 5, NEW a \in 5 .. from, a < from => At(a) # SP, SpacesTo(a)
  PROVE  TokenStart = a
<1> DEFINE Is(k) == (k < from => At(k) # SP) /\ \A m \in 5 .. k - 1 : At(m) = SP
<1>1. from \in Nat
  BY DEF TypeOK, from
<1>2. Is(a)
  BY DEF SpacesTo
<1>3. ASSUME NEW k \in 5 .. from, Is(k)
      PROVE  k = a
  <2>1. ~(k < a)
    <3> SUFFICES ASSUME k < a
                 PROVE  FALSE
      OBVIOUS
    <3>1. k \in 5 .. a - 1 /\ k < from
      BY <1>1
    <3> QED
      BY <1>2, <1>3, <3>1
  <2>2. ~(a < k)
    <3> SUFFICES ASSUME a < k
                 PROVE  FALSE
      OBVIOUS
    <3>1. a \in 5 .. k - 1 /\ a < from
      BY <1>1
    <3> QED
      BY <1>2, <1>3, <3>1
  <2> QED
    BY <1>1, <2>1, <2>2
<1>4. TokenStart = CHOOSE k \in 5 .. from : Is(k)
  BY DEF TokenStart
<1> HIDE DEF Is
<1> QED
  BY <1>2, <1>3, <1>4

LEMMA EndIsFound ==
  ASSUME TypeOK, NEW a \in 0 .. from, TokenStart = a, NEW b \in a .. from,
         b < from => At(b) \in {CR, SP}, \A m \in a .. b - 1 : At(m) \notin {CR, SP}
  PROVE  TokenEnd = b
<1> DEFINE Is(k) == /\ k < from => At(k) \in {CR, SP}
                    /\ \A m \in a .. k - 1 : At(m) \notin {CR, SP}
<1>1. from \in Nat
  BY DEF TypeOK, from
<1>2. Is(b)
  OBVIOUS
<1>3. ASSUME NEW k \in a .. from, Is(k)
      PROVE  k = b
  <2>1. ~(k < b)
    <3> SUFFICES ASSUME k < b
                 PROVE  FALSE
      OBVIOUS
    <3>1. k \in a .. b - 1 /\ k < from
      BY <1>1
    <3> QED
      BY <1>2, <1>3, <3>1
  <2>2. ~(b < k)
    <3> SUFFICES ASSUME b < k
                 PROVE  FALSE
      OBVIOUS
    <3>1. b \in a .. k - 1 /\ b < from
      BY <1>1
    <3> QED
      BY <1>2, <1>3, <3>1
  <2> QED
    BY <1>1, <2>1, <2>2
<1>4. TokenEnd = CHOOSE k \in a .. from : Is(k)
  BY DEF TokenEnd
<1> HIDE DEF Is
<1> QED
  BY <1>2, <1>3, <1>4

\* Nothing but bytes is logged, and no count passes what a counter holds
\* (saveAuthorization).
THEOREM TypesHold == Spec => []TypeOK
<1>1. IInv => TypeOK
  BY DEF IInv
<1> QED
  BY <1>1, Invariance, PTL

\* When saveAuthorization ends for a client that sent its credentials as Basic, it
\* has logged these credentials: every text, in a header of any length, counters
\* of any size.
THEOREM CredentialsAreLogged == Spec => []DecodesCredentials
<1>1. IInv => DecodesCredentials
  <2> SUFFICES ASSUME IInv, NEW x \in Credentials, pc \in Ended, IsBasic, Token = Encode(x)
               PROVE  pc = "logged" /\ out = x
    BY DEF DecodesCredentials
  <2>1. x \in Seq(Octet) /\ x # <<>>
    BY AuthorizationAssumption DEF AuthorizationAssumption
  <2>2. Token # <<>>
    <3>1. Len(Encode(x)) = 4 * Count(x) /\ Count(x) \in Nat \ {0}
      BY <2>1, EncodeType, CountOf
    <3> QED
      BY <3>1
  <2>3. TypeOK /\ SpacesTo(i) /\ from \in Nat /\ i \in Nat /\ j \in Nat /\ i <= from
        /\ from >= 5 /\ authorization \in Seq(Octet)
    BY DEF IInv, TypeOK, Counter, from, IsBasic
  <2>4. pc # "returned"
    <3> SUFFICES ASSUME pc = "returned"
                 PROVE  FALSE
      OBVIOUS
    <3>1. i = from
      BY DEF IInv
    <3>2. TokenStart = from
      BY <2>3, <3>1, StartIsFound
    <3>3. TokenEnd = from
      BY <2>3, <3>2, EndIsFound
    <3>4. SubSeq(authorization, from + 1, from) = <<>>
      BY <2>3, SubSeqEmpty
    <3> QED
      BY <2>2, <3>2, <3>3, <3>4 DEF Token
  <2>5. AtToken /\ ~InToken
    BY <2>4 DEF IInv, Ended
  <2>6. TokenStart = i
    BY <2>3, <2>5, StartIsFound DEF AtToken
  <2>7. TokenEnd = i + j
    <3>1. i + j \in i .. from /\ i \in 0 .. from
      BY <2>3, <2>5 DEF AtToken
    <3>2. i + j < from => At(i + j) \in {CR, SP}
      BY <2>5 DEF InToken
    <3>3. \A m \in i .. i + j - 1 : At(m) \notin {CR, SP}
      BY <2>5 DEF AtToken
    <3> QED
      BY <2>3, <2>6, <3>1, <3>2, <3>3, EndIsFound
  <2>8. Found = Encode(x)
    BY <2>6, <2>7 DEF Token, Found
  <2>9. Decodable(Found) /\ base64_decode(Found) = x
    BY <2>1, <2>8, DecodeUndoesEncode
  <2>10. pc = "logged"
    BY <2>4, <2>9 DEF IInv, Ended
  <2> QED
    BY <2>9, <2>10 DEF IInv
<1> QED
  BY <1>1, Invariance, PTL
=============================================================================
