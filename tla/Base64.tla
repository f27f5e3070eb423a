-------------------------------- MODULE Base64 --------------------------------
(***************************************************************************)
(* base64_decode (base64Decoder.c), and the encoding it must undo.         *)
(* Characters are their codes.                                             *)
(***************************************************************************)
EXTENDS Integers, FiniteSets, Sequences, SequencesExt

Octet  == 0 .. 255
Sextet == 0 .. 63

\* "A" to "Z", "a" to "z", "0" to "9", "+" and "/".
base64_table ==
  [k \in Sextet |-> IF k < 26 THEN 65 + k
                    ELSE IF k < 52 THEN 71 + k
                    ELSE IF k < 62 THEN k - 4
                    ELSE IF k = 62 THEN 43 ELSE 47]

PadSign == 61

Alphabet == {base64_table[k] : k \in Sextet} \cup {PadSign}

\* The characters without an entry here are those of 0x80, which are skipped.
dtable ==
  [c \in Alphabet |->
     IF c = PadSign THEN 0 ELSE CHOOSE k \in Sextet : base64_table[k] = c]

Significant(src) ==
  FlattenSeq([i \in DOMAIN src |-> IF src[i] \in Alphabet THEN <<src[i]>> ELSE <<>>])

Group(s, k) == SubSeq(s, 4 * k - 3, 4 * k)
Pad(g) == Cardinality({i \in 1 .. 4 : g[i] = PadSign})

\* A padded group is the last one that is looked at.
Groups(s) ==
  LET padded == {k \in 1 .. Len(s) \div 4 : Pad(Group(s, k)) > 0}
  IN  {k \in 1 .. Len(s) \div 4 : \A m \in padded : k <= m}

\* base64_decode returns a buffer, not NULL.
Decodable(src) ==
  LET s == Significant(src)
  IN  /\ s # <<>>
      /\ Len(s) % 4 = 0
      /\ \A k \in Groups(s) : Pad(Group(s, k)) <= 2

\* Mutant: the shifts keep what does not fit a byte.
ThreeOctetsWide(b) == <<b[1] * 4 + (b[2] \div 16), b[2] * 16 + (b[3] \div 4), b[3] * 64 + b[4]>>

\* The bytes of a block of four sextets, as shifted into unsigned char.
ThreeOctets(b) ==
  <<(b[1] * 4 + (b[2] \div 16)) % 256, (b[2] * 16 + (b[3] \div 4)) % 256,
    (b[3] * 64 + b[4]) % 256>>

Block(g) == [i \in 1 .. 4 |-> dtable[g[i]]]

\* Mutant: one byte is dropped for any padding.
KeptOne(g) == IF Pad(g) = 0 THEN 3 ELSE 2

\* pos after a group: a byte less for each sign of padding.
Kept(g) == 3 - Pad(g)

\* The bytes of that buffer.
base64_decode(src) ==
  LET s == Significant(src)
  IN  FlattenSeq([k \in Groups(s) |->
                    SubSeq(ThreeOctets(Block(Group(s, k))), 1, Kept(Group(s, k)))])

-----------------------------------------------------------------------------
(* The encoding of RFC 4648, as bits: every six of the text are a sign *)

Bit(text, p) ==
  IF p < 8 * Len(text) THEN (text[(p \div 8) + 1] \div 2 ^ (7 - (p % 8))) % 2 ELSE 0

SextetAt(text, p) ==
  32 * Bit(text, p) + 16 * Bit(text, p + 1) + 8 * Bit(text, p + 2)
    + 4 * Bit(text, p + 3) + 2 * Bit(text, p + 4) + Bit(text, p + 5)

Encode(text) ==
  [k \in 1 .. 4 * ((Len(text) + 2) \div 3) |->
     IF 6 * (k - 1) < 8 * Len(text) THEN base64_table[SextetAt(text, 6 * (k - 1))]
     ELSE PadSign]
=============================================================================
