------------------------------- MODULE Buffer --------------------------------
(***************************************************************************)
(* parsers/bufferUtils.c: the buffer that holds the messages, hosts and    *)
(* headers of a connection.  Cells are numbered from 0 and a buffer keeps  *)
(* the number of its cells (len) and of those written (from).              *)
(***************************************************************************)
EXTENDS Integers, Sequences

CONSTANTS
  CHUNK,          \* cells a buffer grows by (50 in the code)
  InitialSize,    \* cells it starts with (1024 or 1250 in the code)
  Byte,           \* the values of a char
  Input,          \* what writeNBuffer is given
  MaxFrom         \* bound of the model: bytes a buffer holds

Zero == 0         \* what memset writes
Junk == -1        \* what realloc leaves in the cells it adds

BufferAssumption ==
  /\ CHUNK \in Nat \ {0}
  /\ InitialSize \in Nat \ {0}
  /\ Byte \subseteq Nat /\ Zero \in Byte
  /\ Input \subseteq Seq(Byte) \ {<<>>}
  /\ MaxFrom \in Nat

ASSUME BufferAssumption

Cell == Byte \cup {Junk}

VARIABLES
  buffer,   \* the cells
  len,
  from

vars == <<buffer, len, from>>

\* bufferInit
Init ==
  /\ buffer = [i \in 0 .. InitialSize - 1 |-> Zero]
  /\ len = InitialSize
  /\ from = 0

\* Mutant: len is raised without a realloc().
ReallocForgotten(size) == buffer

\* realloc() to `size` cells: the first ones keep what they hold.
Realloc(size) ==
  [i \in 0 .. size - 1 |-> IF i < len THEN buffer[i] ELSE Junk]

\* The cells from `at` on hold the bytes of input.
Copied(cells, at, input) ==
  [i \in DOMAIN cells |->
     IF i >= at /\ i < at + Len(input) THEN input[i - at + 1] ELSE cells[i]]

\* resizeBuffer is called when there is no cell left.
Grown == IF from = len THEN len + CHUNK ELSE len

\* One byte at the end.
writeBuffer(c) ==
  /\ from < MaxFrom
  /\ len' = Grown
  /\ buffer' = Copied(Realloc(Grown), from, <<c>>)
  /\ from' = from + 1

\* Mutant: whole chunks only.
GrownNShort(size) ==
  IF from + size >= len
    THEN len + CHUNK * ((from + size - len) \div CHUNK) ELSE len

\* resizeBufferN is given the chunks that are missing, and one more.
GrownN(size) ==
  IF from + size >= len
    THEN len + CHUNK * ((from + size - len) \div CHUNK + 1) ELSE len

\* Several bytes at the end.
writeNBuffer(input) ==
  /\ from + Len(input) <= MaxFrom
  /\ len' = GrownN(Len(input))
  /\ buffer' = Copied(Realloc(GrownN(Len(input))), from, input)
  /\ from' = from + Len(input)

bufferReset ==
  /\ buffer' = IF from > 0 THEN [i \in 0 .. len - 1 |-> Zero] ELSE buffer
  /\ from' = 0
  /\ UNCHANGED len

\* Mutant: the bytes are moved one cell short.
MovedShort(size) ==
  [i \in 0 .. len - 1 |->
     IF i < from - size - 1 THEN buffer[i + size] ELSE Zero]

\* The bytes after the first `size` moved to the start, and zeros after them.
Moved(size) ==
  [i \in 0 .. len - 1 |-> IF i < from - size THEN buffer[i + size] ELSE Zero]

\* The first `size` bytes are deleted; all of them is a reset, none is nothing.
deleteStartBuffer(size) ==
  \/ /\ size = 0
     /\ UNCHANGED vars
  \/ /\ size >= from
     /\ size > 0
     /\ bufferReset
  \/ /\ 0 < size /\ size < from
     /\ buffer' = Moved(size)
     /\ from' = from - size
     /\ UNCHANGED len

Next ==
  \/ \E c \in Byte : writeBuffer(c)
  \/ \E input \in Input : writeNBuffer(input)
  \/ bufferReset
  \/ \E size \in 0 .. from : deleteStartBuffer(size)

Spec == Init /\ [][Next]_vars

-----------------------------------------------------------------------------
(* Properties *)

\* Every variable holds a value of its type.
TypeOK ==
  /\ len \in Nat
  /\ from \in Nat
  /\ buffer \in [0 .. len - 1 -> Cell]

\* What is written is inside the buffer and none of it is what realloc() left:
\* the sizes computed by the two writes leave room for what they copy.
WrittenInside ==
  /\ from <= len
  /\ \A i \in 0 .. from - 1 : buffer[i] # Junk

\* What a caller sees of the buffer.
Contents == [k \in 1 .. from |-> buffer[k - 1]]

Ideal == INSTANCE Queue WITH queue <- Contents

\* A buffer is a queue of bytes: growth keeps what was written, and deleting
\* the start after a partial send keeps the rest in order.
ImplementsQueue == Ideal!Spec
=============================================================================
