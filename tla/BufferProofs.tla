---------------------------- MODULE BufferProofs -----------------------------
(***************************************************************************)
(* Theorems about Buffer, for every size of the buffer and of what is      *)
(* written to it.                                                          *)
(***************************************************************************)
EXTENDS Buffer, TLAPS

\* The inductive invariant: with the types, room for what is written and no
\* cell of it that was never written.
IInv == TypeOK /\ WrittenInside

\* The chunks added by resizeBufferN are more than what is missing.
LEMMA ChunksCover ==
  ASSUME NEW missing \in Nat, NEW size \in Nat \ {0}
  PROVE  /\ size * (missing \div size + 1) \in Nat
         /\ missing < size * (missing \div size + 1)
BY SMT

\* Both ways of growing make room for what is then written, and never shrink.
LEMMA RoomForOne ==
  ASSUME IInv
  PROVE  Grown \in Nat /\ len <= Grown /\ from + 1 <= Grown
BY BufferAssumption DEF IInv, TypeOK, WrittenInside, Grown, BufferAssumption

LEMMA RoomForMany ==
  ASSUME IInv, NEW size \in Nat
  PROVE  GrownN(size) \in Nat /\ len <= GrownN(size) /\ from + size <= GrownN(size)
<1>1. CASE from + size >= len
  <2>1. from + size - len \in Nat
    BY <1>1 DEF IInv, TypeOK
  <2>2. PICK more \in Nat : more = CHUNK * ((from + size - len) \div CHUNK + 1)
                            /\ from + size - len < more
    BY <2>1, ChunksCover, BufferAssumption DEF BufferAssumption
  <2>3. GrownN(size) = len + more
    BY <1>1, <2>2 DEF GrownN
  <2> QED
    BY <2>2, <2>3 DEF IInv, TypeOK
<1>2. CASE ~(from + size >= len)
  BY <1>2 DEF IInv, TypeOK, GrownN
<1> QED
  BY <1>1, <1>2

\* A write of `input` into `size` cells keeps the cells before it and puts the
\* bytes of input after them.
LEMMA Written ==
  ASSUME IInv, NEW size \in Nat, NEW input \in Seq(Byte),
         from + Len(input) <= size, len <= size
  PROVE  LET cells == Copied(Realloc(size), from, input)
         IN  /\ cells \in [0 .. size - 1 -> Cell]
             /\ \A i \in 0 .. from - 1 : cells[i] = buffer[i]
             /\ \A k \in 1 .. Len(input) : cells[from + k - 1] = input[k]
<1> DEFINE cells == Copied(Realloc(size), from, input)
<1>1. Realloc(size) \in [0 .. size - 1 -> Cell]
  BY DEF IInv, TypeOK, Realloc, Cell
<1>2. \A i \in 0 .. from - 1 : Realloc(size)[i] = buffer[i]
  BY DEF IInv, TypeOK, WrittenInside, Realloc
<1>3. Len(input) \in Nat /\ \A k \in 1 .. Len(input) : input[k] \in Byte
  OBVIOUS
<1>4. cells = [i \in 0 .. size - 1 |->
                 IF i >= from /\ i < from + Len(input)
                   THEN input[i - from + 1] ELSE Realloc(size)[i]]
  BY <1>1 DEF Copied
<1>5. cells \in [0 .. size - 1 -> Cell]
  BY <1>1, <1>3, <1>4 DEF IInv, TypeOK, Cell
<1>6. \A i \in 0 .. from - 1 : cells[i] = buffer[i]
  <2> TAKE i \in 0 .. from - 1
  <2>1. i \in 0 .. size - 1 /\ ~(i >= from)
    BY <1>3 DEF IInv, TypeOK
  <2> QED
    BY <1>2, <1>4, <2>1
<1>7. \A k \in 1 .. Len(input) : cells[from + k - 1] = input[k]
  <2> TAKE k \in 1 .. Len(input)
  <2>1. /\ from + k - 1 \in 0 .. size - 1
        /\ from + k - 1 >= from /\ from + k - 1 < from + Len(input)
        /\ (from + k - 1) - from + 1 = k
    BY <1>3 DEF IInv, TypeOK
  <2> QED
    BY <1>4, <2>1
<1> QED
  BY <1>5, <1>6, <1>7

-----------------------------------------------------------------------------
(* Each operation is the one of the queue, and keeps the invariant *)

\* A step that appends input.
LEMMA Appends ==
  ASSUME IInv, NEW size \in Nat, NEW input \in Seq(Byte),
         from + Len(input) <= size, len <= size,
         len' = size, from' = from + Len(input),
         buffer' = Copied(Realloc(size), from, input)
  PROVE  IInv' /\ Contents' = Contents \o input
<1>1. /\ buffer' \in [0 .. size - 1 -> Cell]
      /\ \A i \in 0 .. from - 1 : buffer'[i] = buffer[i]
      /\ \A k \in 1 .. Len(input) : buffer'[from + k - 1] = input[k]
  BY Written
<1>2. Len(input) \in Nat /\ \A k \in 1 .. Len(input) : input[k] \in Byte
  OBVIOUS
<1>3. TypeOK'
  BY <1>1, <1>2 DEF IInv, TypeOK
<1>4. WrittenInside'
  <2>1. \A i \in 0 .. from' - 1 : buffer'[i] # Junk
    <3> TAKE i \in 0 .. from' - 1
    <3>1. CASE i < from
      BY <1>1, <3>1 DEF IInv, TypeOK, WrittenInside
    <3>2. CASE i >= from
      <4>1. i - from + 1 \in 1 .. Len(input) /\ from + (i - from + 1) - 1 = i
        BY <1>2, <3>2 DEF IInv, TypeOK
      <4>2. buffer'[i] \in Byte
        BY <1>1, <1>2, <4>1
      <4> QED
        BY <4>2, BufferAssumption DEF BufferAssumption, Junk
    <3> QED
      BY <1>2, <3>1, <3>2 DEF IInv, TypeOK
  <2> QED
    BY <2>1 DEF WrittenInside
<1>5. Contents' = Contents \o input
  <2>1. Contents = [k \in 1 .. from |-> buffer[k - 1]] /\ Len(Contents) = from
        /\ Contents \in Seq(Byte)
    <3>1. \A k \in 1 .. from : buffer[k - 1] \in Byte
      BY DEF IInv, TypeOK, WrittenInside, Cell
    <3> QED
      BY <3>1 DEF IInv, TypeOK, Contents
  <2>2. Contents \o input =
          [k \in 1 .. from + Len(input) |->
             IF k <= from THEN Contents[k] ELSE input[k - from]]
    BY <2>1 DEF IInv, TypeOK
  <2>3. Contents' = [k \in 1 .. from + Len(input) |-> buffer'[k - 1]]
    BY DEF Contents
  <2>4. \A k \in 1 .. from + Len(input) :
          buffer'[k - 1] = IF k <= from THEN Contents[k] ELSE input[k - from]
    <3> TAKE k \in 1 .. from + Len(input)
    <3>1. CASE k <= from
      <4>1. k - 1 \in 0 .. from - 1 /\ k \in 1 .. from
        BY <3>1 DEF IInv, TypeOK
      <4> QED
        BY <1>1, <2>1, <3>1, <4>1
    <3>2. CASE k > from
      <4>1. k - from \in 1 .. Len(input) /\ from + (k - from) - 1 = k - 1
            /\ ~(k <= from)
        BY <1>2, <3>2 DEF IInv, TypeOK
      <4> QED
        BY <1>1, <4>1
    <3> QED
      BY <1>2, <3>1, <3>2 DEF IInv, TypeOK
  <2> QED
    BY <2>2, <2>3, <2>4
<1> QED
  BY <1>3, <1>4, <1>5 DEF IInv

LEMMA WriteAppends ==
  ASSUME IInv, NEW c \in Byte, writeBuffer(c)
  PROVE  IInv' /\ Contents' = Contents \o <<c>>
<1>1. <<c>> \in Seq(Byte) /\ Len(<<c>>) = 1
  OBVIOUS
<1> QED
  BY <1>1, RoomForOne, Appends DEF writeBuffer

LEMMA WriteNAppends ==
  ASSUME IInv, NEW input \in Input, writeNBuffer(input)
  PROVE  IInv' /\ Contents' = Contents \o input
<1>1. input \in Seq(Byte) /\ Len(input) \in Nat
  BY BufferAssumption DEF BufferAssumption
<1> QED
  BY <1>1, RoomForMany, Appends DEF writeNBuffer

LEMMA ResetEmpties ==
  ASSUME IInv, bufferReset
  PROVE  IInv' /\ Contents' = <<>>
<1>1. TypeOK'
  BY BufferAssumption
  DEF IInv, TypeOK, bufferReset, Cell, Zero, BufferAssumption
<1>2. WrittenInside'
  BY DEF IInv, TypeOK, WrittenInside, bufferReset
<1>3. Contents' = <<>>
  BY DEF bufferReset, Contents
<1> QED
  BY <1>1, <1>2, <1>3 DEF IInv

LEMMA DeleteTakes ==
  ASSUME IInv, NEW size \in 1 .. from - 1,
         buffer' = Moved(size), from' = from - size, len' = len
  PROVE  IInv' /\ Contents' = SubSeq(Contents, size + 1, Len(Contents))
<1>1. \A i \in 0 .. len - 1 :
        i < from - size => i + size \in 0 .. from - 1 /\ i + size \in 0 .. len - 1
  BY DEF IInv, TypeOK, WrittenInside
<1>2. TypeOK'
  <2>1. Zero \in Cell
    BY BufferAssumption DEF BufferAssumption, Cell
  <2>2. \A i \in 0 .. len - 1 :
          (IF i < from - size THEN buffer[i + size] ELSE Zero) \in Cell
    BY <1>1, <2>1 DEF IInv, TypeOK
  <2>3. buffer' \in [0 .. len - 1 -> Cell]
    BY <2>2 DEF Moved
  <2>4. from - size \in Nat
    BY DEF IInv, TypeOK
  <2> QED
    BY <2>3, <2>4 DEF IInv, TypeOK
<1>3. \A i \in 0 .. from' - 1 : buffer'[i] = buffer[i + size]
  BY DEF IInv, TypeOK, WrittenInside, Moved
<1>4. WrittenInside'
  BY <1>3 DEF IInv, TypeOK, WrittenInside
<1>5. Contents' = SubSeq(Contents, size + 1, Len(Contents))
  <2>1. \A k \in 1 .. from : buffer[k - 1] \in Byte
    BY DEF IInv, TypeOK, WrittenInside, Cell
  <2>2. Contents \in Seq(Byte) /\ Len(Contents) = from
    BY <2>1 DEF IInv, TypeOK, Contents
  <2>3. SubSeq(Contents, size + 1, from) =
          [k \in 1 .. from - size |-> Contents[size + k]]
    BY <2>2 DEF IInv, TypeOK
  <2>4. \A k \in 1 .. from - size : buffer'[k - 1] = Contents[size + k]
    <3> TAKE k \in 1 .. from - size
    <3>1. k - 1 \in 0 .. from' - 1 /\ size + k \in 1 .. from
          /\ (k - 1) + size = (size + k) - 1
      BY DEF IInv, TypeOK
    <3> QED
      BY <1>3, <3>1 DEF Contents
  <2>5. Contents' = [k \in 1 .. from - size |-> buffer'[k - 1]]
    BY DEF Contents
  <2> QED
    BY <2>2, <2>3, <2>4, <2>5
<1> QED
  BY <1>2, <1>4, <1>5 DEF IInv

\* The invariant is inductive, and every step is one of the queue or a stutter.
LEMMA InitIsEmpty ==
  ASSUME Init
  PROVE  IInv /\ Contents = <<>>
<1>1. TypeOK
  BY BufferAssumption DEF Init, TypeOK, Cell, BufferAssumption
<1>2. WrittenInside /\ Contents = <<>>
  BY BufferAssumption DEF Init, WrittenInside, Contents, BufferAssumption
<1> QED
  BY <1>1, <1>2 DEF IInv

LEMMA StepOfQueue ==
  ASSUME IInv, [Next]_vars
  PROVE  IInv' /\ [Ideal!Next]_Contents
<1>1. ASSUME NEW c \in Byte, writeBuffer(c)
      PROVE  IInv' /\ Ideal!Next
  BY <1>1, WriteAppends DEF Ideal!Next, Ideal!Put
<1>2. ASSUME NEW input \in Input, writeNBuffer(input)
      PROVE  IInv' /\ Ideal!Next
  BY <1>2, WriteNAppends DEF Ideal!Next, Ideal!Put
<1>3. Len(Contents) = from /\ from \in Nat
  <2>1. \A k \in 1 .. from : buffer[k - 1] \in Byte
    BY DEF IInv, TypeOK, WrittenInside, Cell
  <2> QED
    BY <2>1 DEF IInv, TypeOK, Contents
<1>4. ASSUME bufferReset
      PROVE  IInv' /\ [Ideal!Next]_Contents
  <2>1. IInv' /\ Contents' = <<>>
    BY <1>4, ResetEmpties
  <2>2. CASE from = 0
    BY <2>1, <2>2 DEF Contents
  <2>3. CASE from > 0
    <3>1. SubSeq(Contents, from + 1, Len(Contents)) = <<>>
      BY <1>3
    <3>2. from \in 1 .. Len(Contents)
      BY <1>3, <2>3
    <3> QED
      BY <2>1, <3>1, <3>2 DEF Ideal!Next, Ideal!Take
  <2> QED
    BY <1>3, <2>1, <2>2, <2>3
<1>5. ASSUME NEW size \in 0 .. from, deleteStartBuffer(size)
      PROVE  IInv' /\ [Ideal!Next]_Contents
  <2>1. CASE size = 0 /\ UNCHANGED vars
    BY <2>1 DEF vars, Contents, IInv, TypeOK, WrittenInside
  <2>2. CASE bufferReset
    BY <1>4, <2>2
  <2>3. CASE /\ 0 < size /\ size < from
             /\ buffer' = Moved(size) /\ from' = from - size /\ UNCHANGED len
    <3>1. size \in 1 .. from - 1 /\ size \in 1 .. Len(Contents)
      BY <1>3, <2>3
    <3>2. IInv' /\ Contents' = SubSeq(Contents, size + 1, Len(Contents))
      BY <2>3, <3>1, DeleteTakes
    <3> QED
      BY <3>1, <3>2 DEF Ideal!Next, Ideal!Take
  <2> QED
    BY <1>5, <2>1, <2>2, <2>3 DEF deleteStartBuffer
<1>6. CASE UNCHANGED vars
  BY <1>6 DEF vars, Contents, IInv, TypeOK, WrittenInside
<1> QED
  BY <1>1, <1>2, <1>4, <1>5, <1>6 DEF Next

-----------------------------------------------------------------------------

LEMMA Invariant == Spec => []IInv
<1>1. Init => IInv
  BY InitIsEmpty
<1>2. IInv /\ [Next]_vars => IInv'
  BY StepOfQueue
<1> QED
  BY <1>1, <1>2, PTL DEF Spec

\* Every variable keeps its type.
THEOREM BufferTypeCorrect == Spec => []TypeOK
BY Invariant, PTL DEF IInv

\* Whatever is written, in whatever pieces, both writes grow the buffer enough
\* for what they copy, and what is read back was written.
THEOREM WritesStayInside == Spec => []WrittenInside
BY Invariant, PTL DEF IInv

\* A buffer is a queue of bytes: its bytes come out once and in order.
THEOREM BufferIsQueue == Spec => ImplementsQueue
<1>1. Init => Ideal!Init
  BY InitIsEmpty DEF Ideal!Init
<1>2. IInv /\ [Next]_vars => [Ideal!Next]_Contents
  BY StepOfQueue
<1> QED
  BY <1>1, <1>2, Invariant, PTL DEF Spec, ImplementsQueue, Ideal!Spec
=============================================================================
