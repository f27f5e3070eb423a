-------------------------------- MODULE Queue --------------------------------
(***************************************************************************)
(* What a buffer of bufferUtils.c is for its callers: a queue of bytes,    *)
(* written at its end, from whose start bytes are taken once sent.         *)
(***************************************************************************)
EXTENDS Naturals, Sequences

CONSTANTS
  Byte,   \* the values of a char
  Input   \* what is appended in one call: sequences of bytes

VARIABLE queue

Init == queue = <<>>

Put(input) == queue' = queue \o input

\* Take k bytes from the start, or all there are.
Take(k) == queue' = SubSeq(queue, k + 1, Len(queue))

Next ==
  \/ \E c \in Byte : Put(<<c>>)
  \/ \E input \in Input : Put(input)
  \/ \E k \in 1 .. Len(queue) : Take(k)

Spec == Init /\ [][Next]_queue
=============================================================================
