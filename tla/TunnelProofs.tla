---------------------------- MODULE TunnelProofs ----------------------------
(***************************************************************************)
(* Theorems about Tunnel, for every number of bytes an end writes, every   *)
(* size of a read and of what was parsed before the relay began.           *)
(***************************************************************************)
EXTENDS Tunnel, SequenceTheorems, TLAPS

\* The n bytes of an end that follow the first `skip`.
Run(skip, n) == [i \in 1 .. n |-> skip + i]

\* The first n bytes of an end are `skip` that nobody is to receive, those the
\* other end has got, those kept in the buffer and those nobody has read.
InOrder(skip, got, kept, unread, n) ==
  /\ got = Run(skip, Len(got))
  /\ kept = Run(skip + Len(got), Len(kept))
  /\ unread = Run(skip + Len(got) + Len(kept), Len(unread))
  /\ skip + Len(got) + Len(kept) + Len(unread) = n

\* What the buffer of an end holds of its bytes: nothing while it is the parsed
\* header of a CONNECT.
Kept(e) == IF e = "client" /\ connect /\ ~setted_up THEN <<>> ELSE buffer[e]

\* What an end has received is a prefix of what it is to receive, after the close
\* too, and while the connection is open all the other bytes are in place.
Streams ==
  \A e \in Ends :
    /\ received[Other(e)] = Run(Skipped(e), Len(received[Other(e)]))
    /\ Skipped(e) + Len(received[Other(e)]) <= written[e]
    /\ open => InOrder(Skipped(e), received[Other(e)], Kept(e), inbox[e], written[e])

\* The handler works on an open connection, and past its check only on one that
\* is set up and whose client has not closed.
Phases ==
  /\ pc # "select" => open
  /\ pc \notin {"select", "check"} => setted_up /\ "client" \notin read_closed

\* Until the set up, which empties it, the buffer of the answer is empty.
NoAnswerYet == open /\ ~setted_up => buffer["server"] = <<>>

\* An end reported by select() that has not been read since has bytes to read or
\* has finished.
Reported ==
  \A e \in readfds :
    \/ inbox[e] # <<>>
    \/ e \in finished
    \/ pc \notin {"check", "read client", "read server"}
    \/ pc = "read server" /\ e = "client"

\* An end is taken for closed only once it has finished, and the server only when
\* its bytes were all read.
Ended ==
  /\ read_closed \subseteq finished
  /\ "server" \in read_closed => inbox["server"] = <<>>

IInv ==
  TypeOK /\ BytesCounted /\ Streams /\ Phases /\ NoAnswerYet /\ Reported /\ Ended

-----------------------------------------------------------------------------
(* Runs of bytes *)

LEMMA RunSeq ==
  ASSUME NEW skip \in Nat, NEW n \in Nat
  PROVE  /\ Run(skip, n) \in Seq(Nat)
         /\ Len(Run(skip, n)) = n
         /\ \A i \in 1 .. n : Run(skip, n)[i] = skip + i
         /\ Run(skip, n) = <<>> <=> n = 0
<1>1. \A i \in 1 .. n : skip + i \in Nat
  OBVIOUS
<1>2. Run(skip, n) \in [1 .. n -> Nat]
  BY <1>1 DEF Run
<1> QED
  BY <1>2 DEF Run

\* A sequence that counts from skip on is a run.
LEMMA IsRun ==
  ASSUME NEW skip \in Nat, NEW s \in Seq(Nat),
         \A i \in 1 .. Len(s) : s[i] = skip + i
  PROVE  s = Run(skip, Len(s))
BY DEF Run

LEMMA RunConcat ==
  ASSUME NEW skip \in Nat, NEW m \in Nat, NEW n \in Nat
  PROVE  Run(skip, m) \o Run(skip + m, n) = Run(skip, m + n)
<1> DEFINE s == Run(skip, m)
           t == Run(skip + m, n)
<1>1. /\ s \in Seq(Nat) /\ Len(s) = m /\ \A i \in 1 .. m : s[i] = skip + i
      /\ t \in Seq(Nat) /\ Len(t) = n /\ \A i \in 1 .. n : t[i] = skip + m + i
  BY RunSeq, skip + m \in Nat
<1> HIDE DEF s, t
<1>2. /\ s \o t \in Seq(Nat) /\ Len(s \o t) = m + n
      /\ \A i \in 1 .. m + n : (s \o t)[i] = IF i <= m THEN s[i] ELSE t[i - m]
  <2>1. /\ s \o t \in Seq(Nat) /\ Len(s \o t) = Len(s) + Len(t)
        /\ \A i \in 1 .. Len(s) + Len(t) :
             (s \o t)[i] = IF i <= Len(s) THEN s[i] ELSE t[i - Len(s)]
    BY <1>1, ConcatProperties, ZenonT(30)
  <2> QED
    BY <1>1, <2>1
<1>3. \A i \in 1 .. m + n : (s \o t)[i] = skip + i
  BY <1>1, <1>2
<1>4. s \o t = Run(skip, m + n)
  BY <1>2, <1>3, IsRun
<1> QED
  BY <1>4 DEF s, t

\* What is cut off the start of a run, and what it leaves, are runs.
LEMMA RunCut ==
  ASSUME NEW skip \in Nat, NEW n \in Nat, NEW k \in 0 .. n
  PROVE  /\ SubSeq(Run(skip, n), 1, k) = Run(skip, k)
         /\ SubSeq(Run(skip, n), k + 1, n) = Run(skip + k, n - k)
<1> DEFINE s == Run(skip, n)
<1>1. s \in Seq(Nat) /\ Len(s) = n /\ \A i \in 1 .. n : s[i] = skip + i
  BY RunSeq
<1> HIDE DEF s
<1>2. /\ SubSeq(s, 1, k) \in Seq(Nat) /\ Len(SubSeq(s, 1, k)) = k
      /\ \A i \in 1 .. k : SubSeq(s, 1, k)[i] = s[i]
  BY <1>1
<1>3. /\ SubSeq(s, k + 1, n) \in Seq(Nat) /\ Len(SubSeq(s, k + 1, n)) = n - k
      /\ \A i \in 1 .. n - k : SubSeq(s, k + 1, n)[i] = s[k + i]
  BY <1>1
<1>4. SubSeq(s, 1, k) = Run(skip, k)
  <2>1. \A i \in 1 .. k : SubSeq(s, 1, k)[i] = skip + i
    BY <1>1, <1>2
  <2> QED
    BY <2>1, <1>2, IsRun
<1>5. SubSeq(s, k + 1, n) = Run(skip + k, n - k)
  <2>1. \A i \in 1 .. n - k : SubSeq(s, k + 1, n)[i] = skip + k + i
    BY <1>1, <1>3
  <2> QED
    BY <2>1, <1>3, IsRun, skip + k \in Nat
<1> QED
  BY <1>4, <1>5 DEF s

LEMMA RunAppend ==
  ASSUME NEW skip \in Nat, NEW n \in Nat
  PROVE  Append(Run(skip, n), skip + n + 1) = Run(skip, n + 1)
<1> DEFINE s == Run(skip, n)
<1>1. s \in Seq(Nat) /\ Len(s) = n /\ \A i \in 1 .. n : s[i] = skip + i
  BY RunSeq
<1> HIDE DEF s
<1>2. /\ Append(s, skip + n + 1) \in Seq(Nat) /\ Len(Append(s, skip + n + 1)) = n + 1
      /\ \A i \in 1 .. n + 1 :
           Append(s, skip + n + 1)[i] = IF i <= n THEN s[i] ELSE skip + n + 1
  BY <1>1
<1>3. \A i \in 1 .. n + 1 : Append(s, skip + n + 1)[i] = skip + i
  BY <1>1, <1>2
<1>4. Append(s, skip + n + 1) = Run(skip, n + 1)
  BY <1>2, <1>3, IsRun
<1> QED
  BY <1>4 DEF s

-----------------------------------------------------------------------------
(* The bytes of one end: a write, a read of j bytes and a send of j bytes *)

\* The same, with the lengths and the places where the runs begin.
Placed(skip, got, kept, unread, n, g, k, u, a, b) ==
  /\ got = Run(skip, g) /\ a = skip + g
  /\ kept = Run(a, k)   /\ b = a + k
  /\ unread = Run(b, u) /\ n = b + u

LEMMA Places ==
  ASSUME NEW skip \in Nat, NEW got \in Seq(Nat), NEW kept \in Seq(Nat),
         NEW unread \in Seq(Nat), NEW n \in Nat,
         InOrder(skip, got, kept, unread, n)
  PROVE  \E g, k, u, a, b \in Nat :
           /\ Placed(skip, got, kept, unread, n, g, k, u, a, b)
           /\ Len(got) = g /\ Len(kept) = k /\ Len(unread) = u
<1> WITNESS Len(got) \in Nat, Len(kept) \in Nat, Len(unread) \in Nat,
            skip + Len(got) \in Nat, skip + Len(got) + Len(kept) \in Nat
<1> QED
  BY DEF InOrder, Placed

LEMMA PlacedInOrder ==
  ASSUME NEW skip \in Nat, NEW got, NEW kept, NEW unread, NEW n,
         NEW g \in Nat, NEW k \in Nat, NEW u \in Nat, NEW a \in Nat, NEW b \in Nat,
         Placed(skip, got, kept, unread, n, g, k, u, a, b)
  PROVE  InOrder(skip, got, kept, unread, n)
<1>1. Len(got) = g /\ Len(kept) = k /\ Len(unread) = u
  BY RunSeq DEF Placed
<1> QED
  BY <1>1 DEF InOrder, Placed

LEMMA WriteInOrder ==
  ASSUME NEW skip \in Nat, NEW got \in Seq(Nat), NEW kept \in Seq(Nat),
         NEW unread \in Seq(Nat), NEW n \in Nat,
         InOrder(skip, got, kept, unread, n)
  PROVE  InOrder(skip, got, kept, Append(unread, n + 1), n + 1)
<1>1. PICK g, k, u, a, b \in Nat : Placed(skip, got, kept, unread, n, g, k, u, a, b)
  BY Places
<1>2. Append(unread, n + 1) = Run(b, u + 1)
  BY <1>1, RunAppend DEF Placed
<1>3. Placed(skip, got, kept, Append(unread, n + 1), n + 1, g, k, u + 1, a, b)
  BY <1>1, <1>2 DEF Placed
<1> QED
  BY <1>3, PlacedInOrder, u + 1 \in Nat

LEMMA ReadInOrder ==
  ASSUME NEW skip \in Nat, NEW got \in Seq(Nat), NEW kept \in Seq(Nat),
         NEW unread \in Seq(Nat), NEW n \in Nat, NEW j \in 0 .. Len(unread),
         InOrder(skip, got, kept, unread, n)
  PROVE  InOrder(skip, got, kept \o SubSeq(unread, 1, j),
                 SubSeq(unread, j + 1, Len(unread)), n)
<1>1. PICK g, k, u, a, b \in Nat :
        /\ Placed(skip, got, kept, unread, n, g, k, u, a, b) /\ Len(unread) = u
  BY Places
<1>2. k + j \in Nat /\ u - j \in Nat /\ b + j \in Nat /\ j \in 0 .. u /\ b = a + k
  BY <1>1 DEF Placed
<1>3. /\ SubSeq(Run(b, u), 1, j) = Run(b, j)
      /\ SubSeq(Run(b, u), j + 1, u) = Run(b + j, u - j)
  BY <1>2, RunCut, ZenonT(30)
<1>4. Run(a, k) \o Run(a + k, j) = Run(a, k + j)
  BY j \in Nat, RunConcat, ZenonT(30)
<1>5. kept = Run(a, k) /\ unread = Run(b, u)
  BY <1>1 DEF Placed
<1>6. /\ kept \o SubSeq(unread, 1, j) = Run(a, k + j)
      /\ SubSeq(unread, j + 1, Len(unread)) = Run(b + j, u - j)
  BY <1>1, <1>2, <1>3, <1>4, <1>5, Zenon
<1>7. got = Run(skip, g) /\ a = skip + g /\ b + j = a + (k + j) /\ n = (b + j) + (u - j)
  BY <1>1, <1>2 DEF Placed
<1>8. Placed(skip, got, kept \o SubSeq(unread, 1, j),
             SubSeq(unread, j + 1, Len(unread)), n, g, k + j, u - j, a, b + j)
  BY <1>6, <1>7, Zenon DEF Placed
<1> QED
  BY <1>2, <1>8, PlacedInOrder

LEMMA SendInOrder ==
  ASSUME NEW skip \in Nat, NEW got \in Seq(Nat), NEW kept \in Seq(Nat),
         NEW unread \in Seq(Nat), NEW n \in Nat, NEW j \in 0 .. Len(kept),
         InOrder(skip, got, kept, unread, n)
  PROVE  InOrder(skip, got \o SubSeq(kept, 1, j), SubSeq(kept, j + 1, Len(kept)),
                 unread, n)
<1>1. PICK g, k, u, a, b \in Nat :
        /\ Placed(skip, got, kept, unread, n, g, k, u, a, b) /\ Len(kept) = k
  BY Places
<1>2. g + j \in Nat /\ k - j \in Nat /\ a + j \in Nat /\ j \in 0 .. k /\ a = skip + g
  BY <1>1 DEF Placed
<1>3. /\ SubSeq(Run(a, k), 1, j) = Run(a, j)
      /\ SubSeq(Run(a, k), j + 1, k) = Run(a + j, k - j)
  BY <1>2, RunCut, ZenonT(30)
<1>4. Run(skip, g) \o Run(skip + g, j) = Run(skip, g + j)
  BY j \in Nat, RunConcat, ZenonT(30)
<1>5. got = Run(skip, g) /\ kept = Run(a, k)
  BY <1>1 DEF Placed
<1>6. /\ got \o SubSeq(kept, 1, j) = Run(skip, g + j)
      /\ SubSeq(kept, j + 1, Len(kept)) = Run(a + j, k - j)
  BY <1>1, <1>2, <1>3, <1>4, <1>5, Zenon
<1>7. a + j = skip + (g + j) /\ b = (a + j) + (k - j) /\ unread = Run(b, u) /\ n = b + u
  BY <1>1, <1>2 DEF Placed
<1>8. Placed(skip, got \o SubSeq(kept, 1, j), SubSeq(kept, j + 1, Len(kept)),
             unread, n, g + j, k - j, u, a + j, b)
  BY <1>6, <1>7, Zenon DEF Placed
<1> QED
  BY <1>2, <1>8, PlacedInOrder

\* Put together they are all the bytes of the end but the skipped ones.
LEMMA TogetherInOrder ==
  ASSUME NEW skip \in Nat, NEW got \in Seq(Nat), NEW kept \in Seq(Nat),
         NEW unread \in Seq(Nat), NEW n \in Nat,
         InOrder(skip, got, kept, unread, n)
  PROVE  got \o kept \o unread = Run(skip, n - skip)
<1>1. PICK g, k, u, a, b \in Nat : Placed(skip, got, kept, unread, n, g, k, u, a, b)
  BY Places
<1>2. g + k \in Nat /\ a = skip + g /\ b = skip + (g + k) /\ n - skip = (g + k) + u
  BY <1>1 DEF Placed
<1>3. Run(skip, g) \o Run(skip + g, k) = Run(skip, g + k)
  BY RunConcat, ZenonT(30)
<1>4. Run(skip, g + k) \o Run(skip + (g + k), u) = Run(skip, (g + k) + u)
  BY g + k \in Nat, RunConcat, ZenonT(30)
<1>5. got = Run(skip, g) /\ kept = Run(a, k) /\ unread = Run(b, u)
  BY <1>1 DEF Placed
<1>6. got \o kept = Run(skip, g + k)
  BY <1>2, <1>3, <1>5, Zenon
<1>7. unread = Run(skip + (g + k), u)
  BY <1>2, <1>5, Zenon
<1>8. Run(skip, g + k) \o unread = Run(skip, n - skip)
  BY <1>2, <1>4, <1>7, Zenon
<1> QED
  BY <1>6, <1>8, Zenon

-----------------------------------------------------------------------------
(* Types *)

LEMMA TwoEnds ==
  /\ "client" \in Ends /\ "server" \in Ends
  /\ \A e \in Ends : e = "client" \/ e = "server"
  /\ Other("client") = "server" /\ Other("server") = "client"
  /\ \A e \in Ends : Other(e) \in Ends /\ Other(e) # e /\ Other(Other(e)) = e
<1>1. Other("client") = "server"
  BY DEF Other, Ends
<1>2. Other("server") = "client"
  BY DEF Other, Ends
<1> QED
  BY <1>1, <1>2 DEF Ends

LEMMA CutType ==
  ASSUME NEW S, NEW s \in Seq(S), NEW k \in 0 .. Len(s)
  PROVE  /\ SubSeq(s, 1, k) \in Seq(S) /\ Len(SubSeq(s, 1, k)) = k
         /\ SubSeq(s, k + 1, Len(s)) \in Seq(S)
         /\ Len(SubSeq(s, k + 1, Len(s))) = Len(s) - k
OBVIOUS

\* The bytes of a run that ends within the bound are bytes of the model.
LEMMA RunType ==
  ASSUME NEW skip \in Nat, NEW n \in Nat, skip + n <= MaxBytes, MaxBytes \in Nat
  PROVE  Run(skip, n) \in Seq(1 .. MaxBytes)
<1>1. \A i \in 1 .. n : skip + i \in 1 .. MaxBytes
  OBVIOUS
<1> QED
  BY <1>1 DEF Run

\* The types the lemmas on runs ask for.
LEMMA EndType ==
  ASSUME TypeOK, NEW e \in Ends
  PROVE  /\ Skipped(e) \in Nat /\ MaxBytes \in Nat
         /\ written[e] \in Nat /\ written[e] <= MaxBytes
         /\ received[Other(e)] \in Seq(Nat) /\ received[e] \in Seq(Nat)
         /\ inbox[e] \in Seq(Nat) /\ buffer[e] \in Seq(Nat) /\ Kept(e) \in Seq(Nat)
<1>1. Skipped(e) \in Nat /\ MaxBytes \in Nat /\ written[e] \in 0 .. MaxBytes
  <2>1. early \in 0 .. MaxEarly /\ written \in [Ends -> 0 .. MaxBytes]
    BY DEF TypeOK
  <2> QED
    BY <2>1, TunnelAssumption DEF Skipped, TunnelAssumption
<1>2. /\ received[Other(e)] \in Seq(1 .. MaxBytes) /\ received[e] \in Seq(1 .. MaxBytes)
      /\ inbox[e] \in Seq(1 .. MaxBytes) /\ buffer[e] \in Seq(0 .. MaxBytes)
  BY TwoEnds DEF TypeOK
<1>3. 1 .. MaxBytes \subseteq Nat /\ 0 .. MaxBytes \subseteq Nat
  BY <1>1
<1>4. /\ received[Other(e)] \in Seq(Nat) /\ received[e] \in Seq(Nat)
      /\ inbox[e] \in Seq(Nat) /\ buffer[e] \in Seq(Nat)
  BY <1>2, <1>3, SeqMonotonic
<1> QED
  BY <1>1, <1>4 DEF Kept

\* No more is counted than the two ends write.
LEMMA CountBound ==
  ASSUME MaxBytes \in Nat, NEW c \in Nat, c <= MaxBytes, NEW d \in Nat, d <= MaxBytes
  PROVE  c + d \in 0 .. 2 * MaxBytes
OBVIOUS

-----------------------------------------------------------------------------
(* The invariant holds initially *)

LEMMA InitInv == Init => IInv
<1> SUFFICES ASSUME Init PROVE IInv
  OBVIOUS
<1> USE TunnelAssumption DEF TunnelAssumption
<1>1. early \in 0 .. MaxEarly /\ early <= MaxBytes
  BY DEF Init
<1>2. written["client"] \in 0 .. MaxBytes /\ written["server"] = 0
      /\ written \in [Ends -> 0 .. MaxBytes]
  BY <1>1, TwoEnds DEF Init, Ends
<1>3. \A k \in Nat : Bytes(k) = Run(0, k)
  BY DEF Bytes, Run
<1>4. \A k \in 0 .. MaxBytes : Bytes(k) \in Seq(0 .. MaxBytes)
  BY DEF Bytes
<1>5. ConnectHeader \in Seq(0 .. MaxBytes)
  BY DEF ConnectHeader
<1>6. buffer \in [Ends -> Seq(0 .. MaxBytes)]
  <2>1. buffer["client"] \in Seq(0 .. MaxBytes)
    <3>1. CASE connect
      <4>1. Bytes(early) \in Seq(0 .. MaxBytes)
        BY <1>1, <1>4
      <4>2. buffer["client"] = ConnectHeader \o Bytes(early)
        BY <3>1, TwoEnds DEF Init
      <4> QED
        BY <1>5, <4>1, <4>2, ConcatProperties
    <3>2. CASE ~connect
      <4>1. buffer["client"] = Bytes(Pending)
        BY <3>2, TwoEnds DEF Init
      <4> QED
        BY <1>4, <4>1
    <3> QED
      BY <3>1, <3>2
  <2>2. buffer["server"] = <<>> /\ DOMAIN buffer = Ends
    BY TwoEnds DEF Init
  <2>3. buffer = [e \in Ends |-> buffer[e]]
    BY DEF Init
  <2>4. \A e \in Ends : buffer[e] \in Seq(0 .. MaxBytes)
    <3> TAKE e \in Ends
    <3>1. buffer["server"] \in Seq(0 .. MaxBytes)
      BY <2>2
    <3>2. CASE e = "client"
      BY <2>1, <3>2
    <3>3. CASE e = "server"
      BY <3>1, <3>3
    <3> QED
      BY <3>2, <3>3, TwoEnds
  <2> QED
    BY <2>3, <2>4
<1>7. TypeOK
  <2>1. \A S : <<>> \in Seq(S)
    OBVIOUS
  <2>2. inbox \in [Ends -> Seq(1 .. MaxBytes)] /\ received \in [Ends -> Seq(1 .. MaxBytes)]
    BY <2>1 DEF Init
  <2>3. {connect, setted_up, open} \subseteq BOOLEAN
    BY DEF Init
  <2>4. /\ finished \subseteq Ends /\ read_closed \subseteq Ends
        /\ currentfds \subseteq Ends /\ current_write_fds \subseteq Ends
        /\ readfds \subseteq Ends /\ writefds \subseteq Ends
        /\ pc = "select"
    BY DEF Init, Ends
  <2>5. sent_bytes \in 0 .. 2 * MaxBytes
    BY DEF Init
  <2> QED
    BY <1>1, <1>2, <1>6, <2>2, <2>3, <2>4, <2>5 DEF TypeOK
<1>8. BytesCounted
  BY TwoEnds DEF Init, BytesCounted
<1>9. Streams
  <2> SUFFICES ASSUME NEW e \in Ends
               PROVE  /\ received[Other(e)] = Run(Skipped(e), Len(received[Other(e)]))
                      /\ Skipped(e) + Len(received[Other(e)]) <= written[e]
                      /\ InOrder(Skipped(e), received[Other(e)], Kept(e), inbox[e],
                                 written[e])
    BY DEF Streams
  <2>1. received[Other(e)] = <<>> /\ inbox[e] = <<>> /\ Skipped(e) \in Nat
    BY <1>1, TwoEnds DEF Init, Skipped
  <2>2. \E k \in Nat : Kept(e) = Run(Skipped(e), k) /\ Skipped(e) + k = written[e]
    <3>1. CASE e = "client" /\ connect
      <4>1. Kept(e) = <<>> /\ Skipped(e) = written[e]
        BY <3>1, TwoEnds DEF Init, Kept, Skipped
      <4>2. Run(Skipped(e), 0) = <<>>
        BY <2>1, RunSeq
      <4> QED
        BY <2>1, <4>1, <4>2
    <3>2. CASE e = "client" /\ ~connect
      <4>1. Kept(e) = Bytes(Pending) /\ Skipped(e) = 0 /\ written[e] = Pending
        BY <3>2, TwoEnds DEF Init, Kept, Skipped
      <4> QED
        BY <1>3, <4>1
    <3>3. CASE e = "server"
      <4>1. Kept(e) = <<>> /\ Skipped(e) = 0 /\ written[e] = 0
        BY <3>3, TwoEnds DEF Init, Kept, Skipped
      <4>2. Run(0, 0) = <<>>
        BY RunSeq
      <4> QED
        BY <4>1, <4>2
    <3> QED
      BY <3>1, <3>2, <3>3, TwoEnds
  <2>3. PICK k \in Nat : Kept(e) = Run(Skipped(e), k) /\ Skipped(e) + k = written[e]
    BY <2>2
  <2>4. <<>> = Run(Skipped(e), 0) /\ <<>> = Run(written[e], 0) /\ written[e] \in Nat
    BY <1>2, <2>1, RunSeq, TwoEnds
  <2>5. Placed(Skipped(e), received[Other(e)], Kept(e), inbox[e], written[e],
               0, k, 0, Skipped(e), written[e])
    BY <2>1, <2>3, <2>4 DEF Placed
  <2>6. InOrder(Skipped(e), received[Other(e)], Kept(e), inbox[e], written[e])
    BY <2>1, <2>4, <2>5, PlacedInOrder
  <2> QED
    BY <2>1, <2>3, <2>4, <2>6 DEF InOrder
<1>10. Phases /\ NoAnswerYet /\ Reported /\ Ended
  BY TwoEnds DEF Init, Phases, NoAnswerYet, Reported, Ended
<1> QED
  BY <1>7, <1>8, <1>9, <1>10 DEF IInv

-----------------------------------------------------------------------------
(* Steps that move no byte *)

LEMMA StreamsStay ==
  ASSUME Streams,
         UNCHANGED <<written, received, inbox, buffer, connect, early, setted_up, open>>
  PROVE  Streams'
BY DEF Streams, Skipped, Kept

LEMMA SelectKeeps == IInv /\ Select => IInv'
<1> SUFFICES ASSUME IInv, Select PROVE IInv'
  OBVIOUS
<1> USE DEF IInv, Select, Goto, peers, flags, watch
<1>1. TypeOK'
  BY DEF TypeOK
<1>2. BytesCounted'
  BY DEF BytesCounted
<1>3. Streams'
  BY StreamsStay
<1>4. Phases' /\ NoAnswerYet' /\ Ended'
  BY DEF Phases, NoAnswerYet, Ended
<1>5. Reported'
  BY DEF Reported
<1> QED
  BY <1>1, <1>2, <1>3, <1>4, <1>5

LEMMA EnterKeeps == IInv /\ Enter => IInv'
<1> SUFFICES ASSUME IInv, Enter PROVE IInv'
  OBVIOUS
<1> USE DEF IInv, Enter, Goto, peers, flags, watch, ready
<1>1. TypeOK'
  BY DEF TypeOK
<1>2. BytesCounted'
  BY DEF BytesCounted
<1>3. Streams'
  BY StreamsStay
<1>4. Phases'
  BY DEF Phases, MustClose
<1>5. NoAnswerYet' /\ Ended' /\ Reported'
  BY DEF NoAnswerYet, Ended, Reported
<1> QED
  BY <1>1, <1>2, <1>3, <1>4, <1>5

\* Nothing was reported for the descriptor a place of the handler is about.
LEMMA PassKeeps ==
  ASSUME IInv, NEW next, Pass(next),
         \/ pc = "read client" /\ "client" \notin readfds /\ next = "read server"
         \/ pc = "read server" /\ "server" \notin readfds /\ next = "write server"
         \/ pc = "write server" /\ next = "write client"
         \/ pc = "write client" /\ next = "select"
  PROVE  IInv'
<1> USE DEF IInv, Pass, Goto, peers, flags, watch, ready
<1>1. TypeOK'
  BY DEF TypeOK
<1>2. BytesCounted'
  BY DEF BytesCounted
<1>3. Streams'
  BY StreamsStay
<1>4. Phases' /\ NoAnswerYet' /\ Ended'
  BY DEF Phases, NoAnswerYet, Ended
<1>5. Reported'
  BY TwoEnds DEF Reported, TypeOK
<1> QED
  BY <1>1, <1>2, <1>3, <1>4, <1>5

LEMMA FinishKeeps ==
  ASSUME IInv, NEW e \in Ends, Finish(e)
  PROVE  IInv'
<1> USE DEF IInv, Finish, flags, watch, ready
<1>1. TypeOK'
  BY DEF TypeOK
<1>2. BytesCounted'
  BY DEF BytesCounted
<1>3. Streams'
  BY StreamsStay
<1>4. Phases' /\ NoAnswerYet' /\ Ended' /\ Reported'
  BY DEF Phases, NoAnswerYet, Ended, Reported
<1> QED
  BY <1>1, <1>2, <1>3, <1>4

\* The first visit empties the buffer of the header and keeps what a request
\* left in it, and starts to watch the server.
LEMMA SetUpKeeps == IInv /\ SetUp => IInv'
<1> SUFFICES ASSUME IInv, SetUp PROVE IInv'
  OBVIOUS
<1> USE DEF IInv, SetUp, Goto, peers, ready
<1>1. /\ buffer' \in [Ends -> Seq(0 .. MaxBytes)]
      /\ buffer'["client"] = IF connect THEN <<>> ELSE buffer["client"]
      /\ buffer'["server"] = <<>>
  <2>1. buffer \in [Ends -> Seq(0 .. MaxBytes)]
    BY DEF TypeOK
  <2>2. <<>> \in Seq(0 .. MaxBytes) /\ buffer["client"] \in Seq(0 .. MaxBytes)
    BY <2>1, TwoEnds
  <2> QED
    BY <2>1, <2>2, TwoEnds
<1>2. TypeOK'
  <2>1. setted_up' \in BOOLEAN /\ connect' \in BOOLEAN /\ open' \in BOOLEAN
    BY DEF TypeOK
  <2>2. current_write_fds' \subseteq Ends /\ currentfds' \subseteq Ends
    BY TwoEnds DEF TypeOK
  <2> QED
    BY <1>1, <2>1, <2>2 DEF TypeOK
<1>3. BytesCounted'
  BY DEF BytesCounted
<1>4. \A e \in Ends : Kept(e)' = Kept(e) /\ Skipped(e)' = Skipped(e)
  <2>1. open
    BY DEF Phases
  <2> QED
    BY <1>1, <2>1, TwoEnds DEF Kept, Skipped, NoAnswerYet
<1>5. Streams'
  BY <1>4 DEF Streams
<1>6. Phases' /\ NoAnswerYet' /\ Ended' /\ Reported'
  BY DEF Phases, NoAnswerYet, Ended, Reported
<1> QED
  BY <1>2, <1>3, <1>5, <1>6

-----------------------------------------------------------------------------
(* Steps that move bytes *)

LEMMA AppendNotEmpty ==
  ASSUME NEW S, NEW s \in Seq(S), NEW x \in S
  PROVE  Append(s, x) \in Seq(S) /\ Append(s, x) # <<>>
<1>1. Append(s, x) \in Seq(S) /\ Len(Append(s, x)) = Len(s) + 1 /\ Len(s) \in Nat
  OBVIOUS
<1>2. Len(<<>>) = 0
  OBVIOUS
<1> QED
  BY <1>1, <1>2

\* simpleRead takes no more than there is.
LEMMA ReadType ==
  ASSUME NEW S, NEW s \in Seq(S)
  PROVE  Smaller(ReadSize, Len(s)) \in 0 .. Len(s)
<1>1. Len(s) \in Nat
  OBVIOUS
<1> QED
  BY <1>1, TunnelAssumption DEF TunnelAssumption, Smaller

\* What is read is fit for the buffer.
LEMMA ReadToBuffer ==
  ASSUME NEW s \in Seq(1 .. MaxBytes)
  PROVE  s \in Seq(0 .. MaxBytes)
<1> DEFINE S == 1 .. MaxBytes
           T == 0 .. MaxBytes
<1>1. S \subseteq T
  BY TunnelAssumption DEF TunnelAssumption
<1>2. s \in Seq(S)
  OBVIOUS
<1> HIDE DEF S, T
<1>3. s \in Seq(T)
  BY <1>1, <1>2, SeqMonotonic
<1> QED
  BY <1>3 DEF T

LEMMA WriteKeeps ==
  ASSUME IInv, NEW e \in Ends, Write(e)
  PROVE  IInv'
<1> USE DEF IInv, Write, flags, watch, ready
<1>1. /\ written'[e] = written[e] + 1 /\ inbox'[e] = Append(inbox[e], written[e] + 1)
      /\ \A f \in Ends : f # e => written'[f] = written[f] /\ inbox'[f] = inbox[f]
      /\ written' \in [Ends -> 0 .. MaxBytes]
      /\ inbox' \in [Ends -> Seq(1 .. MaxBytes)]
      /\ inbox'[e] # <<>>
  <2>1. written \in [Ends -> 0 .. MaxBytes] /\ inbox \in [Ends -> Seq(1 .. MaxBytes)]
    BY DEF TypeOK
  <2>2. written[e] + 1 \in 1 .. MaxBytes /\ written[e] + 1 \in 0 .. MaxBytes
    BY <2>1, TunnelAssumption DEF TunnelAssumption
  <2>3. Append(inbox[e], written[e] + 1) \in Seq(1 .. MaxBytes)
        /\ Append(inbox[e], written[e] + 1) # <<>>
    BY <2>1, <2>2, AppendNotEmpty
  <2> QED
    BY <2>1, <2>2, <2>3
<1>2. TypeOK'
  BY <1>1 DEF TypeOK
<1>3. BytesCounted'
  BY DEF BytesCounted
<1>4. Streams'
  <2> SUFFICES ASSUME NEW f \in Ends
               PROVE  /\ Skipped(f) + Len(received[Other(f)]) <= written'[f]
                      /\ InOrder(Skipped(f), received[Other(f)], Kept(f), inbox'[f],
                                 written'[f])
    BY DEF Streams, Skipped, Kept
  <2>1. /\ Skipped(f) + Len(received[Other(f)]) <= written[f]
        /\ InOrder(Skipped(f), received[Other(f)], Kept(f), inbox[f], written[f])
    BY DEF Streams
  <2>2. CASE f # e
    BY <1>1, <2>1, <2>2
  <2>3. CASE f = e
    <3>1. InOrder(Skipped(e), received[Other(e)], Kept(e),
                  Append(inbox[e], written[e] + 1), written[e] + 1)
      BY <2>1, <2>3, EndType, WriteInOrder
    <3>2. Len(received[Other(e)]) \in Nat /\ Skipped(e) \in Nat /\ written[e] \in Nat
      BY EndType
    <3> QED
      BY <1>1, <2>1, <2>3, <3>1, <3>2
  <2> QED
    BY <2>2, <2>3
<1>5. Ended'
  <2>1. "server" \in read_closed => e # "server"
    BY DEF Ended
  <2> QED
    BY <1>1, <2>1, TwoEnds DEF Ended
<1>6. Reported'
  BY <1>1 DEF Reported, TypeOK
<1>7. Phases' /\ NoAnswerYet'
  BY DEF Phases, NoAnswerYet
<1> QED
  BY <1>2, <1>3, <1>4, <1>5, <1>6, <1>7

LEMMA ReadBytesKeeps ==
  ASSUME IInv, NEW e \in Ends, NEW next, ReadBytes(e, next),
         \/ e = "client" /\ pc = "read client" /\ next = "read server"
         \/ e = "server" /\ pc = "read server" /\ next = "write server"
  PROVE  IInv'
<1> DEFINE k == Smaller(ReadSize, Len(inbox[e]))
<1> USE DEF IInv, ReadBytes, Goto, peers, flags, ready
<1>1. /\ inbox \in [Ends -> Seq(1 .. MaxBytes)]
      /\ buffer \in [Ends -> Seq(0 .. MaxBytes)]
      /\ open /\ setted_up
  BY DEF TypeOK, Phases
<1>2. k \in 0 .. Len(inbox[e])
  <2>1. inbox[e] \in Seq(1 .. MaxBytes)
    BY <1>1
  <2> QED
    BY <2>1, ReadType
<1> HIDE DEF k
<1>3. /\ buffer' = [buffer EXCEPT ![e] = @ \o SubSeq(inbox[e], 1, k)]
      /\ inbox' = [inbox EXCEPT ![e] = SubSeq(@, k + 1, Len(@))]
  BY DEF k
<1>4. /\ SubSeq(inbox[e], 1, k) \in Seq(0 .. MaxBytes)
      /\ buffer[e] \o SubSeq(inbox[e], 1, k) \in Seq(0 .. MaxBytes)
      /\ SubSeq(inbox[e], k + 1, Len(inbox[e])) \in Seq(1 .. MaxBytes)
  <2>1. /\ SubSeq(inbox[e], 1, k) \in Seq(1 .. MaxBytes)
        /\ SubSeq(inbox[e], k + 1, Len(inbox[e])) \in Seq(1 .. MaxBytes)
    BY <1>1, <1>2, CutType
  <2>2. SubSeq(inbox[e], 1, k) \in Seq(0 .. MaxBytes)
    BY <2>1, ReadToBuffer
  <2>3. buffer[e] \in Seq(0 .. MaxBytes)
    BY <1>1
  <2> QED
    BY <2>1, <2>2, <2>3, ConcatProperties
<1>5. /\ buffer'[e] = buffer[e] \o SubSeq(inbox[e], 1, k)
      /\ inbox'[e] = SubSeq(inbox[e], k + 1, Len(inbox[e]))
      /\ \A f \in Ends : f # e => buffer'[f] = buffer[f] /\ inbox'[f] = inbox[f]
      /\ buffer' \in [Ends -> Seq(0 .. MaxBytes)]
      /\ inbox' \in [Ends -> Seq(1 .. MaxBytes)]
  BY <1>1, <1>3, <1>4
<1>6. TypeOK'
  <2>1. current_write_fds' \subseteq Ends
    BY TwoEnds, ZenonT(30) DEF TypeOK
  <2> QED
    BY <1>5, <2>1 DEF TypeOK
<1>7. BytesCounted'
  BY DEF BytesCounted
<1>8. Streams'
  <2>1. \A f \in Ends : Kept(f) = buffer[f] /\ Kept(f)' = buffer'[f]
    BY <1>1 DEF Kept
  <2> SUFFICES ASSUME NEW f \in Ends
               PROVE  InOrder(Skipped(f), received[Other(f)], buffer'[f], inbox'[f],
                              written[f])
    BY <2>1 DEF Streams, Skipped
  <2>2. InOrder(Skipped(f), received[Other(f)], buffer[f], inbox[f], written[f])
    BY <1>1, <2>1 DEF Streams
  <2>3. CASE f # e
    BY <1>5, <2>2, <2>3
  <2>4. CASE f = e
    <3>1. InOrder(Skipped(e), received[Other(e)], buffer[e] \o SubSeq(inbox[e], 1, k),
                  SubSeq(inbox[e], k + 1, Len(inbox[e])), written[e])
      BY <1>2, <2>2, <2>4, EndType, ReadInOrder
    <3> QED
      BY <1>5, <2>4, <3>1
  <2> QED
    BY <2>3, <2>4
<1>9. Ended'
  <2>1. e = "server" => "server" \notin read_closed
    BY DEF Ended
  <2> QED
    BY <1>5, <2>1, TwoEnds DEF Ended
<1>10. Reported'
  BY <1>5, TwoEnds DEF Reported, TypeOK
<1>11. Phases' /\ NoAnswerYet'
  BY <1>1 DEF Phases, NoAnswerYet
<1> QED
  BY <1>6, <1>7, <1>8, <1>9, <1>10, <1>11

\* closeAll keeps the invariant whatever was received with it, as long as that is
\* a part, in order, of what was written.
LEMMA closeAllKeeps ==
  ASSUME IInv, closeAll, UNCHANGED peers,
         received' \in [Ends -> Seq(1 .. MaxBytes)],
         \A e \in Ends :
           /\ received'[Other(e)] = Run(Skipped(e), Len(received'[Other(e)]))
           /\ Skipped(e) + Len(received'[Other(e)]) <= written[e],
         sent_bytes' = Len(received'["client"]) + Len(received'["server"])
  PROVE  IInv'
<1> USE DEF IInv, closeAll, Goto, peers
<1>1. \A e \in Ends : Skipped(e)' = Skipped(e)
  BY DEF Skipped
<1>2. sent_bytes' \in 0 .. 2 * MaxBytes
  <2>1. \A e \in Ends : /\ Skipped(e) \in Nat /\ written[e] \in Nat
                        /\ written[e] <= MaxBytes /\ MaxBytes \in Nat
    BY EndType
  <2>2. \A e \in Ends : Len(received'[e]) \in Nat
    <3> TAKE e \in Ends
    <3>1. received'[e] \in Seq(1 .. MaxBytes)
      OBVIOUS
    <3> QED
      BY <3>1
  <2>3. \A e \in Ends : Len(received'[Other(e)]) <= MaxBytes
    <3> TAKE e \in Ends
    <3> DEFINE n == Len(received'[Other(e)])
    <3>1. n \in Nat /\ Skipped(e) + n <= written[e]
      BY <2>2, TwoEnds
    <3> HIDE DEF n
    <3>2. n <= MaxBytes
      BY <2>1, <3>1
    <3> QED
      BY <3>2 DEF n
  <2>4. Len(received'["client"]) <= MaxBytes /\ Len(received'["server"]) <= MaxBytes
    BY <2>3, TwoEnds
  <2> QED
    BY <2>1, <2>2, <2>4, TwoEnds, CountBound
<1>3. TypeOK'
  <2>1. \A S : <<>> \in Seq(S)
    OBVIOUS
  <2>2. inbox' \in [Ends -> Seq(1 .. MaxBytes)] /\ buffer' \in [Ends -> Seq(0 .. MaxBytes)]
    BY <2>1
  <2> QED
    BY <1>2, <2>2 DEF TypeOK
<1>4. BytesCounted'
  BY DEF BytesCounted
<1>5. Streams'
  BY <1>1 DEF Streams
<1>6. Phases' /\ NoAnswerYet' /\ Ended' /\ Reported'
  BY DEF Phases, NoAnswerYet, Ended, Reported
<1> QED
  BY <1>3, <1>4, <1>5, <1>6

\* As when nothing is received.
LEMMA CloseKeeps ==
  ASSUME IInv, closeAll, UNCHANGED <<peers, received, sent_bytes>>
  PROVE  IInv'
BY closeAllKeeps DEF IInv, TypeOK, Streams, BytesCounted

LEMMA ServerEofKeeps == IInv /\ ServerEof => IInv'
<1> SUFFICES ASSUME IInv, ServerEof PROVE IInv'
  OBVIOUS
<1>1. CASE buffer["server"] = <<>>
  BY <1>1, CloseKeeps DEF ServerEof
<1>2. CASE buffer["server"] # <<>>
  <2> USE <1>2 DEF IInv, ServerEof, Goto, peers, ready
  <2>1. "server" \in finished
    BY DEF Reported
  <2>2. TypeOK'
    BY TwoEnds DEF TypeOK
  <2>3. BytesCounted'
    BY DEF BytesCounted
  <2>4. Streams'
    BY StreamsStay
  <2>5. Phases' /\ NoAnswerYet' /\ Reported'
    BY DEF Phases, NoAnswerYet, Reported
  <2>6. Ended'
    BY <2>1 DEF Ended
  <2> QED
    BY <2>2, <2>3, <2>4, <2>5, <2>6
<1> QED
  BY <1>1, <1>2

\* What an end has got and what is left for it once send() took k bytes.
Got(e, k) == received[e] \o SubSeq(buffer[Other(e)], 1, k)
Left(e, k) == SubSeq(buffer[Other(e)], k + 1, Len(buffer[Other(e)]))

LEMMA SendEffect ==
  ASSUME IInv, open, setted_up, NEW e \in Ends, NEW k \in Takes(e)
  PROVE  /\ k \in 0 .. Len(buffer[Other(e)])
         /\ InOrder(Skipped(Other(e)), Got(e, k), Left(e, k), inbox[Other(e)],
                    written[Other(e)])
         /\ Got(e, k) = Run(Skipped(Other(e)), Len(Got(e, k)))
         /\ Skipped(Other(e)) + Len(Got(e, k)) <= written[Other(e)]
         /\ Got(e, k) \in Seq(1 .. MaxBytes)
         /\ Left(e, k) \in Seq(0 .. MaxBytes)
         /\ Len(Got(e, k)) = Len(received[e]) + k
<1> DEFINE f == Other(e)
<1>1. f \in Ends /\ Other(f) = e
  BY TwoEnds
<1>2. /\ TypeOK
      /\ InOrder(Skipped(f), received[Other(f)], Kept(f), inbox[f], written[f])
  BY <1>1 DEF IInv, Streams
<1>3. Kept(f) = buffer[f]
  BY DEF Kept
<1>4. /\ Skipped(f) \in Nat /\ received[e] \in Seq(Nat) /\ buffer[f] \in Seq(Nat)
      /\ inbox[f] \in Seq(Nat) /\ written[f] \in Nat
      /\ written[f] <= MaxBytes /\ MaxBytes \in Nat
  BY <1>1, <1>2, EndType
<1>5. buffer[f] \in Seq(0 .. MaxBytes)
  BY <1>1, <1>2 DEF TypeOK
<1> HIDE DEF f
<1>6. k \in 0 .. Len(buffer[f])
  <2>1. Len(buffer[f]) \in Nat /\ (buffer[f] = <<>> => Len(buffer[f]) = 0)
    BY <1>4
  <2> QED
    BY <2>1 DEF Takes, f
<1>7. InOrder(Skipped(f), received[e], buffer[f], inbox[f], written[f])
  BY <1>1, <1>2, <1>3
<1>8. InOrder(Skipped(f), Got(e, k), Left(e, k), inbox[f], written[f])
  BY <1>4, <1>6, <1>7, SendInOrder DEF Got, Left, f
<1>9. /\ SubSeq(buffer[f], 1, k) \in Seq(Nat) /\ Len(SubSeq(buffer[f], 1, k)) = k
      /\ Left(e, k) \in Seq(0 .. MaxBytes) /\ Left(e, k) \in Seq(Nat)
  BY <1>4, <1>5, <1>6, CutType DEF Left, f
<1>10. Got(e, k) \in Seq(Nat) /\ Len(Got(e, k)) = Len(received[e]) + k
  BY <1>4, <1>9, ConcatProperties DEF Got, f
<1>11. /\ Got(e, k) = Run(Skipped(f), Len(Got(e, k)))
       /\ Skipped(f) + Len(Got(e, k)) <= written[f]
  <2>1. Len(Got(e, k)) \in Nat /\ Len(Left(e, k)) \in Nat /\ Len(inbox[f]) \in Nat
    BY <1>4, <1>9, <1>10, SMTT(30)
  <2> QED
    BY <1>4, <1>8, <2>1 DEF InOrder
<1>12. Got(e, k) \in Seq(1 .. MaxBytes)
  <2>1. Len(Got(e, k)) \in Nat
    BY <1>10
  <2>2. Skipped(f) + Len(Got(e, k)) <= MaxBytes
    BY <1>4, <1>11, <2>1
  <2> QED
    BY <1>4, <1>11, <2>1, <2>2, RunType
<1> QED
  BY <1>6, <1>8, <1>9, <1>10, <1>11, <1>12 DEF f

\* What is received with a send is the rest of an ordered stream: for both ends.
LEMMA SendStreams ==
  ASSUME IInv, open, setted_up, NEW e \in Ends, NEW k \in Takes(e),
         received' = [received EXCEPT ![e] = Got(e, k)],
         sent_bytes' = sent_bytes + k
  PROVE  /\ received' \in [Ends -> Seq(1 .. MaxBytes)]
         /\ \A f \in Ends :
              /\ received'[Other(f)] = Run(Skipped(f), Len(received'[Other(f)]))
              /\ Skipped(f) + Len(received'[Other(f)]) <= written[f]
         /\ sent_bytes' = Len(received'["client"]) + Len(received'["server"])
         /\ sent_bytes' \in 0 .. 2 * MaxBytes
<1>1. /\ Got(e, k) = Run(Skipped(Other(e)), Len(Got(e, k)))
      /\ Skipped(Other(e)) + Len(Got(e, k)) <= written[Other(e)]
      /\ Got(e, k) \in Seq(1 .. MaxBytes) /\ k \in 0 .. Len(buffer[Other(e)])
      /\ Len(Got(e, k)) = Len(received[e]) + k
  BY SendEffect
<1>2. received \in [Ends -> Seq(1 .. MaxBytes)]
  BY DEF IInv, TypeOK
<1>3. /\ received' \in [Ends -> Seq(1 .. MaxBytes)] /\ received'[e] = Got(e, k)
      /\ \A f \in Ends : f # e => received'[f] = received[f]
  BY <1>1, <1>2
<1>4. \A f \in Ends :
        /\ received'[Other(f)] = Run(Skipped(f), Len(received'[Other(f)]))
        /\ Skipped(f) + Len(received'[Other(f)]) <= written[f]
  <2> TAKE f \in Ends
  <2>1. CASE Other(f) = e
    <3>1. f = Other(e)
      BY <2>1, TwoEnds
    <3> QED
      BY <1>1, <1>3, <2>1, <3>1
  <2>2. CASE Other(f) # e
    <3>1. received'[Other(f)] = received[Other(f)]
      BY <1>3, <2>2, TwoEnds
    <3>2. /\ received[Other(f)] = Run(Skipped(f), Len(received[Other(f)]))
          /\ Skipped(f) + Len(received[Other(f)]) <= written[f]
      BY DEF IInv, Streams
    <3> QED
      BY <3>1, <3>2
  <2> QED
    BY <2>1, <2>2
<1>5. sent_bytes' = Len(received'["client"]) + Len(received'["server"])
  <2>1. \A f \in Ends : Len(received[f]) \in Nat
    BY <1>2
  <2>2. k \in Nat /\ sent_bytes = Len(received["client"]) + Len(received["server"])
    <3>1. buffer[Other(e)] \in Seq(0 .. MaxBytes)
      BY TwoEnds DEF IInv, TypeOK
    <3> QED
      BY <1>1, <3>1 DEF IInv, BytesCounted
  <2>3. CASE e = "client"
    BY <1>1, <1>3, <2>1, <2>2, <2>3, TwoEnds
  <2>4. CASE e = "server"
    BY <1>1, <1>3, <2>1, <2>2, <2>4, TwoEnds
  <2> QED
    BY <2>3, <2>4, TwoEnds
<1>6. sent_bytes' \in 0 .. 2 * MaxBytes
  <2>1. \A f \in Ends : Len(received'[Other(f)]) \in Nat /\ Len(received'[Other(f)]) <= MaxBytes
    <3> TAKE f \in Ends
    <3> DEFINE n == Len(received'[Other(f)])
    <3>1. n \in Nat
      <4>1. received'[Other(f)] \in Seq(1 .. MaxBytes)
        BY <1>3, TwoEnds
      <4> QED
        BY <4>1
    <3>2. Skipped(f) + n <= written[f]
      BY <1>4
    <3>3. Skipped(f) \in Nat /\ written[f] \in Nat /\ written[f] <= MaxBytes /\ MaxBytes \in Nat
      BY EndType DEF IInv
    <3> HIDE DEF n
    <3>4. n \in Nat /\ n <= MaxBytes
      BY <3>1, <3>2, <3>3
    <3> QED
      BY <3>4 DEF n
  <2>2. MaxBytes \in Nat
    BY TunnelAssumption DEF TunnelAssumption
  <2>3. /\ Len(received'["client"]) \in Nat /\ Len(received'["client"]) <= MaxBytes
        /\ Len(received'["server"]) \in Nat /\ Len(received'["server"]) <= MaxBytes
    BY <2>1, TwoEnds
  <2>4. Len(received'["client"]) + Len(received'["server"]) \in 0 .. 2 * MaxBytes
    BY <2>2, <2>3, CountBound
  <2> QED
    BY <1>5, <2>4
<1> QED
  BY <1>3, <1>4, <1>5, <1>6

LEMMA SendKeeps ==
  ASSUME IInv, open, setted_up, NEW e \in Ends, NEW k \in Takes(e), Send(e, k),
         UNCHANGED <<peers, inbox, flags, currentfds, ready>>,
         \/ pc = "write server" /\ pc' = "write client"
         \/ pc = "write client" /\ pc' = "select"
  PROVE  IInv'
<1>1. /\ received' = [received EXCEPT ![e] = Got(e, k)]
      /\ buffer' = [buffer EXCEPT ![Other(e)] = Left(e, k)]
      /\ sent_bytes' = sent_bytes + k
      /\ current_write_fds' \subseteq current_write_fds
  BY DEF Send, Got, Left
<1>2. /\ received' \in [Ends -> Seq(1 .. MaxBytes)]
      /\ \A f \in Ends :
           /\ received'[Other(f)] = Run(Skipped(f), Len(received'[Other(f)]))
           /\ Skipped(f) + Len(received'[Other(f)]) <= written[f]
      /\ sent_bytes' = Len(received'["client"]) + Len(received'["server"])
      /\ sent_bytes' \in 0 .. 2 * MaxBytes
  BY <1>1, SendStreams
<1>3. /\ InOrder(Skipped(Other(e)), Got(e, k), Left(e, k), inbox[Other(e)],
                 written[Other(e)])
      /\ Left(e, k) \in Seq(0 .. MaxBytes)
  BY SendEffect
<1>4. buffer \in [Ends -> Seq(0 .. MaxBytes)] /\ received \in [Ends -> Seq(1 .. MaxBytes)]
  BY DEF IInv, TypeOK
<1>5. /\ buffer' \in [Ends -> Seq(0 .. MaxBytes)] /\ buffer'[Other(e)] = Left(e, k)
      /\ received'[e] = Got(e, k)
      /\ \A f \in Ends : f # Other(e) => buffer'[f] = buffer[f]
      /\ \A f \in Ends : f # e => received'[f] = received[f]
  BY <1>1, <1>3, <1>4, TwoEnds
<1>6. TypeOK'
  <2>1. pc' \in {"select", "write client"}
    OBVIOUS
  <2> QED
    BY <1>1, <1>2, <1>5, <2>1 DEF IInv, TypeOK, peers, flags, ready
<1>7. BytesCounted'
  BY <1>2 DEF BytesCounted
<1>8. Streams'
  <2>1. \A f \in Ends : Kept(f) = buffer[f] /\ Kept(f)' = buffer'[f]
    BY DEF Kept, flags
  <2> SUFFICES ASSUME NEW f \in Ends
               PROVE  InOrder(Skipped(f), received'[Other(f)], buffer'[f], inbox[f],
                              written[f])
    BY <1>2, <2>1 DEF Streams, Skipped, flags, peers
  <2>2. CASE f = Other(e)
    BY <1>3, <1>5, <2>2, TwoEnds
  <2>3. CASE f # Other(e)
    <3>1. Other(f) # e
      BY <2>3, TwoEnds
    <3>2. InOrder(Skipped(f), received[Other(f)], buffer[f], inbox[f], written[f])
      BY <2>1 DEF IInv, Streams
    <3> QED
      BY <1>5, <2>3, <3>1, <3>2, TwoEnds
  <2> QED
    BY <2>2, <2>3
<1>9. Phases' /\ NoAnswerYet' /\ Ended'
  BY DEF IInv, Phases, NoAnswerYet, Ended, peers, flags
<1>10. Reported'
  BY DEF IInv, Reported, ready
<1> QED
  BY <1>6, <1>7, <1>8, <1>9, <1>10 DEF IInv

LEMMA WriteServerKeeps == IInv /\ WriteServer => IInv'
<1> SUFFICES ASSUME IInv, WriteServer PROVE IInv'
  OBVIOUS
<1>1. CASE "server" \notin writefds /\ Pass("write client")
  BY <1>1, PassKeeps DEF WriteServer
<1>2. CASE "server" \in writefds
  <2>1. PICK k \in Takes("server") : Send("server", k)
    BY <1>2 DEF WriteServer
  <2>2. open /\ setted_up
    BY DEF IInv, Phases, WriteServer
  <2> QED
    BY <1>2, <2>1, <2>2, SendKeeps, TwoEnds DEF WriteServer, Goto
<1> QED
  BY <1>1, <1>2 DEF WriteServer

LEMMA WriteClientKeeps == IInv /\ WriteClient => IInv'
<1> SUFFICES ASSUME IInv, WriteClient PROVE IInv'
  OBVIOUS
<1>1. CASE "client" \notin writefds /\ Pass("select")
  BY <1>1, PassKeeps DEF WriteClient
<1>2. CASE "client" \in writefds
  <2> DEFINE Last(k) ==
        MustClose(read_closed, SubSeq(buffer["server"], k + 1, Len(buffer["server"])))
  <2>1. PICK k \in Takes("client") :
          IF Last(k)
            THEN /\ received' = [received EXCEPT !["client"] =
                                   @ \o SubSeq(buffer["server"], 1, k)]
                 /\ sent_bytes' = sent_bytes + k
                 /\ closeAll
                 /\ UNCHANGED peers
            ELSE /\ Send("client", k)
                 /\ Goto("select")
                 /\ UNCHANGED <<peers, inbox, flags, currentfds, ready>>
    BY <1>2 DEF WriteClient
  <2>2. open /\ setted_up
    BY DEF IInv, Phases, WriteClient
  <2>3. CASE Last(k)
    <3>1. received' = [received EXCEPT !["client"] = Got("client", k)]
      BY <2>1, <2>3, TwoEnds DEF Got
    <3> QED
      BY <2>1, <2>2, <2>3, <3>1, SendStreams, closeAllKeeps, TwoEnds
  <2>4. CASE ~Last(k)
    BY <2>1, <2>2, <2>4, SendKeeps, TwoEnds DEF WriteClient, Goto
  <2> QED
    BY <2>3, <2>4
<1> QED
  BY <1>1, <1>2 DEF WriteClient

LEMMA NextKeeps == IInv /\ [Next]_vars => IInv'
<1> SUFFICES ASSUME IInv, [Next]_vars PROVE IInv'
  OBVIOUS
<1>1. CASE Select
  BY <1>1, SelectKeeps
<1>2. CASE CloseFinished
  BY <1>2, CloseKeeps DEF CloseFinished
<1>3. CASE SetUp
  BY <1>3, SetUpKeeps
<1>4. CASE Enter
  BY <1>4, EnterKeeps
<1>5. CASE ReadClient
  <2>1. CASE "client" \notin readfds /\ Pass("read server")
    BY <1>5, <2>1, PassKeeps DEF ReadClient
  <2>2. CASE ReadBytes("client", "read server")
    BY <1>5, <2>2, ReadBytesKeeps, TwoEnds DEF ReadClient
  <2> QED
    BY <1>5, <2>1, <2>2 DEF ReadClient
<1>6. CASE ClientEof
  BY <1>6, CloseKeeps DEF ClientEof
<1>7. CASE ReadServer
  <2>1. CASE "server" \notin readfds /\ Pass("write server")
    BY <1>7, <2>1, PassKeeps DEF ReadServer
  <2>2. CASE ReadBytes("server", "write server")
    BY <1>7, <2>2, ReadBytesKeeps, TwoEnds DEF ReadServer
  <2> QED
    BY <1>7, <2>1, <2>2 DEF ReadServer
<1>8. CASE ServerEof
  BY <1>8, ServerEofKeeps
<1>9. CASE WriteServer
  BY <1>9, WriteServerKeeps
<1>10. CASE WriteClient
  BY <1>10, WriteClientKeeps
<1>11. CASE \E e \in Ends : Write(e) \/ Finish(e)
  BY <1>11, WriteKeeps, FinishKeeps
<1>12. CASE UNCHANGED vars
  <2> USE <1>12 DEF IInv, vars, peers, flags, watch, ready
  <2>1. TypeOK' /\ BytesCounted'
    BY DEF TypeOK, BytesCounted
  <2>2. Streams'
    BY StreamsStay
  <2>3. Phases' /\ NoAnswerYet' /\ Reported' /\ Ended'
    BY DEF Phases, NoAnswerYet, Reported, Ended
  <2> QED
    BY <2>1, <2>2, <2>3
<1> QED
  BY <1>1, <1>2, <1>3, <1>4, <1>5, <1>6, <1>7, <1>8, <1>9, <1>10, <1>11, <1>12
     DEF Next, Handler

LEMMA Invariance == Spec => []IInv
<1>1. Init => IInv
  BY InitInv
<1>2. IInv /\ [Next]_vars => IInv'
  BY NextKeeps
<1> QED
  BY <1>1, <1>2, PTL DEF Spec

-----------------------------------------------------------------------------
(* What a relayed connection promises *)

\* Every variable of the relay keeps its type: no count passes what the two ends
\* write, and the handler of handleStayConnected is always at one of its places.
THEOREM TypesHold == Spec => []TypeOK
<1>1. IInv => TypeOK
  BY DEF IInv
<1> QED
  BY <1>1, Invariance, PTL

\* Whatever is read, sent in parts or closed in whatever order (simpleRead,
\* handleWrite, closeAll), the "bytes" of the management protocol grow by what the
\* two ends receive and by nothing else.
THEOREM CountIsExact == Spec => []BytesCounted
<1>1. IInv => BytesCounted
  BY DEF IInv
<1> QED
  BY <1>1, Invariance, PTL

\* While the connection is open, the bytes of an end are received, in the buffer
\* or unread, each once and in order, for every order of reads and partial sends.
THEOREM NothingIsLost == Spec => []Conserved
<1>1. IInv => Conserved
  <2> SUFFICES ASSUME IInv, open, NEW e \in Ends
               PROVE  received[Other(e)] \o Kept(e) \o inbox[e] =
                        [k \in 1 .. written[e] - Skipped(e) |-> Skipped(e) + k]
    BY DEF Conserved, Kept
  <2>1. InOrder(Skipped(e), received[Other(e)], Kept(e), inbox[e], written[e])
    BY DEF IInv, Streams
  <2>2. received[Other(e)] \o Kept(e) \o inbox[e] = Run(Skipped(e), written[e] - Skipped(e))
    BY <2>1, EndType, TogetherInOrder DEF IInv
  <2> QED
    BY <2>2 DEF Run
<1> QED
  BY <1>1, Invariance, PTL

-----------------------------------------------------------------------------
(* Refinement: each step is one of Relay, or none *)

\* The bytes received, without those that were not to be.
Shifted(got) == [e \in Ends |-> [k \in DOMAIN got[e] |-> got[e][k] - Skipped(Other(e))]]

\* The bytes written, without those that are not to be received.
Owed == [e \in Ends |-> written[e] - Skipped(e)]

LEMMA SameRelay ==
  /\ Ideal!Ends = Ends
  /\ \A e : Ideal!Other(e) = Other(e)
  /\ \A k : Ideal!Bytes(k) = Bytes(k)
<1>1. Ideal!Ends = Ends
  BY DEF Ideal!Ends, Ends
<1> QED
  BY <1>1 DEF Ideal!Other, Other, Ideal!Bytes, Bytes

LEMMA ShiftedIsCount ==
  ASSUME TypeOK, NEW got \in [Ends -> Seq(1 .. MaxBytes)],
         \A e \in Ends : got[Other(e)] = Run(Skipped(e), Len(got[Other(e)]))
  PROVE  Shifted(got) = [e \in Ends |-> Bytes(Len(got[e]))]
<1> SUFFICES ASSUME NEW e \in Ends
             PROVE  [k \in DOMAIN got[e] |-> got[e][k] - Skipped(Other(e))] =
                      Bytes(Len(got[e]))
  BY DEF Shifted
<1> DEFINE n == Len(got[e])
           skip == Skipped(Other(e))
<1>1. n \in Nat /\ DOMAIN got[e] = 1 .. n
  <2>1. got[e] \in Seq(1 .. MaxBytes)
    OBVIOUS
  <2> QED
    BY <2>1, LenProperties
<1>2. skip \in Nat
  BY TwoEnds, EndType
<1>3. got[e] = Run(skip, n)
  <2>1. Other(e) \in Ends /\ Other(Other(e)) = e
    BY TwoEnds
  <2>2. got[Other(Other(e))] = Run(Skipped(Other(e)), Len(got[Other(Other(e))]))
    BY <2>1
  <2> QED
    BY <2>1, <2>2
<1> HIDE DEF n, skip
<1>4. \A k \in 1 .. n : got[e][k] - skip = k
  <2> TAKE k \in 1 .. n
  <2>1. Run(skip, n)[k] = skip + k
    BY <1>1, <1>2, RunSeq
  <2> QED
    BY <1>1, <1>2, <1>3, <2>1
<1> QED
  BY <1>1, <1>4 DEF Bytes, n, skip

\* The steps that write, deliver and receive nothing.
LEMMA NoStep ==
  ASSUME UNCHANGED <<written, finished, received, early, open>>
  PROVE  UNCHANGED Ideal!vars
BY DEF Ideal!vars, Skipped

\* A close for a reason the ends can see.
LEMMA CloseIsClose ==
  ASSUME IInv, open, closeAll, UNCHANGED peers,
         received' \in [Ends -> Seq(1 .. MaxBytes)],
         \A e \in Ends : received'[Other(e)] = Run(Skipped(e), Len(received'[Other(e)])),
         \/ "client" \in finished /\ received' = received
         \/ /\ "server" \in finished
            /\ received'["server"] = received["server"]
            /\ Len(received'["client"]) = written["server"]
  PROVE  Ideal!Close
<1>1. open' = FALSE /\ written' = written /\ finished' = finished
      /\ \A e : Skipped(e)' = Skipped(e)
  BY DEF closeAll, peers, Skipped
<1>2. /\ Shifted(received) = [e \in Ends |-> Bytes(Len(received[e]))]
      /\ Shifted(received') = [e \in Ends |-> Bytes(Len(received'[e]))]
  <2>1. /\ TypeOK /\ received \in [Ends -> Seq(1 .. MaxBytes)]
        /\ \A e \in Ends : received[Other(e)] = Run(Skipped(e), Len(received[Other(e)]))
    BY DEF IInv, TypeOK, Streams
  <2> QED
    BY <2>1, ShiftedIsCount
<1>3. Owed["server"] = written["server"]
  <2>1. written["server"] \in Nat
    BY EndType, TwoEnds DEF IInv
  <2> QED
    BY <2>1, TwoEnds DEF Owed, Skipped
<1>4. \/ "client" \in finished /\ Shifted(received') = Shifted(received)
      \/ /\ "server" \in finished
         /\ Shifted(received') =
              [Shifted(received) EXCEPT !["client"] = Bytes(Owed["server"])]
  <2>1. CASE "client" \in finished /\ received' = received
    BY <2>1
  <2>2. CASE /\ "server" \in finished
             /\ received'["server"] = received["server"]
             /\ Len(received'["client"]) = written["server"]
    BY <1>2, <1>3, <2>2, TwoEnds
  <2> QED
    BY <2>1, <2>2
<1>5. /\ Shifted(received') = [e \in Ends |-> [k \in DOMAIN received[e] |->
                                  received[e][k] - Skipped(Other(e))]]'
      /\ Owed' = Owed
  BY <1>1 DEF Shifted, Owed
<1> QED
  BY <1>1, <1>4, <1>5, SameRelay DEF Ideal!Close, Shifted, Owed

\* A send delivers what it takes of the bytes of the other end.
LEMMA SendIsDeliver ==
  ASSUME IInv, open, setted_up, NEW e \in Ends, NEW k \in Takes(e),
         received' = [received EXCEPT ![e] = Got(e, k)],
         UNCHANGED <<written, finished, early, open>>
  PROVE  [Ideal!Next]_(Ideal!vars)
<1> DEFINE f == Other(e)
           n == Len(received[e]) + k
<1>1. /\ Got(e, k) = Run(Skipped(f), Len(Got(e, k)))
      /\ Skipped(f) + Len(Got(e, k)) <= written[f]
      /\ Got(e, k) \in Seq(1 .. MaxBytes)
      /\ Len(Got(e, k)) = n /\ k \in 0 .. Len(buffer[f])
  BY SendEffect
<1>2. /\ received \in [Ends -> Seq(1 .. MaxBytes)]
      /\ f \in Ends /\ Other(f) = e
      /\ \A x \in Ends : received[Other(x)] = Run(Skipped(x), Len(received[Other(x)]))
      /\ Skipped(f) \in Nat /\ written[f] \in Nat /\ buffer[f] \in Seq(Nat)
  BY TwoEnds, EndType DEF IInv, TypeOK, Streams
<1>3. Len(received[e]) \in Nat /\ k \in Nat /\ n \in Nat
  BY <1>1, <1>2
<1> HIDE DEF f
<1>4. /\ received' \in [Ends -> Seq(1 .. MaxBytes)] /\ received'[e] = Got(e, k)
      /\ \A x \in Ends : x # e => received'[x] = received[x]
  BY <1>1, <1>2
<1>5. \A x \in Ends : received'[Other(x)] = Run(Skipped(x), Len(received'[Other(x)]))
  <2> TAKE x \in Ends
  <2>1. CASE Other(x) = e
    BY <1>1, <1>4, <2>1, TwoEnds DEF f
  <2>2. CASE Other(x) # e
    <3>1. received'[Other(x)] = received[Other(x)]
      BY <1>4, <2>2, TwoEnds
    <3> QED
      BY <1>2, <3>1
  <2> QED
    BY <2>1, <2>2
<1> HIDE DEF n
<1>6. /\ Shifted(received) = [x \in Ends |-> Bytes(Len(received[x]))]
      /\ Shifted(received') = [x \in Ends |-> Bytes(Len(received'[x]))]
  BY <1>2, <1>4, <1>5, ShiftedIsCount DEF IInv
<1>7. Shifted(received') = [Shifted(received) EXCEPT ![e] = Bytes(n)]
  BY <1>1, <1>4, <1>6
<1>8. Owed' = Owed /\ \A x : Skipped(x)' = Skipped(x)
  BY DEF Owed, Skipped
<1>9. Shifted(received') = [x \in Ends |-> [i \in DOMAIN received[x] |->
                                received[x][i] - Skipped(Other(x))]]'
  BY <1>8 DEF Shifted
<1>10. CASE k = 0
  <2>1. Shifted(received') = Shifted(received)
    <3>1. n = Len(received[e])
      BY <1>3, <1>10 DEF n
    <3> QED
      BY <1>6, <1>7, <3>1
  <2> QED
    BY <1>8, <1>9, <2>1 DEF Ideal!vars, Shifted, Owed
<1>11. CASE k # 0
  <2>1. Len(Shifted(received)[e]) = Len(received[e])
    BY <1>3, <1>6 DEF Bytes
  <2>2. n \in Len(Shifted(received)[e]) + 1 .. Owed[f]
    <3>1. Owed[f] = written[f] - Skipped(f)
      BY <1>2 DEF Owed
    <3> QED
      BY <1>1, <1>2, <1>3, <1>11, <2>1, <3>1 DEF n
  <2>3. Ideal!Deliver(f)
    BY <1>2, <1>7, <1>8, <1>9, <2>2, SameRelay DEF Ideal!Deliver, Shifted, Owed
  <2> QED
    BY <1>2, <2>3, SameRelay DEF Ideal!Next
<1> QED
  BY <1>10, <1>11

LEMMA InitIsInit == Init => Ideal!Init
<1> SUFFICES ASSUME Init PROVE Ideal!Init
  OBVIOUS
<1>1. IInv
  BY InitInv
<1>2. \A e \in Ends : Owed[e] \in Nat
  <2> TAKE e \in Ends
  <2>1. Skipped(e) \in Nat /\ written[e] \in Nat /\ Len(received[Other(e)]) \in Nat
        /\ Skipped(e) + Len(received[Other(e)]) <= written[e]
    BY <1>1, EndType DEF IInv, Streams
  <2> QED
    BY <2>1 DEF Owed
<1>3. Owed \in [Ends -> Nat]
  BY <1>2 DEF Owed
<1>4. Shifted(received) = [e \in Ends |-> <<>>]
  <2>1. received = [e \in Ends |-> <<>>]
    BY DEF Init
  <2>2. \A e \in Ends : [k \in DOMAIN received[e] |->
                           received[e][k] - Skipped(Other(e))] = <<>>
    BY <2>1
  <2> QED
    BY <2>2 DEF Shifted
<1> QED
  BY <1>3, <1>4, SameRelay DEF Init, Ideal!Init, Owed, Shifted

LEMMA WriteIsWrite ==
  ASSUME IInv, NEW e \in Ends, Write(e)
  PROVE  Ideal!Write(e)
<1>1. /\ written \in [Ends -> 0 .. MaxBytes] /\ open /\ e \notin finished
      /\ written' = [written EXCEPT ![e] = @ + 1]
      /\ finished' = finished /\ received' = received /\ open' = open /\ early' = early
  BY DEF IInv, TypeOK, Write, flags
<1>2. \A x : Skipped(x)' = Skipped(x)
  BY <1>1 DEF Skipped
<1>3. \A x \in Ends : Skipped(x) \in Nat /\ written[x] \in Nat
  BY EndType DEF IInv
<1>4. Owed' = [Owed EXCEPT ![e] = @ + 1]
  <2>1. Owed' = [x \in Ends |-> written'[x] - Skipped(x)]
    BY <1>2 DEF Owed
  <2>2. [Owed EXCEPT ![e] = @ + 1] =
          [x \in Ends |-> IF x = e THEN Owed[e] + 1 ELSE Owed[x]]
    BY DEF Owed
  <2>3. \A x \in Ends : written'[x] - Skipped(x) =
                          IF x = e THEN Owed[e] + 1 ELSE Owed[x]
    <3> TAKE x \in Ends
    <3>1. Owed[x] = written[x] - Skipped(x)
      BY DEF Owed
    <3>2. CASE x = e
      <4>1. written'[x] = written[x] + 1
        BY <1>1, <3>2
      <4> QED
        BY <1>3, <3>1, <3>2, <4>1
    <3>3. CASE x # e
      <4>1. written'[x] = written[x]
        BY <1>1, <3>3
      <4> QED
        BY <3>1, <3>3, <4>1
    <3> QED
      BY <3>2, <3>3
  <2> QED
    BY <2>1, <2>2, <2>3
<1>5. Shifted(received)' = Shifted(received)
  BY <1>1, <1>2 DEF Shifted
<1> QED
  BY <1>1, <1>4, <1>5 DEF Ideal!Write, Shifted, Owed

LEMMA FinishIsFinish ==
  ASSUME NEW e \in Ends, Finish(e)
  PROVE  Ideal!Finish(e)
<1>1. \A x : Skipped(x)' = Skipped(x)
  BY DEF Finish, flags, Skipped
<1> QED
  BY <1>1 DEF Finish, Ideal!Finish, flags

\* When no byte of the server is left to read or to send, its client has them all.
LEMMA AllReceived ==
  ASSUME IInv, open, inbox["server"] = <<>>, buffer["server"] = <<>>
  PROVE  Len(received["client"]) = written["server"]
<1>1. Kept("server") = <<>> /\ Skipped("server") = 0
  BY DEF Kept, Skipped
<1>2. InOrder(Skipped("server"), received[Other("server")], Kept("server"),
              inbox["server"], written["server"])
  BY TwoEnds DEF IInv, Streams
<1>3. InOrder(0, received["client"], <<>>, <<>>, written["server"])
  BY <1>1, <1>2, TwoEnds
<1>4. Len(received["client"]) \in Nat /\ Len(<<>>) = 0
  BY EndType, TwoEnds DEF IInv
<1> QED
  BY <1>3, <1>4 DEF InOrder

\* The three places that close: what the client was told, or that it closed.
LEMMA CloseFinishedIsClose == IInv /\ CloseFinished => Ideal!Close
<1> SUFFICES ASSUME IInv, CloseFinished PROVE Ideal!Close
  OBVIOUS
<1>1. /\ closeAll /\ UNCHANGED peers /\ received' = received
      /\ MustClose(read_closed, buffer["server"])
  BY DEF CloseFinished
<1>2. /\ open /\ read_closed \subseteq finished
      /\ received \in [Ends -> Seq(1 .. MaxBytes)]
      /\ \A e \in Ends : received[Other(e)] = Run(Skipped(e), Len(received[Other(e)]))
  BY DEF IInv, Phases, Ended, TypeOK, Streams, CloseFinished
<1>3. CASE "client" \in read_closed
  BY <1>1, <1>2, <1>3, CloseIsClose
<1>4. CASE "server" \in read_closed /\ buffer["server"] = <<>>
  <2>1. inbox["server"] = <<>>
    BY <1>4 DEF IInv, Ended
  <2>2. Len(received["client"]) = written["server"]
    BY <1>2, <1>4, <2>1, AllReceived
  <2> QED
    BY <1>1, <1>2, <1>4, <2>2, CloseIsClose
<1> QED
  BY <1>1, <1>3, <1>4 DEF MustClose

LEMMA EofIsClose ==
  ASSUME IInv, closeAll, UNCHANGED <<peers, received>>,
         \/ /\ pc = "read client" /\ "client" \in readfds /\ inbox["client"] = <<>>
         \/ /\ pc = "read server" /\ "server" \in readfds /\ inbox["server"] = <<>>
            /\ buffer["server"] = <<>>
  PROVE  Ideal!Close
<1>1. /\ open /\ setted_up
      /\ received \in [Ends -> Seq(1 .. MaxBytes)]
      /\ \A e \in Ends : received[Other(e)] = Run(Skipped(e), Len(received[Other(e)]))
  BY DEF IInv, Phases, TypeOK, Streams
<1>2. CASE pc = "read client" /\ "client" \in readfds /\ inbox["client"] = <<>>
  <2>1. "client" \in finished
    BY <1>2 DEF IInv, Reported
  <2> QED
    BY <1>1, <2>1, CloseIsClose
<1>3. CASE /\ pc = "read server" /\ "server" \in readfds /\ inbox["server"] = <<>>
           /\ buffer["server"] = <<>>
  <2>1. "server" \in finished
    BY <1>3 DEF IInv, Reported
  <2>2. Len(received["client"]) = written["server"]
    BY <1>1, <1>3, AllReceived
  <2> QED
    BY <1>1, <2>1, <2>2, CloseIsClose
<1> QED
  BY <1>2, <1>3

LEMMA WriteClientIsRelay == IInv /\ WriteClient => [Ideal!Next]_(Ideal!vars)
<1> SUFFICES ASSUME IInv, WriteClient PROVE [Ideal!Next]_(Ideal!vars)
  OBVIOUS
<1>1. open /\ setted_up /\ "client" \notin read_closed
  BY DEF IInv, Phases, WriteClient
<1>2. CASE "client" \notin writefds /\ Pass("select")
  BY <1>2, NoStep DEF Pass, peers, flags
<1>3. CASE "client" \in writefds
  <2> DEFINE Last(k) ==
        MustClose(read_closed, SubSeq(buffer["server"], k + 1, Len(buffer["server"])))
  <2>1. PICK k \in Takes("client") :
          IF Last(k)
            THEN /\ received' = [received EXCEPT !["client"] =
                                   @ \o SubSeq(buffer["server"], 1, k)]
                 /\ sent_bytes' = sent_bytes + k
                 /\ closeAll
                 /\ UNCHANGED peers
            ELSE /\ Send("client", k)
                 /\ Goto("select")
                 /\ UNCHANGED <<peers, inbox, flags, currentfds, ready>>
    BY <1>3 DEF WriteClient
  <2>2. CASE ~Last(k)
    <3>1. received' = [received EXCEPT !["client"] = Got("client", k)]
      BY <2>1, <2>2 DEF Send, Got
    <3> QED
      BY <1>1, <2>1, <2>2, <3>1, SendIsDeliver, TwoEnds DEF peers, flags
  <2>3. CASE Last(k)
    <3>1. received' = [received EXCEPT !["client"] = Got("client", k)]
          /\ sent_bytes' = sent_bytes + k /\ closeAll /\ UNCHANGED peers
      BY <2>1, <2>3, TwoEnds DEF Got
    <3>2. /\ received' \in [Ends -> Seq(1 .. MaxBytes)]
          /\ \A f \in Ends : received'[Other(f)] = Run(Skipped(f), Len(received'[Other(f)]))
      BY <1>1, <3>1, SendStreams, TwoEnds
    <3>3. "server" \in read_closed /\ Left("client", k) = <<>>
      BY <1>1, <2>3, TwoEnds DEF MustClose, Left
    <3>4. "server" \in finished /\ inbox["server"] = <<>>
      BY <3>3 DEF IInv, Ended
    <3>5. /\ received'["server"] = received["server"]
          /\ received'["client"] = Got("client", k)
      BY <3>1, TwoEnds DEF IInv, TypeOK
    <3>6. Len(Got("client", k)) = written["server"]
      <4>1. InOrder(0, Got("client", k), <<>>, <<>>, written["server"])
        <5>1. Skipped("server") = 0
          BY DEF Skipped
        <5> QED
          BY <1>1, <3>3, <3>4, <5>1, SendEffect, TwoEnds
      <4>2. Len(Got("client", k)) \in Nat /\ Len(<<>>) = 0
        <5>1. Got("client", k) \in Seq(1 .. MaxBytes)
          BY <1>1, SendEffect, TwoEnds
        <5> QED
          BY <5>1
      <4> QED
        BY <4>1, <4>2 DEF InOrder
    <3>7. Ideal!Close
      BY <1>1, <3>1, <3>2, <3>4, <3>5, <3>6, CloseIsClose
    <3> QED
      BY <3>7 DEF Ideal!Next
  <2> QED
    BY <2>2, <2>3
<1> QED
  BY <1>2, <1>3 DEF WriteClient

LEMMA StepOfRelay == IInv /\ [Next]_vars => [Ideal!Next]_(Ideal!vars)
<1> SUFFICES ASSUME IInv, [Next]_vars PROVE [Ideal!Next]_(Ideal!vars)
  OBVIOUS
<1>1. CASE UNCHANGED <<written, finished, received, early, open>>
  BY <1>1, NoStep
<1>2. CASE Select \/ SetUp \/ Enter \/ UNCHANGED vars
  BY <1>1, <1>2 DEF Select, SetUp, Enter, vars, peers, flags
<1>3. CASE CloseFinished
  BY <1>3, CloseFinishedIsClose DEF Ideal!Next
<1>4. CASE ReadClient \/ ReadServer
  BY <1>1, <1>4 DEF ReadClient, ReadServer, ReadBytes, Pass, peers, flags
<1>5. CASE ClientEof
  <2>1. Ideal!Close
    BY <1>5, EofIsClose DEF ClientEof
  <2> QED
    BY <2>1 DEF Ideal!Next
<1>6. CASE ServerEof
  <2>1. CASE buffer["server"] = <<>>
    <3>1. Ideal!Close
      BY <1>6, <2>1, EofIsClose DEF ServerEof
    <3> QED
      BY <3>1 DEF Ideal!Next
  <2>2. CASE buffer["server"] # <<>>
    BY <1>1, <1>6, <2>2 DEF ServerEof, peers
  <2> QED
    BY <2>1, <2>2
<1>7. CASE WriteServer
  <2>1. CASE Pass("write client")
    BY <2>1, <1>1 DEF Pass, peers, flags
  <2>2. CASE "server" \in writefds /\ \E k \in Takes("server") : Send("server", k)
             /\ UNCHANGED <<peers, inbox, flags, currentfds, ready>>
    <3>1. PICK k \in Takes("server") : Send("server", k)
      BY <2>2
    <3>2. open /\ setted_up
      BY <1>7 DEF IInv, Phases, WriteServer
    <3>3. received' = [received EXCEPT !["server"] = Got("server", k)]
      BY <3>1 DEF Send, Got
    <3> QED
      BY <2>2, <3>2, <3>3, SendIsDeliver, TwoEnds DEF peers, flags
  <2> QED
    BY <1>7, <2>1, <2>2 DEF WriteServer
<1>8. CASE WriteClient
  BY <1>8, WriteClientIsRelay
<1>9. CASE \E e \in Ends : Write(e) \/ Finish(e)
  BY <1>9, WriteIsWrite, FinishIsFinish, SameRelay DEF Ideal!Next
<1> QED
  BY <1>2, <1>3, <1>4, <1>5, <1>6, <1>7, <1>8, <1>9 DEF Next, Handler

\* The relay of a connection is Relay: each end receives the bytes of the other one
\* in order and once each, those a CONNECT client sent ahead excepted, and
\* closeAll is reached only when the client finished or the client has received
\* the whole answer of a server that finished.
THEOREM RelayIsImplemented == Spec => ImplementsRelay
<1>1. Init => Ideal!Init
  BY InitIsInit
<1>2. IInv /\ [Next]_vars => [Ideal!Next]_(Ideal!vars)
  BY StepOfRelay
<1> QED
  BY <1>1, <1>2, Invariance, PTL DEF Spec, ImplementsRelay, Ideal!Spec
=============================================================================
