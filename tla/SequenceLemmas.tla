---------------------------- MODULE SequenceLemmas ----------------------------
(***************************************************************************)
(* Facts about natural numbers and about FlattenSeq that the proofs of     *)
(* Authorization and Doh need.                                             *)
(***************************************************************************)
EXTENDS Integers, Sequences, SequencesExt, FiniteSets, FiniteSetTheorems,
        SequenceTheorems, TLAPS

\* Induction, with a set in the place of a formula: what is closed under +1 has no
\* least number outside, as the numbers outside up to some n would be one-to-one
\* with a proper part of themselves.
LEMMA Induction ==
  ASSUME NEW S, 0 \in S, \A n \in Nat : n \in S => n + 1 \in S
  PROVE  Nat \subseteq S
<1> SUFFICES ASSUME NEW n \in Nat, n \notin S
             PROVE  FALSE
  OBVIOUS
<1> DEFINE T == {k \in 0 .. n : k \notin S}
           f == [k \in T |-> k - 1]
<1>1. IsFiniteSet(T) /\ n \in T
  <2>1. IsFiniteSet(0 .. n)
    BY FS_Interval
  <2>2. T \subseteq 0 .. n
    OBVIOUS
  <2> QED
    BY <2>1, <2>2, FS_Subset
<1>2. IsFiniteSet(T \ {n}) /\ Cardinality(T \ {n}) = Cardinality(T) - 1
  BY <1>1, FS_RemoveElement
<1>3. f \in Injection(T, T \ {n})
  <2>1. \A k \in T : k - 1 \in T \ {n}
    <3> SUFFICES ASSUME NEW k \in T
                 PROVE  k - 1 \in T \ {n}
      OBVIOUS
    <3>1. k # 0
      OBVIOUS
    <3>2. k - 1 \in Nat /\ (k - 1) + 1 = k
      BY <3>1
    <3> QED
      BY <3>2
  <2>2. \A a, b \in T : f[a] = f[b] => a = b
    OBVIOUS
  <2> QED
    BY <2>1, <2>2 DEF Injection, IsInjective
<1>4. Cardinality(T) <= Cardinality(T \ {n})
  BY <1>2, <1>3, FS_Injection
<1>5. Cardinality(T) \in Nat
  BY <1>1, FS_CardinalityType
<1> QED
  BY <1>2, <1>4, <1>5
\* The function FlattenSeq is defined by: what the first sequences make, one by one.
LEMMA FlattenExists ==
  ASSUME NEW s, NEW n \in Nat
  PROVE  \E F : F = [i \in 1 .. n |-> IF i = 1 THEN s[i] ELSE F[i - 1] \o s[i]]
<1> DEFINE S == {m \in Nat :
                   \E F : F = [i \in 1 .. m |-> IF i = 1 THEN s[i] ELSE F[i - 1] \o s[i]]}
<1>1. 0 \in S
  <2> DEFINE F == [i \in 1 .. 0 |-> s]
  <2>1. F = [i \in 1 .. 0 |-> IF i = 1 THEN s[i] ELSE F[i - 1] \o s[i]]
    OBVIOUS
  <2> QED
    BY <2>1
<1>2. ASSUME NEW m \in Nat, m \in S
      PROVE  m + 1 \in S
  <2> PICK F : F = [i \in 1 .. m |-> IF i = 1 THEN s[i] ELSE F[i - 1] \o s[i]]
    BY <1>2
  <2> DEFINE G == [i \in 1 .. m + 1 |->
                     IF i = m + 1 THEN IF i = 1 THEN s[i] ELSE F[m] \o s[i]
                     ELSE F[i]]
  <2>1. \A i \in 1 .. m + 1 : G[i] = IF i = 1 THEN s[i] ELSE G[i - 1] \o s[i]
    <3> SUFFICES ASSUME NEW i \in 1 .. m + 1
                 PROVE  G[i] = IF i = 1 THEN s[i] ELSE G[i - 1] \o s[i]
      OBVIOUS
    <3>1. i # 1 => i - 1 \in 1 .. m /\ G[i - 1] = F[i - 1]
      OBVIOUS
    <3>2. CASE i = m + 1
      BY <3>1, <3>2
    <3>3. CASE i # m + 1
      <4>1. i \in 1 .. m /\ G[i] = F[i]
        BY <3>3
      <4>2. F[i] = IF i = 1 THEN s[i] ELSE F[i - 1] \o s[i]
        BY <4>1
      <4> QED
        BY <3>1, <4>1, <4>2
    <3> QED
      BY <3>2, <3>3
  <2>2. G = [i \in 1 .. m + 1 |-> IF i = 1 THEN s[i] ELSE G[i - 1] \o s[i]]
    <3> DEFINE H == [i \in 1 .. m + 1 |-> IF i = 1 THEN s[i] ELSE G[i - 1] \o s[i]]
    <3>1. \A i \in 1 .. m + 1 : G[i] = H[i]
      BY <2>1
    <3>2. DOMAIN G = 1 .. m + 1 /\ DOMAIN H = 1 .. m + 1
      OBVIOUS
    <3>3. G = [i \in 1 .. m + 1 |-> G[i]] /\ H = [i \in 1 .. m + 1 |-> H[i]]
      OBVIOUS
    <3> HIDE DEF G, H
    <3>4. G = H
      BY <3>1, <3>3
    <3> QED
      BY <3>4 DEF H
  <2> HIDE DEF G
  <2>3. \E H : H = [i \in 1 .. m + 1 |-> IF i = 1 THEN s[i] ELSE H[i - 1] \o s[i]]
    BY <2>2, Zenon
  <2>4. m + 1 \in Nat
    OBVIOUS
  <2> QED
    BY <2>3, <2>4, Zenon
<1> HIDE DEF S
<1>3. n \in S
  BY <1>1, <1>2, Induction
<1> QED
  BY <1>3 DEF S

\* FlattenSeq(s) as the last value of a function from the number of sequences
\* taken so far.
LEMMA FlattenSteps ==
  ASSUME NEW s, Len(s) \in Nat \ {0}
  PROVE  \E F : /\ FlattenSeq(s) = F[Len(s)]
                /\ F[1] = s[1]
                /\ \A i \in 2 .. Len(s) : F[i] = F[i - 1] \o s[i]
<1> DEFINE n == Len(s)
           Is(F) == F = [i \in 1 .. n |-> IF i = 1 THEN s[i] ELSE F[i - 1] \o s[i]]
           F == CHOOSE F : Is(F)
<1>1. Is(F)
  <2>1. \E G : Is(G)
    BY FlattenExists
  <2> HIDE DEF Is
  <2> QED
    BY <2>1
<1>2. FlattenSeq(s) = F[n]
  BY DEF FlattenSeq
<1> HIDE DEF F
<1>3. F[1] = s[1]
  BY <1>1
<1>4. ASSUME NEW i \in 2 .. n
      PROVE  F[i] = F[i - 1] \o s[i]
  <2>1. i \in 1 .. n /\ i # 1
    OBVIOUS
  <2>2. F[i] = IF i = 1 THEN s[i] ELSE F[i - 1] \o s[i]
    BY <1>1, <2>1
  <2> QED
    BY <2>1, <2>2
<1> QED
  BY <1>2, <1>3, <1>4
\* What satisfies the same equations is FlattenSeq.
LEMMA FlattenIs ==
  ASSUME NEW s, Len(s) \in Nat \ {0}, NEW G,
         G[1] = s[1], \A i \in 2 .. Len(s) : G[i] = G[i - 1] \o s[i]
  PROVE  FlattenSeq(s) = G[Len(s)]
<1> PICK F : /\ FlattenSeq(s) = F[Len(s)]
             /\ F[1] = s[1]
             /\ \A i \in 2 .. Len(s) : F[i] = F[i - 1] \o s[i]
  BY FlattenSteps
<1> DEFINE S == {i \in Nat : i \in 1 .. Len(s) => F[i] = G[i]}
<1>1. 0 \in S
  OBVIOUS
<1>2. ASSUME NEW i \in Nat, i \in S
      PROVE  i + 1 \in S
  <2> SUFFICES ASSUME i + 1 \in 1 .. Len(s)
               PROVE  F[i + 1] = G[i + 1]
    OBVIOUS
  <2>1. CASE i = 0
    BY <2>1
  <2>2. CASE i # 0
    <3>1. i \in 1 .. Len(s) /\ i + 1 \in 2 .. Len(s) /\ (i + 1) - 1 = i
      BY <2>2
    <3>2. F[i] = G[i]
      BY <1>2, <3>1
    <3>3. F[i + 1] = F[i] \o s[i + 1] /\ G[i + 1] = G[i] \o s[i + 1]
      BY <3>1
    <3> QED
      BY <3>2, <3>3
  <2> QED
    BY <2>1, <2>2
<1> HIDE DEF S
<1>3. Len(s) \in S
  BY <1>1, <1>2, Induction
<1> QED
  BY <1>3 DEF S

LEMMA FlattenType ==
  ASSUME NEW A, NEW s \in Seq(Seq(A))
  PROVE  FlattenSeq(s) \in Seq(A)
<1>1. CASE Len(s) = 0
  BY <1>1 DEF FlattenSeq
<1>2. CASE Len(s) # 0
  <2>1. Len(s) \in Nat \ {0} /\ \A i \in 1 .. Len(s) : s[i] \in Seq(A)
    BY <1>2
  <2> PICK F : /\ FlattenSeq(s) = F[Len(s)]
               /\ F[1] = s[1]
               /\ \A i \in 2 .. Len(s) : F[i] = F[i - 1] \o s[i]
    BY <2>1, FlattenSteps
  <2> DEFINE S == {i \in Nat : i \in 1 .. Len(s) => F[i] \in Seq(A)}
  <2>2. 0 \in S
    OBVIOUS
  <2>3. ASSUME NEW i \in Nat, i \in S
        PROVE  i + 1 \in S
    <3> SUFFICES ASSUME i + 1 \in 1 .. Len(s)
                 PROVE  F[i + 1] \in Seq(A)
      OBVIOUS
    <3>1. CASE i = 0
      BY <2>1, <3>1
    <3>2. CASE i # 0
      <4>1. i \in 1 .. Len(s) /\ i + 1 \in 2 .. Len(s) /\ (i + 1) - 1 = i
        BY <3>2
      <4>2. F[i] \in Seq(A) /\ s[i + 1] \in Seq(A)
        BY <2>1, <2>3, <4>1
      <4>3. F[i + 1] = F[i] \o s[i + 1]
        BY <4>1
      <4> QED
        BY <4>2, <4>3
    <3> QED
      BY <3>1, <3>2
  <2> HIDE DEF S
  <2>4. Len(s) \in S
    BY <2>1, <2>2, <2>3, Induction
  <2> QED
    BY <2>1, <2>4 DEF S
<1> QED
  BY <1>1, <1>2

\* Every nonempty set of natural numbers has a least one.
LEMMA Least ==
  ASSUME NEW T \in SUBSET Nat, NEW t \in T
  PROVE  \E k \in T : \A m \in T : k <= m
<1> SUFFICES ASSUME \A k \in T : \E m \in T : m < k
             PROVE  FALSE
  OBVIOUS
<1> DEFINE S == {n \in Nat : \A m \in 0 .. n : m \notin T}
<1>1. 0 \in S
  <2>1. 0 \notin T
    OBVIOUS
  <2> QED
    BY <2>1
<1>2. ASSUME NEW n \in Nat, n \in S
      PROVE  n + 1 \in S
  <2>1. n + 1 \notin T
    <3> SUFFICES ASSUME n + 1 \in T
                 PROVE  FALSE
      OBVIOUS
    <3> PICK m \in T : m < n + 1
      OBVIOUS
    <3>1. m \in 0 .. n
      OBVIOUS
    <3> QED
      BY <1>2, <3>1
  <2> QED
    BY <1>2, <2>1
<1> HIDE DEF S
<1>3. t \in S
  BY <1>1, <1>2, Induction
<1> QED
  BY <1>3 DEF S
\* The first k elements of t are those of s after a.
LEMMA SameParts ==
  ASSUME NEW A, NEW s \in Seq(A), NEW t \in Seq(A), NEW a \in Nat, NEW k \in Nat,
         k <= Len(t), a + k <= Len(s), \A i \in 1 .. k : t[i] = s[a + i]
  PROVE  SubSeq(t, 1, k) = SubSeq(s, a + 1, a + k)
<1> DEFINE u == SubSeq(t, 1, k)
           v == SubSeq(s, a + 1, a + k)
<1>1. u \in Seq(A) /\ Len(u) = k /\ \A i \in 1 .. k : u[i] = t[i]
  <2>1. \A i \in 1 .. k : t[i] \in A
    OBVIOUS
  <2> QED
    BY <2>1, SubSeqProperties
<1>2. v \in Seq(A) /\ Len(v) = k /\ \A i \in 1 .. k : v[i] = s[a + i]
  <2>1. \A i \in a + 1 .. a + k : s[i] \in A
    OBVIOUS
  <2>2. a + 1 \in Int /\ a + k \in Int /\ (a + k) - (a + 1) + 1 = k
        /\ \A i \in 1 .. k : (a + 1) + i - 1 = a + i
    OBVIOUS
  <2> QED
    BY <2>1, <2>2, SubSeqProperties
<1> HIDE DEF u, v
<1>3. u = v
  BY <1>1, <1>2, SeqEqual
<1> QED
  BY <1>3 DEF u, v

\* The first k sequences of s, joined.
Joined(s, k) == FlattenSeq(SubSeq(s, 1, k))

LEMMA JoinedType ==
  ASSUME NEW A, NEW s \in Seq(Seq(A)), NEW k \in 0 .. Len(s)
  PROVE  Joined(s, k) \in Seq(A) /\ Len(Joined(s, k)) \in Nat
<1>1. \A i \in 1 .. k : s[i] \in Seq(A)
  OBVIOUS
<1>2. SubSeq(s, 1, k) \in Seq(Seq(A))
  BY <1>1, SubSeqProperties
<1>3. Joined(s, k) \in Seq(A)
  BY <1>2, FlattenType DEF Joined
<1> QED
  BY <1>3, LenProperties

LEMMA JoinedEnds ==
  ASSUME NEW A, NEW s \in Seq(Seq(A))
  PROVE  Joined(s, 0) = <<>> /\ Joined(s, Len(s)) = FlattenSeq(s)
<1>1. SubSeq(s, 1, 0) = <<>>
  BY SubSeqEmpty
<1>2. FlattenSeq(<<>>) = <<>>
  BY DEF FlattenSeq
<1>3. SubSeq(s, 1, Len(s)) = s
  BY SubSeqFull
<1> QED
  BY <1>1, <1>2, <1>3 DEF Joined

LEMMA FlattenNext ==
  ASSUME NEW k \in Nat, NEW u, NEW v, Len(u) = k, Len(v) = k + 1,
         \A i \in 1 .. k : u[i] = v[i]
  PROVE  FlattenSeq(v) = IF k = 0 THEN v[1] ELSE FlattenSeq(u) \o v[k + 1]
<1>1. Len(v) \in Nat \ {0}
  OBVIOUS
<1> PICK F : /\ FlattenSeq(v) = F[Len(v)]
             /\ F[1] = v[1]
             /\ \A i \in 2 .. Len(v) : F[i] = F[i - 1] \o v[i]
  BY <1>1, FlattenSteps, Zenon
<1>2. CASE k = 0
  <2>1. Len(v) = 1
    BY <1>2
  <2> QED
    BY <1>2, <2>1
<1>3. CASE k # 0
  <2>1. /\ Len(u) \in Nat \ {0} /\ k + 1 \in 2 .. Len(v) /\ (k + 1) - 1 = k
        /\ 1 \in 1 .. k
    BY <1>3
  <2>2. F[1] = u[1]
    BY <2>1, Zenon
  <2>3. ASSUME NEW i \in 2 .. Len(u)
        PROVE  F[i] = F[i - 1] \o u[i]
    <3>1. i \in 1 .. k /\ i \in 2 .. Len(v)
      OBVIOUS
    <3>2. F[i] = F[i - 1] \o v[i] /\ u[i] = v[i]
      BY <3>1
    <3> QED
      BY <3>2
  <2>4. FlattenSeq(u) = F[Len(u)]
    BY <2>1, <2>2, <2>3, FlattenIs, Zenon
  <2>5. F[k + 1] = F[(k + 1) - 1] \o v[k + 1]
    BY <2>1, Zenon
  <2>6. FlattenSeq(v) = F[k] \o v[k + 1]
    BY <2>1, <2>5
  <2> QED
    BY <1>3, <2>4, <2>6
<1> QED
  BY <1>2, <1>3

LEMMA JoinedNext ==
  ASSUME NEW A, NEW s \in Seq(Seq(A)), NEW k \in 0 .. Len(s) - 1
  PROVE  Joined(s, k + 1) = Joined(s, k) \o s[k + 1]
<1> DEFINE u == SubSeq(s, 1, k)
           v == SubSeq(s, 1, k + 1)
<1>1. /\ k \in Nat /\ k <= Len(s) /\ k + 1 <= Len(s)
      /\ s[k + 1] \in Seq(A)
      /\ \A i \in 1 .. k + 1 : s[i] \in Seq(A)
  OBVIOUS
<1>2. Len(u) = k /\ \A i \in 1 .. k : u[i] = s[i]
  <2>1. \A i \in 1 .. k : s[i] \in Seq(A)
    BY <1>1
  <2> QED
    BY <1>1, <2>1, SubSeqProperties
<1>3. Len(v) = k + 1 /\ \A i \in 1 .. k + 1 : v[i] = s[i]
  BY <1>1, SubSeqProperties
<1> HIDE DEF u, v
<1>4. v[k + 1] = s[k + 1] /\ \A i \in 1 .. k : u[i] = v[i]
  <2>1. k + 1 \in 1 .. k + 1 /\ \A i \in 1 .. k : i \in 1 .. k + 1
    BY <1>1
  <2> QED
    BY <1>2, <1>3, <2>1, Zenon
<1>5. FlattenSeq(v) = IF k = 0 THEN v[1] ELSE FlattenSeq(u) \o v[k + 1]
  <2>1. k \in Nat /\ Len(u) = k /\ Len(v) = k + 1 /\ \A i \in 1 .. k : u[i] = v[i]
    BY <1>1, <1>2, <1>3, <1>4, Zenon
  <2> QED
    BY <2>1, FlattenNext
<1>6. CASE k = 0
  <2>1. Joined(s, 0) = <<>>
    BY JoinedEnds
  <2>2. <<>> \o s[k + 1] = s[k + 1]
    BY <1>1, ConcatEmptySeq
  <2>3. FlattenSeq(v) = s[k + 1]
    BY <1>4, <1>5, <1>6
  <2>4. Joined(s, k + 1) = FlattenSeq(v)
    BY DEF Joined, v
  <2>5. Joined(s, k) = <<>>
    BY <1>6, <2>1
  <2> QED
    BY <2>2, <2>3, <2>4, <2>5, Zenon
<1>7. CASE k # 0
  <2>1. FlattenSeq(v) = FlattenSeq(u) \o s[k + 1]
    BY <1>4, <1>5, <1>7, Zenon
  <2> QED
    BY <2>1, Zenon DEF Joined, u, v
<1> QED
  BY <1>6, <1>7

LEMMA JoinedFirst ==
  ASSUME NEW A, NEW s \in Seq(Seq(A)), Len(s) > 0
  PROVE  Joined(s, 1) = s[1]
<1>1. 0 \in 0 .. Len(s) - 1 /\ 0 + 1 = 1
  OBVIOUS
<1>2. Joined(s, 1) = Joined(s, 0) \o s[1]
  BY <1>1, JoinedNext, Zenon
<1>3. s[1] \in Seq(A)
  OBVIOUS
<1>4. <<>> \o s[1] = s[1]
  BY <1>3, ConcatEmptySeq
<1>5. Joined(s, 0) = <<>>
  BY JoinedEnds, Zenon
<1> QED
  BY <1>2, <1>4, <1>5, Zenon

\* A sequence that begins with u and x has u first, and then x.
LEMMA BeginsWithBoth ==
  ASSUME NEW A, NEW u \in Seq(A), NEW x \in Seq(A), NEW w \in Seq(A),
         Len(u \o x) <= Len(w), \A i \in 1 .. Len(u \o x) : w[i] = (u \o x)[i]
  PROVE  /\ Len(u \o x) = Len(u) + Len(x) /\ Len(u) <= Len(w)
         /\ \A i \in 1 .. Len(u) : w[i] = u[i]
         /\ \A j \in 1 .. Len(x) : w[Len(u) + j] = x[j]
<1>1. /\ Len(u \o x) = Len(u) + Len(x)
      /\ \A i \in 1 .. Len(u) + Len(x) : (u \o x)[i] = IF i <= Len(u) THEN u[i] ELSE x[i - Len(u)]
  BY ConcatProperties
<1>2. Len(u) \in Nat /\ Len(x) \in Nat /\ Len(w) \in Nat
  BY LenProperties
<1>3. ASSUME NEW i \in 1 .. Len(u)
      PROVE  w[i] = u[i]
  <2>1. i \in 1 .. Len(u) + Len(x) /\ i \in 1 .. Len(u \o x) /\ i <= Len(u)
    BY <1>1, <1>2
  <2> QED
    BY <1>1, <2>1
<1>4. ASSUME NEW j \in 1 .. Len(x)
      PROVE  w[Len(u) + j] = x[j]
  <2>1. /\ Len(u) + j \in 1 .. Len(u) + Len(x) /\ Len(u) + j \in 1 .. Len(u \o x)
        /\ ~(Len(u) + j <= Len(u)) /\ (Len(u) + j) - Len(u) = j
    BY <1>1, <1>2
  <2>2. (u \o x)[Len(u) + j] = x[j]
    BY <1>1, <2>1
  <2> QED
    BY <2>1, <2>2
<1> QED
  BY <1>1, <1>2, <1>3, <1>4

\* The whole begins with each of its beginnings.
LEMMA JoinedBegins ==
  ASSUME NEW A, NEW s \in Seq(Seq(A)), NEW k \in 0 .. Len(s)
  PROVE  /\ Len(Joined(s, k)) <= Len(FlattenSeq(s))
         /\ \A i \in 1 .. Len(Joined(s, k)) : FlattenSeq(s)[i] = Joined(s, k)[i]
<1> DEFINE w == FlattenSeq(s)
           In(u) == Len(u) <= Len(w) /\ \A i \in 1 .. Len(u) : w[i] = u[i]
           S == {d \in Nat : d <= Len(s) => In(Joined(s, Len(s) - d))}
<1>1. 0 \in S
  <2>1. Len(s) - 0 = Len(s) /\ Len(s) \in 0 .. Len(s)
    OBVIOUS
  <2>2. Joined(s, Len(s)) = w /\ Len(w) \in Nat
    BY <2>1, JoinedEnds, JoinedType
  <2> HIDE DEF w
  <2>3. In(w)
    BY <2>2
  <2> HIDE DEF In
  <2> QED
    BY <2>1, <2>2, <2>3
<1>2. ASSUME NEW d \in Nat, d \in S
      PROVE  d + 1 \in S
  <2> SUFFICES ASSUME d + 1 <= Len(s)
               PROVE  In(Joined(s, Len(s) - (d + 1)))
    OBVIOUS
  <2> DEFINE m == Len(s) - (d + 1)
             u == Joined(s, m)
             x == s[m + 1]
  <2>1. m \in 0 .. Len(s) - 1 /\ m \in 0 .. Len(s) /\ m + 1 = Len(s) - d
        /\ m + 1 \in 1 .. Len(s) /\ d <= Len(s)
    OBVIOUS
  <2> HIDE DEF In
  <2>2. In(Joined(s, m + 1))
    BY <1>2, <2>1
  <2> HIDE DEF m
  <2>3. Joined(s, m + 1) = u \o x /\ u \in Seq(A) /\ x \in Seq(A) /\ w \in Seq(A)
    <3>1. Joined(s, m + 1) = u \o x
      BY <2>1, JoinedNext, Zenon
    <3>2. u \in Seq(A)
      BY <2>1, JoinedType, Zenon
    <3>3. x \in Seq(A)
      BY <2>1
    <3>4. w \in Seq(A)
      BY FlattenType
    <3> QED
      BY <3>1, <3>2, <3>3, <3>4
  <2> HIDE DEF u, x, w
  <2>4. Len(u \o x) <= Len(w) /\ \A i \in 1 .. Len(u \o x) : w[i] = (u \o x)[i]
    BY <2>2, <2>3 DEF In
  <2>5. Len(u) <= Len(w) /\ \A i \in 1 .. Len(u) : w[i] = u[i]
    BY <2>3, <2>4, BeginsWithBoth
  <2>6. In(u)
    BY <2>5 DEF In
  <2> QED
    BY <2>6 DEF u, m
<1> HIDE DEF S
<1>3. Len(s) - k \in S
  <2>1. Len(s) - k \in Nat
    OBVIOUS
  <2> QED
    BY <1>1, <1>2, <2>1, Induction
<1>4. Len(s) - k <= Len(s) /\ Len(s) - (Len(s) - k) = k
  OBVIOUS
<1>5. In(Joined(s, k))
  <2> HIDE DEF In
  <2> QED
    BY <1>3, <1>4 DEF S
<1> QED
  BY <1>5

\* Where the elements of a part are in the whole.
LEMMA PartAt ==
  ASSUME NEW A, NEW s \in Seq(Seq(A)), NEW k \in 0 .. Len(s) - 1
  PROVE  LET p == Len(Joined(s, k))
         IN  /\ Len(Joined(s, k + 1)) = p + Len(s[k + 1])
             /\ p + Len(s[k + 1]) <= Len(FlattenSeq(s))
             /\ \A j \in 1 .. Len(s[k + 1]) : FlattenSeq(s)[p + j] = s[k + 1][j]
<1> DEFINE u == Joined(s, k)
           x == s[k + 1]
           w == FlattenSeq(s)
<1>1. k \in 0 .. Len(s) /\ k + 1 \in 0 .. Len(s) /\ k + 1 \in 1 .. Len(s)
  OBVIOUS
<1>2. u \in Seq(A) /\ x \in Seq(A) /\ w \in Seq(A)
  BY <1>1, JoinedType, FlattenType
<1>3. Joined(s, k + 1) = u \o x
  BY JoinedNext
<1>4. Len(u \o x) <= Len(w) /\ \A i \in 1 .. Len(u \o x) : w[i] = (u \o x)[i]
  <2> HIDE DEF u, x
  <2> QED
    BY <1>1, <1>3, JoinedBegins
<1> HIDE DEF u, x, w
<1>5. Len(u \o x) = Len(u) + Len(x) /\ \A j \in 1 .. Len(x) : w[Len(u) + j] = x[j]
  BY <1>2, <1>4, BeginsWithBoth
<1> QED
  BY <1>3, <1>4, <1>5 DEF u, x, w

\* Every place of the whole is one of a part.
LEMMA PartOf ==
  ASSUME NEW A, NEW s \in Seq(Seq(A)), NEW p \in 1 .. Len(FlattenSeq(s))
  PROVE  \E k \in 0 .. Len(s) - 1 : \E j \in 1 .. Len(s[k + 1]) : p = Len(Joined(s, k)) + j
<1> DEFINE Within(k) == \E j \in 1 .. Len(s[k + 1]) : p = Len(Joined(s, k)) + j
           S == {m \in Nat : m <= Len(s) /\ p <= Len(Joined(s, m)) =>
                   \E k \in 0 .. Len(s) - 1 : Within(k)}
<1>1. 0 \in S
  <2>1. Len(Joined(s, 0)) = 0
    BY JoinedEnds
  <2> HIDE DEF Within
  <2> QED
    BY <2>1
<1>2. ASSUME NEW m \in Nat, m \in S
      PROVE  m + 1 \in S
  <2> HIDE DEF Within
  <2> SUFFICES ASSUME m + 1 <= Len(s), p <= Len(Joined(s, m + 1))
               PROVE  \E k \in 0 .. Len(s) - 1 : Within(k)
    OBVIOUS
  <2>1. m \in 0 .. Len(s) - 1 /\ m \in 0 .. Len(s) /\ m <= Len(s) /\ m + 1 \in 1 .. Len(s)
    OBVIOUS
  <2>2. CASE p <= Len(Joined(s, m))
    BY <1>2, <2>1, <2>2
  <2>3. CASE ~(p <= Len(Joined(s, m)))
    <3>1. Len(Joined(s, m + 1)) = Len(Joined(s, m)) + Len(s[m + 1])
      BY <2>1, PartAt, Zenon
    <3>2. Len(Joined(s, m)) \in Nat
      BY <2>1, JoinedType, Zenon
    <3>3. Len(s[m + 1]) \in Nat
      BY <2>1
    <3> DEFINE a == Len(Joined(s, m))
               b == Len(s[m + 1])
    <3>4. p \in Nat /\ a \in Nat /\ b \in Nat /\ ~(p <= a) /\ p <= a + b
      BY <2>3, <3>1, <3>2, <3>3
    <3> HIDE DEF a, b
    <3>5. p - a \in 1 .. b /\ p = a + (p - a)
      BY <3>4
    <3>6. Within(m)
      BY <3>5, Zenon DEF Within, a, b
    <3> QED
      BY <2>1, <3>6, Zenon
  <2> QED
    BY <2>2, <2>3
<1> HIDE DEF S
<1>3. Len(s) \in S
  <2>1. Len(s) \in Nat
    OBVIOUS
  <2>2. Nat \subseteq S
    BY <1>1, <1>2, Induction, Zenon
  <2> QED
    BY <2>1, <2>2, Zenon
<1>4. p <= Len(Joined(s, Len(s))) /\ Len(s) \in Nat /\ Len(s) <= Len(s)
  BY JoinedEnds
<1> HIDE DEF Within
<1>5. \E k \in 0 .. Len(s) - 1 : Within(k)
  BY <1>3, <1>4 DEF S
<1> QED
  BY <1>5 DEF Within
=============================================================================
