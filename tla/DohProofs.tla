------------------------------ MODULE DohProofs ------------------------------
(***************************************************************************)
(* Theorems about Doh: for every host, every zone, every splitting of the  *)
(* queries and every place where an answer may be cut short.               *)
(***************************************************************************)
EXTENDS Doh, SequenceLemmas, SequenceTheorems, FiniteSetTheorems, TLAPS

-----------------------------------------------------------------------------
(* The question: parseQuestionFormat makes the name of RFC 1035 from the     *)
(* text of the host                                                          *)

Plain(labels)  == [i \in 1 .. Len(labels) |-> IF i = 1 THEN labels[i] ELSE <<Dot>> \o labels[i]]
Dotted(labels) == [i \in 1 .. Len(labels) |-> <<Dot>> \o labels[i]]
Sized(labels)  == [i \in 1 .. Len(labels) |-> <<Len(labels[i])>> \o labels[i]]

\* A label with its dot or its length is one octet longer.
LEMMA LabelTypes ==
  ASSUME NEW labels \in Seq(Seq(Octet)), NEW i \in 1 .. Len(labels)
  PROVE  /\ labels[i] \in Seq(Nat) /\ <<Dot>> \o labels[i] \in Seq(Nat)
         /\ <<Len(labels[i])>> \o labels[i] \in Seq(Nat)
         /\ Len(<<Dot>> \o labels[i]) = Len(labels[i]) + 1
         /\ Len(<<Len(labels[i])>> \o labels[i]) = Len(labels[i]) + 1
<1>1. labels[i] \in Seq(Octet) /\ Octet \subseteq Nat
  BY DEF Octet
<1>2. labels[i] \in Seq(Nat)
  BY <1>1, SeqMonotonic
<1>3. Len(labels[i]) \in Nat /\ Dot \in Nat
  BY <1>1 DEF Dot
<1> QED
  BY <1>2, <1>3

\* The three forms of the labels are sequences of octets.
LEMMA NameTypes ==
  ASSUME NEW labels \in Seq(Seq(Octet))
  PROVE  /\ Plain(labels) \in Seq(Seq(Nat)) /\ Len(Plain(labels)) = Len(labels)
         /\ Dotted(labels) \in Seq(Seq(Nat)) /\ Len(Dotted(labels)) = Len(labels)
         /\ Sized(labels) \in Seq(Seq(Nat)) /\ Len(Sized(labels)) = Len(labels)
<1>1. Len(labels) \in Nat
  BY LenProperties
<1>2. ASSUME NEW i \in 1 .. Len(labels)
      PROVE  /\ Plain(labels)[i] \in Seq(Nat) /\ Dotted(labels)[i] \in Seq(Nat)
             /\ Sized(labels)[i] \in Seq(Nat)
  BY LabelTypes DEF Plain, Dotted, Sized
<1> QED
  BY <1>1, <1>2 DEF Plain, Dotted, Sized

\* A dot before two parts is a dot before the first of them.
LEMMA DotFirst ==
  ASSUME NEW u \in Seq(Nat), NEW x \in Seq(Nat)
  PROVE  <<Dot>> \o (u \o x) = (<<Dot>> \o u) \o x
<1> DEFINE N == Nat
           d == <<Dot>>
<1>1. d \in Seq(N) /\ u \in Seq(N) /\ x \in Seq(N)
  BY DEF Dot
<1> HIDE DEF N, d
<1> QED
  BY <1>1

\* A dot before the text is a dot before every label.
LEMMA DottedText ==
  ASSUME NEW labels \in Seq(Seq(Octet)), labels # <<>>
  PROVE  <<Dot>> \o Text(labels) = FlattenSeq(Dotted(labels))
<1> DEFINE n == Len(labels)
           T == Plain(labels)
           D == Dotted(labels)
           G == [i \in 1 .. n |-> <<Dot>> \o Joined(T, i)]
<1>1. n \in Nat \ {0} /\ T \in Seq(Seq(Nat)) /\ D \in Seq(Seq(Nat)) /\ Len(T) = n /\ Len(D) = n
  BY NameTypes
<1>2. T[1] = labels[1] /\ D[1] = <<Dot>> \o labels[1]
  BY <1>1 DEF Plain, Dotted
<1>3. \A i \in 2 .. n : T[i] = D[i]
  BY <1>1 DEF Plain, Dotted
<1> HIDE DEF T, D, n
<1>4. G[1] = D[1]
  <2>2. Len(T) > 0
    BY <1>1
  <2>3. Joined(T, 1) = T[1]
    BY <1>1, <2>2, JoinedFirst, Zenon
  <2>4. 1 \in 1 .. n
    BY <1>1
  <2> QED
    BY <1>2, <2>3, <2>4
<1>5. ASSUME NEW i \in 2 .. n
      PROVE  G[i] = G[i - 1] \o D[i]
  <2>1. i - 1 \in 0 .. Len(T) - 1 /\ (i - 1) + 1 = i /\ i \in 1 .. n /\ i - 1 \in 1 .. n
        /\ i - 1 \in 0 .. Len(T)
    BY <1>1
  <2>2. Joined(T, i) = Joined(T, i - 1) \o T[i]
    BY <1>1, <2>1, JoinedNext, Zenon
  <2> DEFINE u == Joined(T, i - 1)
             x == T[i]
  <2>3. u \in Seq(Nat)
    BY <1>1, <2>1, JoinedType, Zenon
  <2>4. x \in Seq(Nat)
    BY <1>1, <2>1
  <2>5. G[i] = <<Dot>> \o (u \o x) /\ G[i - 1] = <<Dot>> \o u /\ D[i] = x
    BY <1>3, <2>1, <2>2
  <2> HIDE DEF u, x, G
  <2>7. <<Dot>> \o (u \o x) = (<<Dot>> \o u) \o x
    BY <2>3, <2>4, DotFirst
  <2> QED
    BY <2>5, <2>7
<1>6. G[n] = <<Dot>> \o FlattenSeq(T)
  <2>1. Joined(T, n) = FlattenSeq(T) /\ n \in 1 .. n
    BY <1>1, JoinedEnds
  <2> QED
    BY <2>1
<1> HIDE DEF G
<1>7. FlattenSeq(D) = G[n]
  <2>1. Len(D) \in Nat \ {0} /\ \A i \in 2 .. Len(D) : G[i] = G[i - 1] \o D[i]
    BY <1>1, <1>5
  <2>2. FlattenSeq(D) = G[Len(D)]
    BY <1>4, <2>1, FlattenIs, Zenon
  <2> QED
    BY <1>1, <2>2
<1> QED
  BY <1>6, <1>7 DEF Text, Plain, T, D

\* The labels are as long with their dots as with their lengths.
LEMMA SameLengths ==
  ASSUME NEW labels \in Seq(Seq(Octet)), NEW k \in 0 .. Len(labels)
  PROVE  Len(Joined(Dotted(labels), k)) = Len(Joined(Sized(labels), k))
<1> DEFINE D == Dotted(labels)
           Z == Sized(labels)
           n == Len(labels)
           S == {m \in Nat : m <= n => Len(Joined(D, m)) = Len(Joined(Z, m))}
<1>1. n \in Nat /\ D \in Seq(Seq(Nat)) /\ Z \in Seq(Seq(Nat)) /\ Len(D) = n /\ Len(Z) = n
  BY NameTypes
<1>2. \A i \in 1 .. n : Len(D[i]) = Len(Z[i])
  BY LabelTypes DEF Dotted, Sized
<1> HIDE DEF D, Z, n
<1>3. 0 \in S
  <2>1. Joined(D, 0) = <<>> /\ Joined(Z, 0) = <<>>
    BY <1>1, JoinedEnds
  <2> QED
    BY <2>1
<1>4. ASSUME NEW m \in Nat, m \in S
      PROVE  m + 1 \in S
  <2> SUFFICES ASSUME m + 1 <= n
               PROVE  Len(Joined(D, m + 1)) = Len(Joined(Z, m + 1))
    OBVIOUS
  <2>1. m \in 0 .. Len(D) - 1 /\ m \in 0 .. Len(Z) - 1 /\ m <= n /\ m + 1 \in 1 .. n
    BY <1>1
  <2>2. Len(Joined(D, m + 1)) = Len(Joined(D, m)) + Len(D[m + 1])
    BY <1>1, <2>1, PartAt, Zenon
  <2>3. Len(Joined(Z, m + 1)) = Len(Joined(Z, m)) + Len(Z[m + 1])
    BY <1>1, <2>1, PartAt, Zenon
  <2>4. Len(Joined(D, m)) = Len(Joined(Z, m))
    BY <1>4, <2>1
  <2> QED
    BY <1>2, <2>1, <2>2, <2>3, <2>4, Zenon
<1> HIDE DEF S
<1>5. k \in Nat /\ k <= n
  BY DEF n
<1>6. k \in S
  <2>1. Nat \subseteq S
    BY <1>3, <1>4, Induction, Zenon
  <2> QED
    BY <1>5, <2>1, Zenon
<1> QED
  BY <1>5, <1>6 DEF S, D, Z

\* Where a label is in the text, after its dot, and in the name, after its length.
LEMMA LabelAt ==
  ASSUME NEW labels \in Seq(Seq(Octet)), IsName(labels), NEW k \in 0 .. Len(labels) - 1
  PROVE  LET text == FlattenSeq(Dotted(labels))
             name == FlattenSeq(Sized(labels))
             p == Len(Joined(Dotted(labels), k))
             l == labels[k + 1]
         IN  /\ p \in Nat /\ Len(l) \in Nat
             /\ text[p + 1] = Dot /\ name[p + 1] = Len(l)
             /\ \A j \in 1 .. Len(l) : /\ text[p + (1 + j)] = l[j] /\ l[j] # Dot
                                       /\ name[p + (1 + j)] = l[j]
             /\ p + (1 + Len(l)) <= Len(text)
             /\ p + (1 + Len(l)) < Len(text) => text[p + (1 + Len(l)) + 1] = Dot
<1> DEFINE D == Dotted(labels)
           Z == Sized(labels)
           n == Len(labels)
           text == FlattenSeq(D)
           name == FlattenSeq(Z)
           p == Len(Joined(D, k))
           l == labels[k + 1]
<1>1. n \in Nat /\ D \in Seq(Seq(Nat)) /\ Z \in Seq(Seq(Nat)) /\ Len(D) = n /\ Len(Z) = n
  BY NameTypes
<1>2. k \in 0 .. n - 1 /\ k + 1 \in 1 .. n /\ k \in 0 .. n
  OBVIOUS
<1>3. \A i \in 1 .. n : D[i] = <<Dot>> \o labels[i] /\ Z[i] = <<Len(labels[i])>> \o labels[i]
  BY DEF Dotted, Sized
<1>4. l \in Seq(Octet) /\ Len(l) \in Nat /\ \A j \in 1 .. Len(l) : l[j] # Dot
  <2>1. l \in Seq(Octet) /\ Len(l) \in Nat
    OBVIOUS
  <2>2. Dot \notin ToSet(l)
    BY <1>2 DEF IsName
  <2> QED
    BY <2>1, <2>2 DEF ToSet
<1>5. /\ D[k + 1] = <<Dot>> \o l /\ Z[k + 1] = <<Len(l)>> \o l
      /\ Len(D[k + 1]) = 1 + Len(l) /\ Len(Z[k + 1]) = 1 + Len(l)
  BY <1>2, <1>3, <1>4
<1>6. /\ D[k + 1][1] = Dot /\ Z[k + 1][1] = Len(l)
      /\ \A j \in 1 .. Len(l) : D[k + 1][1 + j] = l[j] /\ Z[k + 1][1 + j] = l[j]
  BY <1>4, <1>5
<1>7. p = Len(Joined(Z, k))
  BY <1>2, SameLengths
<1> HIDE DEF D, Z, n, l
<1>8. p \in Nat
  BY <1>1, <1>2, JoinedType, Zenon
<1>9. /\ Len(Joined(D, k + 1)) = p + Len(D[k + 1]) /\ p + Len(D[k + 1]) <= Len(text)
      /\ \A j \in 1 .. Len(D[k + 1]) : text[p + j] = D[k + 1][j]
  <2>1. k \in 0 .. Len(D) - 1
    BY <1>1, <1>2
  <2> QED
    BY <1>1, <2>1, PartAt, Zenon
<1>10. \A j \in 1 .. Len(Z[k + 1]) : name[p + j] = Z[k + 1][j]
  <2>1. k \in 0 .. Len(Z) - 1
    BY <1>1, <1>2
  <2> QED
    BY <1>1, <1>7, <2>1, PartAt, ZenonT(30)
<1>11. 1 \in 1 .. 1 + Len(l) /\ \A j \in 1 .. Len(l) : 1 + j \in 1 .. 1 + Len(l)
  BY <1>4
<1> HIDE DEF p, text, name
<1>12. text[p + 1] = Dot /\ name[p + 1] = Len(l)
  BY <1>5, <1>6, <1>9, <1>10, <1>11, Zenon
<1>13. \A j \in 1 .. Len(l) : text[p + (1 + j)] = l[j] /\ name[p + (1 + j)] = l[j]
  BY <1>5, <1>6, <1>9, <1>10, <1>11, Zenon
<1>14. p + (1 + Len(l)) < Len(text) => text[p + (1 + Len(l)) + 1] = Dot
  <2> DEFINE q == Len(Joined(D, k + 1))
  <2>1. q = p + (1 + Len(l))
    BY <1>5, <1>9
  <2>2. CASE k + 1 = n
    <3>1. q = Len(text)
      BY <1>1, <2>2, JoinedEnds DEF text
    <3>2. Len(text) \in Nat
      BY <1>1, FlattenType DEF text
    <3> QED
      BY <2>1, <3>1, <3>2
  <2>3. CASE k + 1 # n
    <3>1. k + 1 \in 0 .. Len(D) - 1 /\ (k + 1) + 1 \in 1 .. n
      BY <1>1, <1>2, <2>3
    <3>2. \A j \in 1 .. Len(D[(k + 1) + 1]) : text[q + j] = D[(k + 1) + 1][j]
      BY <1>1, <3>1, PartAt DEF text
    <3>3. D[(k + 1) + 1] = <<Dot>> \o labels[(k + 1) + 1]
      BY <1>3, <3>1
    <3>4. labels[(k + 1) + 1] \in Seq(Octet)
      BY <3>1 DEF n
    <3>5. D[(k + 1) + 1][1] = Dot /\ 1 \in 1 .. Len(D[(k + 1) + 1])
      BY <3>3, <3>4
    <3> HIDE DEF q
    <3>6. text[q + 1] = Dot
      BY <3>2, <3>5, Zenon
    <3> QED
      BY <2>1, <3>6
  <2> QED
    BY <2>2, <2>3
<1>15. p + (1 + Len(l)) <= Len(text)
  BY <1>5, <1>9
<1> QED
  BY <1>4, <1>8, <1>12, <1>13, <1>14, <1>15, Zenon DEF D, Z, l, p, text, name

\* A label is as long as the octets up to the next dot.
LEMMA LabelLengthIs ==
  ASSUME NEW text \in Seq(Nat), NEW p \in Nat \ {0}, NEW b \in Nat,
         p + b - 1 <= Len(text), \A j \in 1 .. b : text[p + j - 1] # Dot,
         p + b - 1 < Len(text) => text[p + b] = Dot
  PROVE  LabelLength(text, p) = b
<1> DEFINE T == {q \in p .. Len(text) : \A r \in p .. q : text[r] # Dot}
           e == p + b - 1
<1>1. e \in Int /\ p \in Int /\ Len(text) \in Nat
  OBVIOUS
<1>2. T = p .. e
  <2>1. ASSUME NEW q \in T
        PROVE  q \in p .. e
    <3> SUFFICES ASSUME ~(q <= e)
                 PROVE  FALSE
      BY <1>1
    <3>1. p + b \in p .. q /\ p + b - 1 < Len(text)
      BY <1>1
    <3> QED
      BY <3>1
  <2>2. ASSUME NEW q \in p .. e
        PROVE  q \in T
    <3>1. q \in p .. Len(text)
      BY <1>1
    <3>2. ASSUME NEW r \in p .. q
          PROVE  text[r] # Dot
      <4>1. r - p + 1 \in 1 .. b /\ p + (r - p + 1) - 1 = r
        BY <1>1
      <4> QED
        BY <4>1
    <3> QED
      BY <3>1, <3>2
  <2> QED
    BY <2>1, <2>2
<1>3. Cardinality(p .. e) = IF p > e THEN 0 ELSE e - p + 1
  BY <1>1, FS_Interval, Zenon
<1>4. (IF p > e THEN 0 ELSE e - p + 1) = b
  OBVIOUS
<1> QED
  BY <1>2, <1>3, <1>4 DEF LabelLength

\* The positions after the first of a label.
LEMMA AfterFirst ==
  ASSUME NEW b \in Nat, NEW q \in Nat, NEW j \in 1 .. b + 1, j # 1
  PROVE  j - 1 \in 1 .. b /\ q + j = q + (1 + (j - 1))
OBVIOUS

\* Where the text has a dot, the name on the wire has the length of the label.
LEMMA TextAsName ==
  ASSUME NEW labels \in Seq(Seq(Octet)), IsName(labels),
         NEW p \in 1 .. Len(FlattenSeq(Sized(labels)))
  PROVE  LET text == FlattenSeq(Dotted(labels))
         IN  FlattenSeq(Sized(labels))[p] =
               IF text[p] = Dot THEN LabelLength(text, p + 1) ELSE text[p]
<1> DEFINE D == Dotted(labels)
           Z == Sized(labels)
           text == FlattenSeq(D)
           name == FlattenSeq(Z)
<1>1. D \in Seq(Seq(Nat)) /\ Z \in Seq(Seq(Nat)) /\ Len(Z) = Len(labels)
  BY NameTypes
<1> PICK k \in 0 .. Len(Z) - 1 : \E j \in 1 .. Len(Z[k + 1]) : p = Len(Joined(Z, k)) + j
  BY <1>1, PartOf, Zenon
<1> PICK j \in 1 .. Len(Z[k + 1]) : p = Len(Joined(Z, k)) + j
  OBVIOUS
<1> DEFINE l == labels[k + 1]
           q == Len(Joined(D, k))
<1>2. k \in 0 .. Len(labels) - 1 /\ k \in 0 .. Len(labels) /\ k + 1 \in 1 .. Len(labels)
  BY <1>1
<1>3. p = q + j
  BY <1>2, SameLengths
<1>4. Len(Z[k + 1]) = Len(l) + 1
  BY <1>2, LabelTypes DEF Sized
<1>5. /\ q \in Nat /\ Len(l) \in Nat
      /\ text[q + 1] = Dot /\ name[q + 1] = Len(l)
      /\ \A i \in 1 .. Len(l) : /\ text[q + (1 + i)] = l[i] /\ l[i] # Dot
                                /\ name[q + (1 + i)] = l[i]
      /\ q + (1 + Len(l)) <= Len(text)
      /\ q + (1 + Len(l)) < Len(text) => text[q + (1 + Len(l)) + 1] = Dot
  BY <1>2, LabelAt
<1>6. text \in Seq(Nat)
  BY <1>1, FlattenType
<1>7. j \in 1 .. Len(l) + 1
  BY <1>4
<1> HIDE DEF D, Z, text, name, l, q
<1>8. CASE j = 1
  <2>1. LabelLength(text, q + 2) = Len(l)
    <3>1. /\ q + 2 \in Nat \ {0} /\ (q + 2) + Len(l) - 1 = q + (1 + Len(l))
          /\ (q + 2) + Len(l) = q + (1 + Len(l)) + 1
      BY <1>5
    <3>2. \A i \in 1 .. Len(l) : (q + 2) + i - 1 = q + (1 + i)
      BY <1>5
    <3>3. \A i \in 1 .. Len(l) : text[(q + 2) + i - 1] # Dot
      BY <1>5, <3>2
    <3>4. /\ (q + 2) + Len(l) - 1 <= Len(text)
          /\ (q + 2) + Len(l) - 1 < Len(text) => text[(q + 2) + Len(l)] = Dot
      BY <1>5, <3>1
    <3> QED
      BY <1>5, <1>6, <3>1, <3>3, <3>4, LabelLengthIs, Zenon
  <2>2. p = q + 1 /\ p + 1 = q + 2
    BY <1>3, <1>5, <1>8, SMTT(30)
  <2> QED
    BY <1>5, <2>1, <2>2 DEF text, name, D, Z
<1>9. CASE j # 1
  <2>1. j - 1 \in 1 .. Len(l) /\ p = q + (1 + (j - 1))
    BY <1>3, <1>5, <1>7, <1>9, AfterFirst, Zenon
  <2>2. text[p] = l[j - 1] /\ l[j - 1] # Dot /\ name[p] = l[j - 1]
    BY <1>5, <2>1, Zenon
  <2> QED
    BY <2>2 DEF text, name, D, Z
<1> QED
  BY <1>8, <1>9

\* parseQuestionFormat writes the name as RFC 1035 has it.
LEMMA QuestionIsWireName ==
  ASSUME NEW labels \in Seq(Seq(Octet)), IsName(labels)
  PROVE  Question(Text(labels)) = WireName(labels)
<1> DEFINE D == Dotted(labels)
           Z == Sized(labels)
           text == FlattenSeq(D)
           name == FlattenSeq(Z)
           Marked == [p \in 1 .. Len(text) |->
                        IF text[p] = Dot THEN LabelLength(text, p + 1) ELSE text[p]]
<1>1. D \in Seq(Seq(Nat)) /\ Z \in Seq(Seq(Nat)) /\ Len(D) = Len(labels) /\ Len(Z) = Len(labels)
  BY NameTypes
<1>2. Len(text) = Len(name)
  <2>1. Len(labels) \in 0 .. Len(labels)
    OBVIOUS
  <2> QED
    BY <1>1, <2>1, SameLengths, JoinedEnds
<1>3. name \in Seq(Nat)
  BY <1>1, FlattenType
<1>4. \A p \in 1 .. Len(name) :
        name[p] = IF text[p] = Dot THEN LabelLength(text, p + 1) ELSE text[p]
  BY TextAsName
<1> HIDE DEF text, name, D, Z
<1>5. name = [p \in 1 .. Len(name) |-> name[p]]
  BY <1>3
<1>6. Marked = name
  BY <1>2, <1>4, <1>5
<1>7. <<Dot>> \o Text(labels) = text
  <2>1. labels # <<>>
    BY DEF IsName
  <2> QED
    BY <2>1, DottedText DEF text, D
<1>8. Question(Text(labels)) = Marked \o <<0>>
  <2>1. Question(Text(labels)) =
          LET dotted == <<Dot>> \o Text(labels)
          IN  [p \in 1 .. Len(dotted) |->
                 IF dotted[p] = Dot THEN LabelLength(dotted, p + 1) ELSE dotted[p]]
                \o <<0>>
    BY Zenon DEF Question
  <2> QED
    BY <1>7, <2>1, Zenon
<1>9. WireName(labels) = name \o <<0>>
  BY DEF WireName, name, Z, Sized
<1> QED
  BY <1>6, <1>8, <1>9, Zenon

-----------------------------------------------------------------------------
(* What Hosts and Zones hold *)

\* What a request asks for.
LEMMA HostTypes ==
  ASSUME NEW h \in Hosts
  PROVE  /\ h.literal \in {<<>>} \cup [1 .. V4 -> Octet] \cup [1 .. V6 -> Octet]
         /\ h.labels \in Seq(Seq(Octet)) /\ h.port \in Nat
         /\ h.literal = <<>> => IsName(h.labels)
<1>1. h \in Host
  BY DohAssumption DEF DohAssumption
<1>2. h.literal = <<>> => IsName(h.labels)
  BY DohAssumption DEF DohAssumption
<1> QED
  BY <1>1, <1>2 DEF Host

\* What the DoH server has for a name.
LEMMA ZoneTypes ==
  ASSUME NEW z \in Zones, NEW t \in {A, AAAA}
  PROVE  /\ z[t].rcode \in 0 .. 15
         /\ Len(z[t].records) \in Nat /\ IsWord(Len(z[t].records))
         /\ DOMAIN z[t].records = 1 .. Len(z[t].records)
         /\ \A k \in 1 .. Len(z[t].records) :
              LET r == z[t].records[k]
              IN  /\ r.name \in Seq(Octet) /\ r.type \in Nat /\ r.data \in Seq(Octet)
                  /\ IsRecord(r, t)
<1> DEFINE R == [name: Seq(Octet), type: Nat, data: Seq(Octet)]
           P == [rcode: 0 .. 15, records: Seq(R)]
<1>1. z \in Zone /\ InZone(z)
  BY DohAssumption DEF DohAssumption
<1>2. z[t] \in P
  BY <1>1 DEF Zone
<1>3. z[t].rcode \in 0 .. 15 /\ z[t].records \in Seq(R)
  BY <1>2
<1> DEFINE records == z[t].records
<1>4. /\ Len(records) \in Nat /\ DOMAIN records = 1 .. Len(records)
      /\ \A k \in 1 .. Len(records) : records[k] \in R
  <2> HIDE DEF R
  <2> QED
    BY <1>3
<1>5. IsWord(Len(records)) /\ \A k \in DOMAIN records : IsRecord(records[k], t)
  <2>1. \A u \in {A, AAAA} :
          /\ IsWord(Len(z[u].records))
          /\ \A k \in DOMAIN z[u].records : IsRecord(z[u].records[k], u)
    BY <1>1 DEF InZone
  <2> QED
    BY <2>1
<1> HIDE DEF records
<1>6. ASSUME NEW k \in 1 .. Len(records)
      PROVE  LET r == records[k]
             IN  r.name \in Seq(Octet) /\ r.type \in Nat /\ r.data \in Seq(Octet)
  BY <1>4
<1> QED
  BY <1>3, <1>4, <1>5, <1>6 DEF records

\* The two octets of a number.
IsPair(w, k) ==
  /\ w \in Seq(Octet) /\ Len(w) = 2
  /\ w[1] = k \div 256 /\ w[2] = k % 256
  /\ 256 * w[1] + w[2] = k

\* A number of two octets is written as its high and its low octet.
LEMMA WordType ==
  ASSUME NEW k \in Nat, IsWord(k)
  PROVE  IsPair(Word(k), k)
<1>1. k \div 256 \in 0 .. 255 /\ k % 256 \in 0 .. 255 /\ 256 * (k \div 256) + (k % 256) = k
  BY DEF IsWord
<1> HIDE DEF Octet
<1> DEFINE a == k \div 256
           b == k % 256
<1>2. a \in Octet /\ b \in Octet
  BY <1>1 DEF Octet
<1> HIDE DEF a, b
<1>3. <<a, b>> \in Seq(Octet) /\ Len(<<a, b>>) = 2 /\ <<a, b>>[1] = a /\ <<a, b>>[2] = b
  BY <1>2
<1> QED
  BY <1>1, <1>2, <1>3 DEF Word, IsPair, a, b

-----------------------------------------------------------------------------
(* The query, and what the DoH server makes of it *)

\* A name, a type and the class of the Internet.
QuestionOf(name, t) == name \o Word(t) \o Word(1)

\* A question is its name and four octets, of which the second is the type.
LEMMA QuestionType ==
  ASSUME NEW B, Octet \subseteq B, NEW name \in Seq(B), NEW t \in {A, AAAA}
  PROVE  /\ QuestionOf(name, t) \in Seq(B)
         /\ Len(QuestionOf(name, t)) = Len(name) + 4
         /\ QuestionOf(name, t)[Len(name) + 2] = t
<1>1. Word(t) = <<0, t>> /\ Word(1) = <<0, 1>> /\ {0, 1, t} \subseteq B
  <2>1. t = 1 \/ t = 28
    BY DEF A, AAAA
  <2>2. Word(1) = <<0, 1>> /\ Word(28) = <<0, 28>>
    BY DEF Word
  <2>3. 0 \in Octet /\ 1 \in Octet /\ 28 \in Octet
    BY DEF Octet
  <2> QED
    BY <2>1, <2>2, <2>3
<1>2. <<0, t>> \in Seq(B) /\ <<0, 1>> \in Seq(B)
  BY <1>1
<1>3. /\ name \o <<0, t>> \in Seq(B) /\ Len(name \o <<0, t>>) = Len(name) + 2
      /\ (name \o <<0, t>>)[Len(name) + 2] = t
  BY <1>2
<1> DEFINE u == name \o <<0, t>>
<1> HIDE DEF u
<1>4. u \in Seq(B) /\ Len(u) = Len(name) + 2 /\ u[Len(name) + 2] = t
  BY <1>3 DEF u
<1>5. Len(name) \in Nat
  OBVIOUS
<1>6. /\ u \o <<0, 1>> \in Seq(B) /\ Len(u \o <<0, 1>>) = Len(u) + 2
      /\ \A i \in 1 .. Len(u) : (u \o <<0, 1>>)[i] = u[i]
  BY <1>2, <1>4
<1>7. QuestionOf(name, t) = u \o <<0, 1>>
  BY <1>1 DEF QuestionOf, u
<1> QED
  BY <1>4, <1>5, <1>6, <1>7

\* The order in which four parts are joined does not matter.
LEMMA FourJoined ==
  ASSUME NEW B, NEW a \in Seq(B), NEW b \in Seq(B), NEW c \in Seq(B), NEW d \in Seq(B)
  PROVE  ((a \o b) \o c) \o d = a \o ((b \o c) \o d)
OBVIOUS

QueryHeader == <<0, 0, 3, 0, 0, 1, 0, 0, 0, 0, 0, 0>>

QueryOf(name, t) ==
  <<Len(QueryHeader \o QuestionOf(name, t))>> \o (QueryHeader \o QuestionOf(name, t))

\* What follows the first k elements.
LEMMA AfterFirsts ==
  ASSUME NEW B, NEW h \in Seq(B), NEW u \in Seq(B), NEW k \in Nat, Len(h) = k
  PROVE  /\ h \o u \in Seq(B) /\ Len(h \o u) = k + Len(u)
         /\ \A i \in 1 .. Len(u) : (h \o u)[k + i] = u[i]
         /\ \A i \in 1 .. k : (h \o u)[i] = h[i]
<1>1. /\ h \o u \in Seq(B) /\ Len(h \o u) = Len(h) + Len(u)
      /\ \A i \in 1 .. Len(h) + Len(u) : (h \o u)[i] = IF i <= Len(h) THEN h[i] ELSE u[i - Len(h)]
  BY ConcatProperties
<1>2. Len(u) \in Nat
  BY LenProperties
<1>3. ASSUME NEW i \in 1 .. Len(u)
      PROVE  (h \o u)[k + i] = u[i]
  <2>1. k + i \in 1 .. Len(h) + Len(u) /\ ~(k + i <= Len(h)) /\ (k + i) - Len(h) = i
    BY <1>2
  <2> QED
    BY <1>1, <2>1
<1>4. ASSUME NEW i \in 1 .. k
      PROVE  (h \o u)[i] = h[i]
  <2>1. i \in 1 .. Len(h) + Len(u) /\ i <= Len(h)
    BY <1>2
  <2> QED
    BY <1>1, <2>1
<1> QED
  BY <1>1, <1>3, <1>4

\* What follows the first 13 octets.
LEMMA RestOf ==
  ASSUME NEW B, NEW q \in Seq(B), NEW u \in Seq(B), Len(q) = Len(u) + 13,
         \A i \in 1 .. Len(u) : q[13 + i] = u[i]
  PROVE  SubSeq(q, 14, Len(q)) = u
<1>1. Len(u) \in Nat /\ \A i \in 14 .. Len(q) : q[i] \in B
  OBVIOUS
<1>2. 14 \in Int /\ Len(q) \in Int /\ Len(q) - 14 + 1 = Len(u)
      /\ (IF 14 <= Len(q) THEN Len(q) - 14 + 1 ELSE 0) = Len(u)
  BY <1>1
<1>3. /\ SubSeq(q, 14, Len(q)) \in Seq(B) /\ Len(SubSeq(q, 14, Len(q))) = Len(u)
      /\ \A i \in 1 .. Len(q) - 14 + 1 : SubSeq(q, 14, Len(q))[i] = q[14 + i - 1]
  BY <1>1, <1>2, SubSeqProperties
<1>4. ASSUME NEW i \in 1 .. Len(u)
      PROVE  SubSeq(q, 14, Len(q))[i] = u[i]
  <2>1. 14 + i - 1 = 13 + i /\ i \in 1 .. Len(q) - 14 + 1
    BY <1>1, <1>2
  <2> QED
    BY <1>3, <2>1
<1> QED
  BY <1>3, <1>4, SeqEqual

\* Twelve elements and one more, and then u.
LEMMA AfterHeader ==
  ASSUME NEW B, NEW u \in Seq(B), NEW h \in Seq(B), Len(h) = 12, NEW e \in B
  PROVE  LET q == <<e>> \o (h \o u)
         IN  q \in Seq(B) /\ Len(q) = Len(u) + 13 /\ SubSeq(q, 14, Len(q)) = u
<1>1. <<e>> \o (h \o u) = (<<e>> \o h) \o u /\ <<e>> \o h \in Seq(B) /\ Len(<<e>> \o h) = 13
  <2>1. <<e>> \in Seq(B) /\ Len(<<e>>) = 1
    OBVIOUS
  <2>2. <<e>> \o (h \o u) = (<<e>> \o h) \o u
    BY <2>1, ConcatAssociative
  <2>3. <<e>> \o h \in Seq(B) /\ Len(<<e>> \o h) = 13
    <3>1. <<e>> \o h \in Seq(B) /\ Len(<<e>> \o h) = Len(<<e>>) + Len(h)
      BY <2>1, ConcatProperties, Zenon
    <3>2. Len(<<e>>) + Len(h) = 13
      BY <2>1
    <3> QED
      BY <3>1, <3>2, Zenon
  <2> QED
    BY <2>2, <2>3
<1>2. /\ (<<e>> \o h) \o u \in Seq(B) /\ Len((<<e>> \o h) \o u) = 13 + Len(u)
      /\ \A i \in 1 .. Len(u) : ((<<e>> \o h) \o u)[13 + i] = u[i]
  BY <1>1, AfterFirsts
<1>3. 13 + Len(u) = Len(u) + 13
  OBVIOUS
<1> QED
  BY <1>1, <1>2, <1>3, RestOf

\* makeDNSStructure writes the header, then the question.
LEMMA HeaderFirst ==
  ASSUME NEW name \in Seq(Nat), NEW t \in {A, AAAA}
  PROVE  ((QueryHeader \o name) \o Word(t)) \o Word(1) = QueryHeader \o QuestionOf(name, t)
<1> DEFINE v == <<0, t>>
           w == <<0, 1>>
<1>1. Word(t) = v /\ Word(1) = w /\ t \in Nat
  <2>1. t = 1 \/ t = 28
    BY DEF A, AAAA
  <2>2. Word(1) = <<0, 1>> /\ Word(28) = <<0, 28>>
    BY DEF Word
  <2> QED
    BY <2>1, <2>2
<1>2. QueryHeader \in Seq(Nat)
  BY DEF QueryHeader
<1>3. v \in Seq(Nat) /\ w \in Seq(Nat)
  BY <1>1
<1>4. ((QueryHeader \o name) \o v) \o w = QueryHeader \o ((name \o v) \o w)
  <2> DEFINE N == Nat
  <2>1. QueryHeader \in Seq(N) /\ name \in Seq(N) /\ v \in Seq(N) /\ w \in Seq(N)
    BY <1>2, <1>3
  <2> HIDE DEF N, v, w
  <2> QED
    BY <2>1, SMTT(30)
<1> QED
  BY <1>1, <1>4, Zenon DEF QuestionOf

\* The query is as long as its parts, and the question is at its end.
LEMMA QueryOfType ==
  ASSUME NEW name \in Seq(Nat), NEW t \in {A, AAAA}
  PROVE  /\ QueryOf(name, t) \in Seq(Nat) /\ Len(QueryOf(name, t)) = Len(name) + 17
         /\ SubSeq(QueryOf(name, t), 14, Len(QueryOf(name, t))) = QuestionOf(name, t)
<1> DEFINE u == QuestionOf(name, t)
           e == Len(QueryHeader \o u)
<1>1. u \in Seq(Nat) /\ Len(u) = Len(name) + 4 /\ Len(u) \in Nat /\ Len(name) \in Nat
  <2>1. Octet \subseteq Nat
    BY DEF Octet
  <2>2. u \in Seq(Nat) /\ Len(u) = Len(name) + 4
    BY <2>1, QuestionType, Zenon
  <2> HIDE DEF u
  <2> QED
    BY <2>2
<1> HIDE DEF u
<1>2. QueryHeader \in Seq(Nat) /\ Len(QueryHeader) = 12
  BY DEF QueryHeader
<1>3. e \in Nat
  BY <1>1, <1>2
<1>5. QueryOf(name, t) = <<e>> \o (QueryHeader \o u)
  BY DEF QueryOf, u
<1> HIDE DEF e
<1>4. LET q == <<e>> \o (QueryHeader \o u)
      IN  q \in Seq(Nat) /\ Len(q) = Len(u) + 13 /\ SubSeq(q, 14, Len(q)) = u
  BY <1>1, <1>2, <1>3, AfterHeader, ZenonT(30)
<1>6. Len(u) + 13 = Len(name) + 17
  BY <1>1
<1> QED
  BY <1>4, <1>5, <1>6, Zenon DEF u

\* A name on the wire is octets.
LEMMA WireNameType ==
  ASSUME NEW labels \in Seq(Seq(Octet)), IsName(labels)
  PROVE  WireName(labels) \in Seq(Octet)
<1> DEFINE Z == Sized(labels)
<1>1. Len(labels) \in Nat
  OBVIOUS
<1>2. ASSUME NEW i \in 1 .. Len(labels)
      PROVE  Z[i] \in Seq(Octet)
  <2>1. Len(labels[i]) \in Octet /\ labels[i] \in Seq(Octet)
    BY SMTT(30) DEF IsName, Octet
  <2> HIDE DEF Octet
  <2>2. <<Len(labels[i])>> \o labels[i] \in Seq(Octet)
    BY <2>1
  <2> QED
    BY <2>2 DEF Sized
<1>3. Z \in Seq(Seq(Octet))
  <2>1. Z = [i \in 1 .. Len(labels) |-> Z[i]]
    BY DEF Sized
  <2> HIDE DEF Z, Octet
  <2> QED
    BY <1>1, <1>2, <2>1
<1>4. FlattenSeq(Z) \in Seq(Octet)
  BY <1>3, FlattenType
<1>5. WireName(labels) = FlattenSeq(Z) \o <<0>>
  BY DEF WireName, Sized
<1>6. 0 \in Octet
  BY DEF Octet
<1> HIDE DEF Z, Octet
<1> QED
  BY <1>4, <1>5, <1>6

\* The type that is asked for, and the question about it.
Asked == QType(familyFlag)
Name  == WireName(host.labels)

\* The type that is asked for follows familyFlag.
LEMMA AskedType ==
  ASSUME TypeOK
  PROVE  Asked \in {A, AAAA} /\ (familyFlag = 0 => Asked = A) /\ (familyFlag = 1 => Asked = AAAA)
BY DEF TypeOK, Asked, QType

\* The query that prepareQuery makes for the host.
LEMMA QueryShape ==
  ASSUME TypeOK, host.literal = <<>>
  PROVE  /\ Name \in Seq(Octet) /\ Name \in Seq(Nat)
         /\ Query = QueryOf(Name, Asked)
         /\ Query \in Seq(Nat) /\ Len(Query) = Len(Name) + 17
         /\ SubSeq(Query, 14, Len(Query)) = QuestionOf(Name, Asked)
         /\ QuerySize = Len(Name) + 4
<1>1. host \in Hosts
  BY DEF TypeOK
<1>2. host.labels \in Seq(Seq(Octet)) /\ IsName(host.labels)
  BY <1>1, HostTypes
<1>3. Name \in Seq(Octet)
  BY <1>2, WireNameType DEF Name
<1>4. Name \in Seq(Nat)
  <2>1. Octet \subseteq Nat
    BY DEF Octet
  <2> QED
    BY <1>3, <2>1, SeqMonotonic, Zenon
<1>5. Question(Text(host.labels)) = Name
  BY <1>2, QuestionIsWireName DEF Name
<1>6. Asked \in {A, AAAA}
  BY AskedType
<1>7. DNSStructure = QueryHeader \o QuestionOf(Name, Asked)
  <2>1. DNSStructure = ((QueryHeader \o Name) \o Word(Asked)) \o Word(1)
    BY <1>5, Zenon DEF DNSStructure, QueryHeader, Asked
  <2> QED
    BY <1>4, <1>6, <2>1, HeaderFirst, Zenon
<1>8. Query = QueryOf(Name, Asked)
  BY <1>7, Zenon DEF Query, QueryOf
<1>9. QuerySize = Len(Name) + 4
  BY <1>5, Zenon DEF QuerySize
<1> QED
  BY <1>3, <1>4, <1>6, <1>8, <1>9, QueryOfType, Zenon


-----------------------------------------------------------------------------
(* What is read of a message that may be cut short *)

\* Octets are numbers below 256.
LEMMA OctetIs == Octet \subseteq Nat /\ \A x \in Octet : x \in Nat /\ x < 256 /\ x >= 0
BY DEF Octet

\* What is read at a position of the message, or after its end.
LEMMA AtIs ==
  ASSUME NEW m \in Seq(Octet), NEW i \in Nat
  PROVE  /\ At(m, i) \in Octet
         /\ i < Len(m) => At(m, i) = m[i + 1]
         /\ i >= Len(m) => At(m, i) = 0
<1>1. Len(m) \in Nat /\ 0 \in Octet
  BY DEF Octet
<1>2. i < Len(m) => m[i + 1] \in Octet
  <2> HIDE DEF Octet
  <2> QED
    BY <1>1
<1> HIDE DEF Octet
<1> QED
  BY <1>1, <1>2 DEF At

\* What is read of two octets, of which the second, or both, may be missing.
IsWordAt(m, i, k) ==
  /\ k \in Nat
  /\ i + 1 < Len(m) => k = 256 * m[i + 1] + m[i + 2]
  /\ i + 1 = Len(m) => k = 256 * m[i + 1]
  /\ i >= Len(m) => k = 0

\* What ntohs reads at a position, of which one octet or both may be missing.
LEMMA WordAtIs ==
  ASSUME NEW m \in Seq(Octet), NEW i \in Nat
  PROVE  IsWordAt(m, i, WordAt(m, i))
<1>1. At(m, i) \in Nat /\ At(m, i + 1) \in Nat
  <2>1. i + 1 \in Nat
    OBVIOUS
  <2>2. At(m, i) \in Octet /\ At(m, i + 1) \in Octet
    BY <2>1, AtIs, Zenon
  <2> QED
    BY <2>2, OctetIs, Zenon
<1>2. Len(m) \in Nat /\ i + 1 \in Nat /\ (i + 1) + 1 = i + 2
  BY LenProperties
<1>3. i < Len(m) => At(m, i) = m[i + 1]
  BY AtIs, Zenon
<1>4. i >= Len(m) => At(m, i) = 0
  BY AtIs, Zenon
<1>5. i + 1 < Len(m) => At(m, i + 1) = m[i + 2]
  BY <1>2, AtIs, Zenon
<1>6. i + 1 >= Len(m) => At(m, i + 1) = 0
  BY <1>2, AtIs, Zenon
<1>7. WordAt(m, i) = 256 * At(m, i) + At(m, i + 1)
  BY Zenon DEF WordAt
<1> DEFINE a == At(m, i)
           b == At(m, i + 1)
           w == WordAt(m, i)
<1> HIDE DEF a, b, w
<1>8. a \in Nat /\ b \in Nat /\ w = 256 * a + b
  BY <1>1, <1>7 DEF a, b, w
<1>9. w \in Nat
  BY <1>8
<1>10. ASSUME i + 1 < Len(m)
       PROVE  w = 256 * m[i + 1] + m[i + 2]
  <2>1. i < Len(m)
    BY <1>2, <1>10
  <2>2. a = m[i + 1] /\ b = m[i + 2]
    BY <1>3, <1>5, <1>10, <2>1 DEF a, b
  <2> QED
    BY <1>8, <2>2
<1>11. ASSUME i + 1 = Len(m)
       PROVE  w = 256 * m[i + 1]
  <2>1. i < Len(m) /\ i + 1 >= Len(m)
    BY <1>2, <1>11
  <2>2. a = m[i + 1] /\ b = 0
    BY <1>3, <1>6, <2>1 DEF a, b
  <2>3. 256 * a + 0 = 256 * a
    BY <1>8
  <2> QED
    BY <1>8, <2>2, <2>3
<1>12. ASSUME i >= Len(m)
       PROVE  w = 0
  <2>1. i + 1 >= Len(m)
    BY <1>2, <1>12
  <2>2. a = 0 /\ b = 0
    BY <1>4, <1>6, <1>12, <2>1 DEF a, b
  <2> QED
    BY <1>8, <2>2
<1> QED
  BY <1>9, <1>10, <1>11, <1>12 DEF IsWordAt, w

\* After the end of a message there are zeros, which are a record of no name and
\* no data.
LEMMA NothingLeft ==
  ASSUME NEW m \in Seq(Octet), NEW i \in Nat, i >= Len(m)
  PROVE  /\ NameLength(m, i) = 0
         /\ WordAt(m, i) = 0 /\ WordAt(m, i + 8) = 0
<1>1. At(m, i) = 0
  BY AtIs
<1>2. WordAt(m, i) = 0 /\ WordAt(m, i + 8) = 0
  <2>1. i + 8 \in Nat /\ i + 8 >= Len(m)
    BY LenProperties
  <2>2. IsWordAt(m, i, WordAt(m, i)) /\ IsWordAt(m, i + 8, WordAt(m, i + 8))
    BY <2>1, WordAtIs, Zenon
  <2> QED
    BY <2>1, <2>2, Zenon DEF IsWordAt
<1>3. NameLength(m, i) = 0
  BY <1>1 DEF NameLength
<1> QED
  BY <1>2, <1>3

-----------------------------------------------------------------------------
(* A record, and what is read of it when the message has its first octets *)

\* x is h and u.
IsJoin(B, x, h, u) ==
  /\ x \in Seq(B) /\ Len(x) = Len(h) + Len(u)
  /\ Len(h) \in Nat /\ Len(u) \in Nat
  /\ \A i \in 1 .. Len(h) : x[i] = h[i]
  /\ \A i \in 1 .. Len(u) : x[Len(h) + i] = u[i]

\* The parts of a concatenation are where they should be.
LEMMA BothParts ==
  ASSUME NEW B, NEW h \in Seq(B), NEW u \in Seq(B)
  PROVE  IsJoin(B, h \o u, h, u)
<1> DEFINE k == Len(h)
<1>1. k \in Nat /\ Len(u) \in Nat
  BY LenProperties
<1>2. /\ h \o u \in Seq(B) /\ Len(h \o u) = k + Len(u)
      /\ \A i \in 1 .. Len(u) : (h \o u)[k + i] = u[i]
      /\ \A i \in 1 .. k : (h \o u)[i] = h[i]
  BY <1>1, AfterFirsts
<1> QED
  BY <1>1, <1>2, Zenon DEF IsJoin

\* A name o, two octets w, two and four of no interest, two octets l, and d.
IsEncoded(B, e, o, w, l, d) ==
  /\ e \in Seq(B) /\ Len(e) = Len(o) + 10 + Len(d) /\ Len(o) \in Nat /\ Len(d) \in Nat
  /\ \A j \in 1 .. Len(o) : e[j] = o[j]
  /\ e[Len(o) + 1] = w[1] /\ e[Len(o) + 2] = w[2]
  /\ e[Len(o) + 9] = l[1] /\ e[Len(o) + 10] = l[2]
  /\ \A j \in 1 .. Len(d) : e[Len(o) + 10 + j] = d[j]

\* The fields of six parts that are joined.
LEMMA FieldsAt ==
  ASSUME NEW B, NEW o \in Seq(B), NEW w \in Seq(B), NEW c \in Seq(B), NEW s \in Seq(B),
         NEW l \in Seq(B), NEW d \in Seq(B),
         Len(w) = 2, Len(c) = 2, Len(s) = 4, Len(l) = 2
  PROVE  IsEncoded(B, ((((o \o w) \o c) \o s) \o l) \o d, o, w, l, d)
<1> DEFINE n == Len(o)
           u1 == o \o w
           u2 == u1 \o c
           u3 == u2 \o s
           u4 == u3 \o l
           e == u4 \o d
<1> HIDE DEF n, u1, u2, u3, u4, e
<1>1. IsJoin(B, u1, o, w)
  BY BothParts, Zenon DEF u1
<1>2. IsJoin(B, u2, u1, c)
  <2>1. u1 \in Seq(B)
    BY <1>1 DEF IsJoin
  <2> QED
    BY <2>1, BothParts, Zenon DEF u2
<1>3. IsJoin(B, u3, u2, s)
  <2>1. u2 \in Seq(B)
    BY <1>2 DEF IsJoin
  <2> QED
    BY <2>1, BothParts, Zenon DEF u3
<1>4. IsJoin(B, u4, u3, l)
  <2>1. u3 \in Seq(B)
    BY <1>3 DEF IsJoin
  <2> QED
    BY <2>1, BothParts, Zenon DEF u4
<1>5. IsJoin(B, e, u4, d)
  <2>1. u4 \in Seq(B)
    BY <1>4 DEF IsJoin
  <2> QED
    BY <2>1, BothParts, Zenon DEF e
<1>6. /\ Len(u1) = n + 2 /\ Len(u2) = n + 4 /\ Len(u3) = n + 8 /\ Len(u4) = n + 10
      /\ n \in Nat /\ Len(d) \in Nat
  BY <1>1, <1>2, <1>3, <1>4, <1>5 DEF IsJoin, n
<1>7. e \in Seq(B) /\ Len(e) = n + 10 + Len(d)
  BY <1>5, <1>6 DEF IsJoin
<1>8. ASSUME NEW i \in 1 .. n + 2
      PROVE  e[i] = u1[i]
  <2>1. i \in 1 .. Len(u1) /\ i \in 1 .. Len(u2) /\ i \in 1 .. Len(u3) /\ i \in 1 .. Len(u4)
    BY <1>6
  <2>2. e[i] = u4[i]
    BY <1>5, <2>1 DEF IsJoin
  <2>3. u4[i] = u3[i]
    BY <1>4, <2>1 DEF IsJoin
  <2>4. u3[i] = u2[i]
    BY <1>3, <2>1 DEF IsJoin
  <2>5. u2[i] = u1[i]
    BY <1>2, <2>1 DEF IsJoin
  <2> QED
    BY <2>2, <2>3, <2>4, <2>5, Zenon
<1>9. e[n + 9] = l[1] /\ e[n + 10] = l[2]
  <2>1. n + 9 \in 1 .. Len(u4) /\ n + 10 \in 1 .. Len(u4)
        /\ Len(u3) + 1 = n + 9 /\ Len(u3) + 2 = n + 10
    BY <1>6
  <2>2. u4[Len(u3) + 1] = l[1] /\ u4[Len(u3) + 2] = l[2]
    BY <1>4 DEF IsJoin
  <2>3. e[n + 9] = u4[n + 9] /\ e[n + 10] = u4[n + 10]
    BY <1>5, <2>1 DEF IsJoin
  <2> QED
    BY <2>1, <2>2, <2>3
<1>10. e[n + 1] = w[1] /\ e[n + 2] = w[2]
  <2>1. n + 1 \in 1 .. n + 2 /\ n + 2 \in 1 .. n + 2
    BY <1>6
  <2>2. u1[n + 1] = w[1] /\ u1[n + 2] = w[2]
    BY <1>1 DEF IsJoin, n
  <2> QED
    BY <1>8, <2>1, <2>2, Zenon
<1>11. ASSUME NEW j \in 1 .. n
       PROVE  e[j] = o[j]
  <2>1. j \in 1 .. n + 2
    BY <1>6
  <2>2. u1[j] = o[j]
    BY <1>1 DEF IsJoin, n
  <2> QED
    BY <1>8, <2>1, <2>2, Zenon
<1>12. \A j \in 1 .. Len(d) : e[n + 10 + j] = d[j]
  BY <1>5, <1>6 DEF IsJoin
<1> QED
  BY <1>6, <1>7, <1>9, <1>10, <1>11, <1>12, Zenon DEF IsEncoded, n, u1, u2, u3, u4, e

\* The fields of a record.
LEMMA EncodedIs ==
  ASSUME NEW r, r.name \in Seq(Octet), r.type \in Nat, r.data \in Seq(Octet),
         IsWord(r.type), IsWord(Len(r.data))
  PROVE  IsEncoded(Octet, Encoded(r), r.name, Word(r.type), Word(Len(r.data)), r.data)
<1>1. Len(r.data) \in Nat
  BY LenProperties
<1>2. Word(r.type) \in Seq(Octet) /\ Len(Word(r.type)) = 2
  BY WordType, Zenon DEF IsPair
<1>3. Word(Len(r.data)) \in Seq(Octet) /\ Len(Word(Len(r.data))) = 2
  BY <1>1, WordType, Zenon DEF IsPair
<1>4. Word(1) \in Seq(Octet) /\ Len(Word(1)) = 2
  <2>1. 1 \in Nat /\ IsWord(1)
    BY DEF IsWord
  <2> QED
    BY <2>1, WordType, Zenon DEF IsPair
<1> DEFINE four == <<0, 0, 0, 60>>
<1>5. four \in Seq(Octet) /\ Len(four) = 4
  BY DEF Octet
<1>6. Encoded(r) = ((((r.name \o Word(r.type)) \o Word(1)) \o four)
                      \o Word(Len(r.data))) \o r.data
  BY DEF Encoded
<1> HIDE DEF four
<1>7. IsEncoded(Octet, ((((r.name \o Word(r.type)) \o Word(1)) \o four)
                          \o Word(Len(r.data))) \o r.data,
                r.name, Word(r.type), Word(Len(r.data)), r.data)
  BY <1>2, <1>3, <1>4, <1>5, FieldsAt, Zenon
<1> QED
  BY <1>6, <1>7, Zenon

\* From position p on, m is e as far as m goes.
Holds(m, p, e) ==
  /\ p \in Nat /\ p <= Len(m)
  /\ \A j \in 1 .. Len(e) : p + j <= Len(m) => m[p + j] = e[j]

\* The octets before the zero that ends a name.
LEMMA CountIs ==
  ASSUME NEW m \in Seq(Octet), NEW i \in Nat, NEW b \in Nat, i + b <= Len(m),
         \A k \in Nat : k < b => At(m, i + k) # 0, At(m, i + b) = 0
  PROVE  Cardinality({j \in i .. Len(m) : \A k \in i .. j : At(m, k) # 0}) = b
<1> DEFINE T == {j \in i .. Len(m) : \A k \in i .. j : At(m, k) # 0}
           e == i + b - 1
<1>1. Len(m) \in Nat /\ e \in Int /\ i \in Int
  BY LenProperties
<1>2. T = i .. e
  <2>1. ASSUME NEW j \in T
        PROVE  j \in i .. e
    <3> SUFFICES ASSUME ~(j <= e)
                 PROVE  FALSE
      BY <1>1
    <3>1. i + b \in i .. j
      BY <1>1
    <3> QED
      BY <3>1
  <2>2. ASSUME NEW j \in i .. e
        PROVE  j \in T
    <3>1. j \in i .. Len(m)
      BY <1>1
    <3>2. ASSUME NEW k \in i .. j
          PROVE  At(m, k) # 0
      <4>1. k - i \in Nat /\ k - i < b /\ i + (k - i) = k
        BY <1>1
      <4> QED
        BY <4>1
    <3> QED
      BY <3>1, <3>2
  <2> QED
    BY <2>1, <2>2
<1>3. Cardinality(i .. e) = IF i > e THEN 0 ELSE e - i + 1
  BY <1>1, FS_Interval, Zenon
<1>4. (IF i > e THEN 0 ELSE e - i + 1) = b
  OBVIOUS
<1> QED
  BY <1>2, <1>3, <1>4

\* What At sees of a name.
LEMMA HeldAt ==
  ASSUME NEW m \in Seq(Octet), NEW p, NEW e \in Seq(Octet), Holds(m, p, e),
         NEW k \in Nat, k < Len(e), p + k < Len(m)
  PROVE  At(m, p + k) = e[k + 1] /\ e[k + 1] \in Nat
<1>1. p \in Nat /\ p + k \in Nat /\ Len(m) \in Nat /\ Len(e) \in Nat
  BY LenProperties DEF Holds
<1>2. At(m, p + k) = m[(p + k) + 1]
  BY <1>1, AtIs, Zenon
<1>3. k + 1 \in 1 .. Len(e) /\ p + (k + 1) <= Len(m) /\ p + (k + 1) = (p + k) + 1
  BY <1>1
<1>4. m[p + (k + 1)] = e[k + 1]
  BY <1>3 DEF Holds
<1>5. e[k + 1] \in Octet
  BY <1>3, ElementOfSeq, Zenon
<1>6. Octet \subseteq Nat
  BY DEF Octet
<1> QED
  BY <1>2, <1>3, <1>4, <1>5, <1>6

\* getAnswerSectionName: the whole name of a record, or past the end of the
\* message when the name is cut short.
LEMMA NameRead ==
  ASSUME NEW m \in Seq(Octet), NEW p, NEW name \in Seq(Octet), IsOwner(name),
         Holds(m, p, name)
  PROVE  /\ NameLength(m, p) \in Nat
         /\ p + Len(name) <= Len(m) => NameLength(m, p) = Len(name)
         /\ p + Len(name) > Len(m) => p + NameLength(m, p) >= Len(m)
<1>1. /\ p \in Nat /\ p <= Len(m) /\ Len(m) \in Nat /\ Len(name) \in Nat
      /\ Len(name) >= 2
  <2>1. p \in Nat /\ p <= Len(m) /\ Len(m) \in Nat /\ Len(name) \in Nat
    BY LenProperties DEF Holds
  <2>2. Len(name) = 2 \/ Len(name) \in 2 .. 25
    BY Zenon DEF IsOwner
  <2>3. Len(name) >= 2
    <3> DEFINE n == Len(name)
    <3>1. n = 2 \/ n \in 2 .. 25
      BY <2>2
    <3> HIDE DEF n
    <3>2. n >= 2
      BY <3>1, SMTT(30)
    <3> QED
      BY <3>2 DEF n
  <2> QED
    BY <2>1, <2>3
<1>2. CASE p = Len(m)
  <2>1. NameLength(m, p) = 0
    BY <1>1, <1>2, NothingLeft
  <2> QED
    BY <1>1, <1>2, <2>1
<1>3. CASE p < Len(m)
  <2>1. At(m, p) = name[1] /\ name[1] \in Nat
    <3>1. 0 \in Nat /\ 0 < Len(name) /\ p + 0 < Len(m) /\ p + 0 = p /\ 0 + 1 = 1
      BY <1>1, <1>3
    <3>2. At(m, p + 0) = name[0 + 1] /\ name[0 + 1] \in Nat
      BY <3>1, HeldAt, Zenon
    <3> QED
      BY <3>1, <3>2
  <2>2. CASE Len(name) = 2 /\ name[1] >= 192
    <3>1. NameLength(m, p) = 2
      BY <2>1, <2>2 DEF NameLength
    <3> QED
      BY <1>1, <1>3, <2>2, <3>1
  <2>3. CASE name[1] < 192 /\ \A k \in DOMAIN name : name[k] = 0 <=> k = Len(name)
    <3> DEFINE b == IF p + Len(name) <= Len(m) THEN Len(name) - 1 ELSE Len(m) - p
    <3>1. b \in Nat /\ p + b <= Len(m) /\ b < Len(name)
      BY <1>1, <1>3
    <3>2. ASSUME NEW k \in Nat, k < b
          PROVE  At(m, p + k) # 0
      <4>1. k < Len(name) /\ p + k < Len(m) /\ k + 1 # Len(name) /\ k + 1 \in DOMAIN name
        BY <1>1, <1>3, <3>2
      <4>2. At(m, p + k) = name[k + 1]
        BY <4>1, HeldAt, Zenon
      <4> QED
        BY <2>3, <4>1, <4>2
    <3>3. At(m, p + b) = 0
      <4>1. CASE p + Len(name) <= Len(m)
        <5>1. b = Len(name) - 1 /\ p + b < Len(m) /\ b + 1 = Len(name) /\ b + 1 \in DOMAIN name
          BY <1>1, <4>1
        <5> HIDE DEF b
        <5>2. At(m, p + b) = name[b + 1]
          <6>1. b \in Nat /\ b < Len(name) /\ p + b < Len(m)
            BY <3>1, <5>1
          <6> QED
            BY <6>1, HeldAt
        <5> QED
          BY <2>3, <5>1, <5>2
      <4>2. CASE ~(p + Len(name) <= Len(m))
        <5>1. p + b = Len(m) /\ p + b \in Nat /\ p + b >= Len(m)
          BY <1>1, <4>2
        <5> HIDE DEF b
        <5> QED
          BY <5>1, AtIs, Zenon
      <4> QED
        BY <4>1, <4>2
    <3>4. NameLength(m, p) = 1 + b
      <4>1. Cardinality({j \in p .. Len(m) : \A k \in p .. j : At(m, k) # 0}) = b
        <5> HIDE DEF b
        <5> QED
          BY <1>1, <3>1, <3>2, <3>3, CountIs
      <4>2. name[1] # 0
        BY <1>1, <2>3
      <4>3. ~(At(m, p) >= 192) /\ At(m, p) # 0
        BY <2>1, <2>3, <4>2
      <4> HIDE DEF b
      <4> QED
        BY <4>1, <4>3 DEF NameLength
    <3> QED
      BY <1>1, <1>3, <3>4
  <2> QED
    BY <2>2, <2>3 DEF IsOwner
<1> QED
  BY <1>1, <1>2, <1>3

\* Two octets make the number they stand for.
LEMMA PairIs ==
  ASSUME NEW x, NEW k, IsPair(x, k)
  PROVE  x[1] \in Octet /\ x[2] \in Octet /\ 256 * x[1] + x[2] = k
<1>1. x \in Seq(Octet) /\ Len(x) = 2
  BY Zenon DEF IsPair
<1>2. 256 * x[1] + x[2] = k
  BY DEF IsPair
<1>3. 1 \in 1 .. Len(x) /\ 2 \in 1 .. Len(x)
  BY <1>1
<1>4. x[1] \in Octet /\ x[2] \in Octet
  BY <1>1, <1>3, ElementOfSeq, Zenon
<1> QED
  BY <1>2, <1>4

\* A small number has no high octet, and no number with only a high octet is the type
\* of an address.
LEMMA HighOctet ==
  ASSUME NEW h \in Nat, NEW l \in Nat, l < 256, NEW k \in Nat, 256 * h + l = k
  PROVE  /\ k < 256 => h = 0
         /\ 256 * h \in {1, 28} => FALSE
OBVIOUS

\* The octets of the type and of the length that m has at i.
HasFields(m, i, w, v) ==
  /\ i \in Nat /\ i <= Len(m)
  /\ i + 1 <= Len(m) => m[i + 1] = w[1]
  /\ i + 2 <= Len(m) => m[i + 2] = w[2]
  /\ i + 9 <= Len(m) => m[i + 9] = v[1]
  /\ i + 10 <= Len(m) => m[i + 10] = v[2]

\* The type and the length that are read.
ReadsFields(m, i, ty, len) ==
  /\ i + 10 <= Len(m) => WordAt(m, i) = ty /\ WordAt(m, i + 8) = len
  /\ i + 10 > Len(m) /\ WordAt(m, i) \in {A, AAAA} => WordAt(m, i + 8) = 0

SmallIfAddress(ty, len) == ty \in {A, AAAA} => len < 256

\* Both are read if all their octets are there; otherwise an address has none.
LEMMA FieldsRead ==
  ASSUME NEW m \in Seq(Octet), NEW i, NEW ty \in Nat, NEW w, IsPair(w, ty),
         NEW len \in Nat, NEW v, IsPair(v, len),
         SmallIfAddress(ty, len), HasFields(m, i, w, v)
  PROVE  ReadsFields(m, i, ty, len)
<1>0. /\ i \in Nat
      /\ i + 1 <= Len(m) => m[i + 1] = w[1]
      /\ i + 2 <= Len(m) => m[i + 2] = w[2]
      /\ i + 9 <= Len(m) => m[i + 9] = v[1]
      /\ i + 10 <= Len(m) => m[i + 10] = v[2]
  BY DEF HasFields
<1>1. /\ w[1] \in Nat /\ w[2] \in Nat /\ w[2] < 256 /\ 256 * w[1] + w[2] = ty
      /\ v[1] \in Nat /\ v[2] \in Nat /\ v[2] < 256 /\ 256 * v[1] + v[2] = len
  <2>2. /\ w[1] \in Octet /\ w[2] \in Octet /\ 256 * w[1] + w[2] = ty
        /\ v[1] \in Octet /\ v[2] \in Octet /\ 256 * v[1] + v[2] = len
    BY PairIs
  <2> QED
    BY <2>2, OctetIs, ZenonT(30)
<1> DEFINE L == Len(m)
           a == WordAt(m, i)
           b == WordAt(m, i + 8)
<1>2. L \in Nat /\ i + 8 \in Nat /\ i \in Nat
  BY <1>0, LenProperties
<1>3. IsWordAt(m, i, a)
  BY <1>2, WordAtIs, Zenon
<1>4. IsWordAt(m, i + 8, b)
  BY <1>2, WordAtIs, Zenon
<1>5. (i + 8) + 1 = i + 9 /\ (i + 8) + 2 = i + 10
  BY <1>2
<1> HIDE DEF L, a, b
<1>6. ASSUME i + 10 <= L
      PROVE  a = ty /\ b = len
  <2>1. i + 1 <= L /\ i + 2 <= L /\ i + 9 <= L /\ i + 1 < L /\ i + 9 < L
    BY <1>2, <1>6
  <2>2. a = 256 * m[i + 1] + m[i + 2] /\ m[i + 1] = w[1] /\ m[i + 2] = w[2]
    BY <1>0, <1>3, <2>1 DEF L, IsWordAt
  <2>3. b = 256 * m[i + 9] + m[i + 10] /\ m[i + 9] = v[1] /\ m[i + 10] = v[2]
    BY <1>0, <1>4, <1>5, <1>6, <2>1 DEF L, IsWordAt
  <2> QED
    BY <1>1, <2>2, <2>3
<1>7. ASSUME i + 10 > L, a \in {A, AAAA}
      PROVE  b = 0
  <2>1. a = 1 \/ a = 28
    BY <1>7 DEF A, AAAA
  <2>2. i < L
    BY <1>2, <1>3, <2>1 DEF L, IsWordAt
  <2>3. i + 1 # L
    <3> SUFFICES ASSUME i + 1 = L
                 PROVE  FALSE
      OBVIOUS
    <3>1. a = 256 * w[1]
      BY <1>0, <1>2, <1>3 DEF L, IsWordAt
    <3> QED
      BY <1>1, <2>1, <3>1, HighOctet
  <2>4. i + 1 <= L /\ i + 2 <= L /\ i + 1 < L
    BY <1>2, <2>2, <2>3
  <2>5. a = ty
    <3>1. a = 256 * m[i + 1] + m[i + 2] /\ m[i + 1] = w[1] /\ m[i + 2] = w[2]
      BY <1>0, <1>3, <2>4 DEF L, IsWordAt
    <3> QED
      BY <1>1, <3>1
  <2>6. len < 256
    BY <1>7, <2>5 DEF SmallIfAddress
  <2>7. v[1] = 0
    BY <1>1, <2>6, HighOctet
  <2>8. CASE i + 9 = L
    <3>1. i + 9 <= L
      BY <1>2, <2>8
    <3>2. m[i + 9] = v[1] /\ b = 256 * m[i + 9]
      BY <1>0, <1>4, <1>5, <2>8, <3>1 DEF L, IsWordAt
    <3> QED
      BY <2>7, <3>2
  <2>9. CASE i + 9 # L
    <3>1. i + 8 >= L
      BY <1>2, <1>7, <2>9
    <3> QED
      BY <1>4, <3>1 DEF L, IsWordAt
  <2> QED
    BY <2>8, <2>9
<1> QED
  BY <1>6, <1>7, Zenon DEF ReadsFields, L, a, b

\* The sizes of the two kinds of addresses.
LEMMA SizeIs ==
  ASSUME NEW t \in {A, AAAA}
  PROVE  Size(t) \in Nat \ {0} /\ Size(t) < 256 /\ (t = A => Size(t) = V4) /\ (t = AAAA => Size(t) = V6)
BY DEF Size, A, AAAA, V4, V6

\* The octets of an address are octets, wherever the message ends.
LEMMA AddressesType ==
  ASSUME NEW m \in Seq(Octet), NEW i \in Nat, NEW len \in Nat, NEW size \in Nat \ {0}
  PROVE  AddressesAt(m, i, len, size) \in Seq([1 .. size -> Octet])
<1> DEFINE F(k) == [n \in 1 .. size |-> At(m, i + (k - 1) * size + n - 1)]
           c == len \div size
<1>1. c \in Nat
  OBVIOUS
<1>2. ASSUME NEW k \in 1 .. c
      PROVE  F(k) \in [1 .. size -> Octet]
  <2>1. (k - 1) * size \in Nat
    BY <1>1
  <2>2. ASSUME NEW n \in 1 .. size
        PROVE  At(m, i + (k - 1) * size + n - 1) \in Octet
    <3> DEFINE x == (k - 1) * size
    <3> HIDE DEF x
    <3>1. i + x + n - 1 \in Nat
      BY <2>1 DEF x
    <3>2. At(m, i + x + n - 1) \in Octet
      BY <3>1, AtIs, Zenon
    <3> QED
      BY <3>2 DEF x
  <2> QED
    BY <2>2, Zenon
<1>3. AddressesAt(m, i, len, size) = [k \in 1 .. c |-> F(k)]
  BY Zenon DEF AddressesAt
<1> HIDE DEF F, c
<1>4. [k \in 1 .. c |-> F(k)] \in Seq([1 .. size -> Octet])
  BY <1>1, <1>2
<1> QED
  BY <1>3, <1>4, Zenon

\* A record without data has no address.
LEMMA NoAddresses ==
  ASSUME NEW m, NEW i, NEW size \in Nat \ {0}
  PROVE  AddressesAt(m, i, 0, size) = <<>>
<1>1. 0 \div size = 0
  OBVIOUS
<1>2. AddressesAt(m, i, 0, size) =
        [k \in 1 .. 0 \div size |-> [n \in 1 .. size |-> At(m, i + (k - 1) * size + n - 1)]]
  BY Zenon DEF AddressesAt
<1> QED
  BY <1>1, <1>2

\* A record with the data of an address has that one, with zeros for the octets
\* that did not come.
LEMMA OneAddress ==
  ASSUME NEW m \in Seq(Octet), NEW d \in Seq(Octet), Len(d) # 0, NEW i, Holds(m, i, d)
  PROVE  /\ AddressesAt(m, i, Len(d), Len(d)) = <<CutAt(d, Len(m) - i)>>
         /\ i + Len(d) <= Len(m) => AddressesAt(m, i, Len(d), Len(d)) = <<d>>
<1> DEFINE size == Len(d)
           c == Len(m) - i
           G == [n \in 1 .. size |-> At(m, i + n - 1)]
<1>1. size \in Nat \ {0} /\ i \in Nat /\ i <= Len(m) /\ Len(m) \in Nat /\ c \in Nat
      /\ DOMAIN d = 1 .. size
  BY LenProperties DEF Holds
<1>2. AddressesAt(m, i, size, size) = <<G>>
  <2> DEFINE F(k) == [n \in 1 .. size |-> At(m, i + (k - 1) * size + n - 1)]
  <2>1. size \div size = 1
    BY <1>1
  <2>2. AddressesAt(m, i, size, size) = [k \in 1 .. size \div size |-> F(k)]
    BY Zenon DEF AddressesAt
  <2>3. F(1) = G
    <3>1. ASSUME NEW n \in 1 .. size
          PROVE  i + (1 - 1) * size + n - 1 = i + n - 1
      BY <1>1
    <3> HIDE DEF size
    <3> QED
      BY <3>1
  <2> HIDE DEF F, G, size
  <2>4. [k \in 1 .. 1 |-> F(k)] = <<F(1)>>
    OBVIOUS
  <2> QED
    BY <2>1, <2>2, <2>3, <2>4
<1>3. ASSUME NEW n \in 1 .. size
      PROVE  At(m, i + n - 1) = IF n <= c THEN d[n] ELSE 0
  <2>1. n - 1 \in Nat /\ i + (n - 1) = i + n - 1 /\ (n - 1) + 1 = n /\ n - 1 < Len(d)
        /\ i + (n - 1) \in Nat
    BY <1>1
  <2>2. CASE n <= c
    <3>1. i + (n - 1) < Len(m)
      BY <1>1, <2>2
    <3>2. At(m, i + (n - 1)) = d[(n - 1) + 1]
      <4> HIDE DEF G, c, size
      <4> QED
        BY <2>1, <3>1, HeldAt
    <3> QED
      BY <2>1, <2>2, <3>2
  <2>3. CASE ~(n <= c)
    <3>1. i + (n - 1) >= Len(m)
      BY <1>1, <2>3
    <3>2. At(m, i + (n - 1)) = 0
      BY <2>1, <3>1, AtIs, Zenon
    <3> QED
      BY <2>1, <2>3, <3>2
  <2> QED
    BY <2>2, <2>3
<1>4. G = CutAt(d, c)
  <2> HIDE DEF c, size
  <2> QED
    BY <1>1, <1>3 DEF CutAt
<1>5. ASSUME i + size <= Len(m)
      PROVE  G = d
  <2>1. \A n \in 1 .. size : n <= c
    BY <1>1, <1>5
  <2>2. \A n \in 1 .. size : At(m, i + n - 1) = d[n]
    BY <1>3, <2>1
  <2>3. d = [n \in 1 .. size |-> d[n]]
    OBVIOUS
  <2> HIDE DEF size
  <2> QED
    BY <2>2, <2>3
<1> HIDE DEF G
<1> QED
  BY <1>2, <1>4, <1>5 DEF size, c

\* The addresses of type u that parseAnswerFormat takes from the fields at i.
Taken(m, i, u) ==
  IF WordAt(m, i) = u
    THEN AddressesAt(m, i + 10, WordAt(m, i + 8), Size(u))
    ELSE <<>>

\* A record r of an answer to a query for type t was read at p: all of it, or up
\* to the end of the message and beyond, and nothing of the other type.
IsRead(m, p, i, r, t) ==
  /\ i \in Nat
  /\ \A u \in {A, AAAA} : u # t => Taken(m, i, u) = <<>>
  /\ \/ /\ p + Len(Encoded(r)) <= Len(m)
        /\ i + 10 + WordAt(m, i + 8) = p + Len(Encoded(r))
        /\ Taken(m, i, t) = IF r.type = t THEN <<r.data>> ELSE <<>>
     \/ /\ p + Len(Encoded(r)) > Len(m)
        /\ i + 10 + WordAt(m, i + 8) >= Len(m)
        /\ \/ Taken(m, i, t) = <<>>
           \/ r.type = t /\ \E n \in 0 .. Len(r.data) : Taken(m, i, t) = <<CutAt(r.data, n)>>

\* A record with no data gives no address.
LEMMA NothingTaken ==
  ASSUME NEW m \in Seq(Octet), NEW i \in Nat, NEW u \in {A, AAAA},
         WordAt(m, i) = u => WordAt(m, i + 8) = 0
  PROVE  Taken(m, i, u) = <<>>
<1>1. Size(u) \in Nat \ {0}
  BY SizeIs, Zenon
<1>2. AddressesAt(m, i + 10, 0, Size(u)) = <<>>
  BY <1>1, NoAddresses, Zenon
<1> QED
  BY <1>2 DEF Taken

\* parseAnswerFormat reads a record that is whole as it was written; of one that is
\* cut short it takes at most the beginning of its address, and goes past the end.
LEMMA RecordRead ==
  ASSUME NEW t \in {A, AAAA}, NEW r, r.name \in Seq(Octet), r.type \in Nat,
         r.data \in Seq(Octet), IsRecord(r, t),
         NEW m \in Seq(Octet), NEW p, Holds(m, p, Encoded(r))
  PROVE  IsRead(m, p, p + NameLength(m, p), r, t)
<1> DEFINE e == Encoded(r)
           o == r.name
           n == Len(o)
           d == r.data
           s == Len(d)
           w == Word(r.type)
           v == Word(s)
           L == Len(m)
           i == p + NameLength(m, p)
<1>1. IsEncoded(Octet, e, o, w, v, d) /\ IsPair(w, r.type) /\ IsPair(v, s)
  <2>1. IsWord(r.type) /\ IsWord(s) /\ s \in Nat
    BY LenProperties DEF IsRecord
  <2> QED
    BY <2>1, EncodedIs, WordType, Zenon
<1>2. /\ n \in Nat /\ s \in Nat /\ Len(e) = n + 10 + s
      /\ \A j \in 1 .. n : e[j] = o[j]
      /\ e[n + 1] = w[1] /\ e[n + 2] = w[2] /\ e[n + 9] = v[1] /\ e[n + 10] = v[2]
      /\ \A j \in 1 .. s : e[n + 10 + j] = d[j]
  BY <1>1, Zenon DEF IsEncoded
<1>3. p \in Nat /\ p <= L /\ L \in Nat /\ \A j \in 1 .. Len(e) : p + j <= L => m[p + j] = e[j]
  BY LenProperties DEF Holds
<1>4. IsOwner(o) /\ (r.type \in {A, AAAA} => r.type = t /\ s = Size(t))
  BY Zenon DEF IsRecord
<1>5. Holds(m, p, o)
  <2>1. ASSUME NEW j \in 1 .. n, p + j <= L
        PROVE  m[p + j] = o[j]
    <3>1. j \in 1 .. Len(e)
      <4> HIDE DEF e, o, n, d, s, w, v, L, i
      <4> QED
        BY <1>2
    <3> QED
      BY <1>2, <1>3, <2>1, <3>1, Zenon
  <2> QED
    BY <1>3, <2>1 DEF Holds
<1>6. /\ NameLength(m, p) \in Nat
      /\ p + n <= L => NameLength(m, p) = n
      /\ p + n > L => i >= L
  BY <1>4, <1>5, NameRead
<1>7. i \in Nat
  BY <1>3, <1>6
<1> HIDE DEF e, o, n, d, s, w, v, L, i
<1>8. CASE p + n > L
  <2>1. i >= L
    BY <1>6, <1>8
  <2>2. WordAt(m, i) = 0 /\ WordAt(m, i + 8) = 0
    BY <1>7, <2>1, NothingLeft DEF L
  <2>3. \A u \in {A, AAAA} : Taken(m, i, u) = <<>>
    BY <1>7, <2>2, NothingTaken
  <2>4. i + 10 + 0 >= L /\ p + Len(e) > L
    BY <1>2, <1>3, <1>7, <1>8, <2>1
  <2> QED
    BY <1>7, <2>2, <2>3, <2>4 DEF IsRead, e, i, L
<1>9. CASE p + n <= L
  <2>1. i = p + n /\ i <= L
    BY <1>3, <1>6, <1>9 DEF i
  <2>2. ASSUME NEW j \in 1 .. 10 + s, i + j <= L
        PROVE  m[i + j] = e[n + j]
    <3>1. n + j \in 1 .. Len(e) /\ p + (n + j) = i + j
      BY <1>2, <1>3, <2>1
    <3> QED
      BY <1>3, <2>2, <3>1
  <2>3. /\ i + 1 <= L => m[i + 1] = w[1]
        /\ i + 2 <= L => m[i + 2] = w[2]
        /\ i + 9 <= L => m[i + 9] = v[1]
        /\ i + 10 <= L => m[i + 10] = v[2]
    <3>1. 1 \in 1 .. 10 + s /\ 2 \in 1 .. 10 + s /\ 9 \in 1 .. 10 + s /\ 10 \in 1 .. 10 + s
      BY <1>2
    <3> QED
      BY <1>2, <2>2, <3>1, Zenon
  <2>4. r.type \in {A, AAAA} => s < 256
    BY <1>4, SizeIs
  <2>5. /\ i + 10 <= L => WordAt(m, i) = r.type /\ WordAt(m, i + 8) = s
        /\ i + 10 > L /\ WordAt(m, i) \in {A, AAAA} => WordAt(m, i + 8) = 0
    <3>1. HasFields(m, i, w, v)
      BY <1>7, <2>1, <2>3 DEF HasFields, L
    <3>2. SmallIfAddress(r.type, s)
      BY <2>4 DEF SmallIfAddress
    <3>3. ReadsFields(m, i, r.type, s)
      BY <1>1, <1>2, <3>1, <3>2, FieldsRead, Zenon
    <3> QED
      BY <3>3, Zenon DEF ReadsFields, L
  <2>6. CASE i + 10 > L
    <3>1. \A u \in {A, AAAA} : Taken(m, i, u) = <<>>
      BY <1>7, <2>5, <2>6, NothingTaken
    <3>2. WordAt(m, i + 8) \in Nat
      <4>1. i + 8 \in Nat
        BY <1>7
      <4>2. IsWordAt(m, i + 8, WordAt(m, i + 8))
        BY <4>1, WordAtIs, Zenon
      <4> QED
        BY <4>2, Zenon DEF IsWordAt
    <3> DEFINE x == WordAt(m, i + 8)
    <3> HIDE DEF x
    <3>3. i + 10 + x >= L /\ p + Len(e) > L
      BY <1>2, <1>3, <1>7, <2>1, <2>6, <3>2, SMTT(30) DEF x
    <3> QED
      BY <1>7, <3>1, <3>3 DEF IsRead, e, i, L, x
  <2>7. CASE i + 10 <= L
    <3>1. WordAt(m, i) = r.type /\ WordAt(m, i + 8) = s
      BY <2>5, <2>7
    <3>2. i + 10 + s = p + Len(e)
      BY <1>2, <1>3, <2>1
    <3>3. ASSUME NEW u \in {A, AAAA}, r.type # u
          PROVE  Taken(m, i, u) = <<>>
      BY <1>7, <3>1, <3>3, NothingTaken
    <3>4. \A u \in {A, AAAA} : u # t => Taken(m, i, u) = <<>>
      BY <1>4, <3>3
    <3>5. CASE r.type # t
      <4>1. Taken(m, i, t) = <<>>
        BY <3>3, <3>5
      <4>2. p + Len(e) <= L \/ p + Len(e) > L
        BY <1>2, <1>3
      <4>3. i + 10 + s >= L \/ ~(p + Len(e) > L)
        BY <1>2, <1>3, <1>7, <3>2
      <4> QED
        BY <1>7, <3>1, <3>2, <3>4, <3>5, <4>1, <4>2, <4>3 DEF IsRead, e, i, L
    <3>6. CASE r.type = t
      <4>1. s = Size(t) /\ s # 0
        BY <1>4, <3>6, SizeIs
      <4>2. Taken(m, i, t) = AddressesAt(m, i + 10, s, s)
        BY <3>1, <3>6, <4>1 DEF Taken
      <4>3. Holds(m, i + 10, d)
        <5>1. ASSUME NEW j \in 1 .. s, i + 10 + j <= L
              PROVE  m[i + 10 + j] = d[j]
          <6>1. 10 + j \in 1 .. 10 + s /\ i + (10 + j) = i + 10 + j /\ n + (10 + j) = n + 10 + j
            BY <1>2, <1>7
          <6>2. m[i + (10 + j)] = e[n + (10 + j)]
            BY <2>2, <5>1, <6>1
          <6>3. e[n + 10 + j] = d[j]
            BY <1>2
          <6> QED
            BY <6>1, <6>2, <6>3
        <5>2. i + 10 \in Nat
          BY <1>7
        <5> QED
          BY <2>7, <5>1, <5>2 DEF Holds, L, s
      <4>4. /\ Taken(m, i, t) = <<CutAt(d, L - (i + 10))>>
            /\ (i + 10) + s <= L => Taken(m, i, t) = <<d>>
        BY <4>1, <4>2, <4>3, OneAddress DEF s, L, d
      <4>5. CASE p + Len(e) <= L
        <5>1. (i + 10) + s <= L
          BY <3>2, <4>5
        <5>2. Taken(m, i, t) = <<d>>
          BY <4>4, <5>1
        <5> QED
          BY <1>7, <3>1, <3>2, <3>4, <3>6, <4>5, <5>2 DEF IsRead, e, i, L, d
      <4>6. CASE p + Len(e) > L
        <5>1. L - (i + 10) \in 0 .. s
          BY <1>2, <1>3, <1>7, <2>7, <3>2, <4>6
        <5>2. i + 10 + s >= L
          BY <1>2, <1>3, <3>2, <4>6
        <5>3. \E k \in 0 .. Len(d) : Taken(m, i, t) = <<CutAt(d, k)>>
          BY <4>4, <5>1 DEF s
        <5> QED
          BY <1>7, <3>1, <3>4, <3>6, <4>6, <5>2, <5>3 DEF IsRead, e, i, L, d
      <4>7. p + Len(e) <= L \/ p + Len(e) > L
        BY <1>2, <1>3
      <4> QED
        BY <4>5, <4>6, <4>7
    <3> QED
      BY <3>5, <3>6
  <2>8. i + 10 > L \/ i + 10 <= L
    BY <1>3, <1>7
  <2> QED
    BY <2>6, <2>7, <2>8
<1>10. p + n > L \/ p + n <= L
  BY <1>2, <1>3
<1> QED
  BY <1>8, <1>9, <1>10

-----------------------------------------------------------------------------
(* The answer of the DoH server *)

AnswerHeader(rcode, count) ==
  <<0, 0, 131, rcode>> \o Word(1) \o Word(count) \o <<0, 0, 0, 0>>

\* The octets of records, and the addresses of type t among them.
OctetsOf(records) == [k \in DOMAIN records |-> Encoded(records[k])]
PickedOf(records, t) ==
  [k \in DOMAIN records |-> IF records[k].type = t THEN <<records[k].data>> ELSE <<>>]

\* The answer to a query for type t that arrives as it was made.
ReplyTo(z, name, t) ==
  AnswerHeader(z[t].rcode, Len(z[t].records))
    \o QuestionOf(name, t) \o FlattenSeq(OctetsOf(z[t].records))

\* r begins with such a header.
HasHeader(r, rcode, count) ==
  /\ r \in Seq(Octet) /\ Len(r) >= 12
  /\ r[3] = 131 /\ r[4] = rcode /\ r[5] = 0 /\ r[6] = 1
  /\ 256 * r[7] + r[8] = count

\* m is the first octets of r.
Begins(m, r) == Len(m) <= Len(r) /\ \A i \in 1 .. Len(m) : m[i] = r[i]

\* The header of an answer has its code and its count.
LEMMA HeaderIs ==
  ASSUME NEW rcode \in 0 .. 15, NEW count \in Nat, IsWord(count)
  PROVE  HasHeader(AnswerHeader(rcode, count), rcode, count)
         /\ Len(AnswerHeader(rcode, count)) = 12
<1> DEFINE a == <<0, 0, 131, rcode>>
           b == Word(1)
           c == Word(count)
           d == <<0, 0, 0, 0>>
           u1 == a \o b
           u2 == u1 \o c
           h == u2 \o d
<1>1. /\ a \in Seq(Octet) /\ Len(a) = 4 /\ a[3] = 131 /\ a[4] = rcode
      /\ d \in Seq(Octet) /\ Len(d) = 4
  BY DEF Octet
<1>2. b \in Seq(Octet) /\ Len(b) = 2 /\ b[1] = 0 /\ b[2] = 1
  BY DEF Octet, Word
<1>3. c \in Seq(Octet) /\ Len(c) = 2 /\ 256 * c[1] + c[2] = count
  BY WordType, Zenon DEF IsPair
<1>4. AnswerHeader(rcode, count) = h
  BY DEF AnswerHeader
<1> HIDE DEF a, b, c, d, u1, u2, h
<1>5. IsJoin(Octet, u1, a, b)
  BY <1>1, <1>2, BothParts, Zenon DEF u1
<1>6. IsJoin(Octet, u2, u1, c)
  <2>1. u1 \in Seq(Octet)
    BY <1>5 DEF IsJoin
  <2> QED
    BY <1>3, <2>1, BothParts, Zenon DEF u2
<1>7. IsJoin(Octet, h, u2, d)
  <2>1. u2 \in Seq(Octet)
    BY <1>6 DEF IsJoin
  <2> QED
    BY <1>1, <2>1, BothParts, Zenon DEF h
<1>8. Len(u1) = 6 /\ Len(u2) = 8 /\ Len(h) = 12 /\ h \in Seq(Octet)
  BY <1>1, <1>2, <1>3, <1>5, <1>6, <1>7 DEF IsJoin
<1>9. \A i \in 1 .. 8 : h[i] = u2[i]
  BY <1>7, <1>8 DEF IsJoin
<1>10. \A i \in 1 .. 6 : u2[i] = u1[i]
  BY <1>6, <1>8 DEF IsJoin
<1>11. u2[7] = c[1] /\ u2[8] = c[2]
  <2>1. \A i \in 1 .. 2 : u2[6 + i] = c[i]
    BY <1>3, <1>6, <1>8 DEF IsJoin
  <2> QED
    BY <2>1
<1>12. u1[3] = 131 /\ u1[4] = rcode
  BY <1>1, <1>5 DEF IsJoin
<1>13. u1[5] = 0 /\ u1[6] = 1
  <2>1. \A i \in 1 .. 2 : u1[4 + i] = b[i]
    BY <1>1, <1>2, <1>5 DEF IsJoin
  <2> QED
    BY <1>2, <2>1
<1> QED
  BY <1>3, <1>4, <1>8, <1>9, <1>10, <1>11, <1>12, <1>13 DEF HasHeader

\* The records of an answer are octets.
LEMMA OctetsType ==
  ASSUME NEW z \in Zones, NEW t \in {A, AAAA}
  PROVE  /\ OctetsOf(z[t].records) \in Seq(Seq(Octet))
         /\ Len(OctetsOf(z[t].records)) = Len(z[t].records)
         /\ \A k \in 1 .. Len(z[t].records) :
              OctetsOf(z[t].records)[k] = Encoded(z[t].records[k])
<1> DEFINE R == z[t].records
<1>1. /\ Len(R) \in Nat /\ DOMAIN R = 1 .. Len(R)
      /\ \A k \in 1 .. Len(R) :
           LET r == R[k]
           IN  /\ r.name \in Seq(Octet) /\ r.type \in Nat /\ r.data \in Seq(Octet)
               /\ IsRecord(r, t)
  BY ZoneTypes, Zenon
<1> HIDE DEF R
<1>2. ASSUME NEW k \in 1 .. Len(R)
      PROVE  Encoded(R[k]) \in Seq(Octet)
  <2>1. IsEncoded(Octet, Encoded(R[k]), R[k].name, Word(R[k].type), Word(Len(R[k].data)), R[k].data)
    BY <1>1, EncodedIs, Zenon DEF IsRecord
  <2> QED
    BY <2>1, Zenon DEF IsEncoded
<1>3. OctetsOf(R) = [k \in 1 .. Len(R) |-> Encoded(R[k])]
  BY <1>1, Zenon DEF OctetsOf
<1>4. OctetsOf(R) \in Seq(Seq(Octet)) /\ Len(OctetsOf(R)) = Len(R)
  BY <1>1, <1>2, <1>3
<1>5. \A k \in 1 .. Len(R) : OctetsOf(R)[k] = Encoded(R[k])
  BY <1>3
<1> QED
  BY <1>4, <1>5 DEF R

\* Where the records of an answer begin, after its header and its question.
BaseOf(name) == 12 + (Len(name) + 4)

\* An answer is its header and question, and then its records.
LEMMA ReplyIs ==
  ASSUME NEW z \in Zones, NEW name \in Seq(Octet), NEW t \in {A, AAAA}
  PROVE  LET r == ReplyTo(z, name, t)
             f == FlattenSeq(OctetsOf(z[t].records))
         IN  /\ HasHeader(r, z[t].rcode, Len(z[t].records))
             /\ BaseOf(name) \in Nat /\ Len(r) = BaseOf(name) + Len(f) /\ Len(f) \in Nat
             /\ \A j \in 1 .. Len(f) : r[BaseOf(name) + j] = f[j]
<1> DEFINE h == AnswerHeader(z[t].rcode, Len(z[t].records))
           q == QuestionOf(name, t)
           f == FlattenSeq(OctetsOf(z[t].records))
           u == h \o q
           r == u \o f
<1>1. HasHeader(h, z[t].rcode, Len(z[t].records)) /\ Len(h) = 12 /\ h \in Seq(Octet)
  <2>1. z[t].rcode \in 0 .. 15 /\ Len(z[t].records) \in Nat /\ IsWord(Len(z[t].records))
    BY ZoneTypes, Zenon
  <2>2. HasHeader(h, z[t].rcode, Len(z[t].records)) /\ Len(h) = 12
    BY <2>1, HeaderIs, Zenon
  <2>3. h \in Seq(Octet)
    <3> HIDE DEF h
    <3> QED
      BY <2>2, Zenon DEF HasHeader
  <2> QED
    BY <2>2, <2>3, Zenon
<1>2. q \in Seq(Octet) /\ Len(q) = Len(name) + 4
  BY QuestionType
<1>3. f \in Seq(Octet)
  BY OctetsType, FlattenType
<1>4. ReplyTo(z, name, t) = r
  BY DEF ReplyTo
<1>5. Len(name) \in Nat
  BY LenProperties
<1> HIDE DEF h, q, f, u, r
<1>6. IsJoin(Octet, u, h, q)
  BY <1>1, <1>2, BothParts, Zenon DEF u
<1>7. IsJoin(Octet, r, u, f)
  <2>1. u \in Seq(Octet)
    BY <1>6, Zenon DEF IsJoin
  <2> QED
    BY <1>3, <2>1, BothParts, Zenon DEF r
<1>8. Len(u) = BaseOf(name) /\ BaseOf(name) \in Nat /\ BaseOf(name) >= 12
  BY <1>1, <1>2, <1>5, <1>6 DEF IsJoin, BaseOf
<1>9. /\ r \in Seq(Octet) /\ Len(r) = BaseOf(name) + Len(f) /\ Len(f) \in Nat
      /\ \A j \in 1 .. Len(f) : r[BaseOf(name) + j] = f[j]
  BY <1>7, <1>8, Zenon DEF IsJoin
<1>10. \A i \in 1 .. 12 : r[i] = h[i]
  <2>1. \A i \in 1 .. 12 : u[i] = h[i]
    BY <1>1, <1>6 DEF IsJoin
  <2>2. \A i \in 1 .. 12 : i \in 1 .. Len(u)
    BY <1>8
  <2>3. \A i \in 1 .. Len(u) : r[i] = u[i]
    BY <1>7, Zenon DEF IsJoin
  <2> QED
    BY <2>1, <2>2, <2>3
<1>11. HasHeader(r, z[t].rcode, Len(z[t].records))
  <2> DEFINE rcode == z[t].rcode
             count == Len(z[t].records)
  <2>1. HasHeader(h, rcode, count) /\ Len(r) >= 12
    BY <1>1, <1>8, <1>9
  <2> HIDE DEF rcode, count
  <2>2. /\ r[3] = h[3] /\ r[4] = h[4] /\ r[5] = h[5] /\ r[6] = h[6]
        /\ r[7] = h[7] /\ r[8] = h[8]
    BY <1>10
  <2>3. /\ h[3] = 131 /\ h[4] = rcode /\ h[5] = 0 /\ h[6] = 1
        /\ 256 * h[7] + h[8] = count
    BY <2>1, Zenon DEF HasHeader
  <2>4. HasHeader(r, rcode, count)
    BY <1>9, <2>1, <2>2, <2>3, Zenon DEF HasHeader
  <2> QED
    BY <2>4 DEF rcode, count
<1> QED
  BY <1>4, <1>8, <1>9, <1>11, Zenon DEF f

\* Where record k + 1 of the answer begins.
OffOf(z, name, t, k) == BaseOf(name) + Len(Joined(OctetsOf(z[t].records), k))

\* The next record, in a message that is as long as those before it.
LEMMA RecordHeld ==
  ASSUME NEW z \in Zones, NEW name \in Seq(Octet), NEW t \in {A, AAAA},
         NEW m \in Seq(Octet), Begins(m, ReplyTo(z, name, t)),
         NEW k \in 0 .. Len(z[t].records) - 1, OffOf(z, name, t, k) <= Len(m)
  PROVE  /\ Holds(m, OffOf(z, name, t, k), Encoded(z[t].records[k + 1]))
         /\ OffOf(z, name, t, k + 1) =
              OffOf(z, name, t, k) + Len(Encoded(z[t].records[k + 1]))
<1> DEFINE s == OctetsOf(z[t].records)
           f == FlattenSeq(s)
           q == Len(Joined(s, k))
           e == Encoded(z[t].records[k + 1])
           r == ReplyTo(z, name, t)
           b == BaseOf(name)
           p == OffOf(z, name, t, k)
           N == Len(z[t].records)
<1>1. /\ s \in Seq(Seq(Octet)) /\ Len(s) = N
      /\ \A i \in 1 .. N : s[i] = Encoded(z[t].records[i])
  BY OctetsType, Zenon
<1>2. b \in Nat /\ Len(f) \in Nat /\ Len(r) = b + Len(f) /\ \A j \in 1 .. Len(f) : r[b + j] = f[j]
  BY ReplyIs, Zenon
<1>3. N \in Nat
  BY ZoneTypes
<1>4. k \in 0 .. N - 1
  OBVIOUS
<1>5. p = b + q /\ OffOf(z, name, t, k + 1) = b + Len(Joined(s, k + 1))
  BY Zenon DEF OffOf
<1>6. p <= Len(m) /\ Begins(m, r) /\ Len(m) \in Nat
  BY LenProperties
<1> HIDE DEF s, f, e, r, b, p, N
<1>7. k + 1 \in 1 .. N /\ k \in 0 .. Len(s) - 1 /\ k \in 0 .. Len(s)
  BY <1>1, <1>3, <1>4
<1>8. s[k + 1] = e
  BY <1>1, <1>7, Zenon DEF e
<1>9. q \in Nat
  BY <1>1, <1>7, JoinedType, Zenon
<1>10. /\ Len(Joined(s, k + 1)) = q + Len(e) /\ q + Len(e) <= Len(f)
       /\ \A j \in 1 .. Len(e) : f[q + j] = e[j]
  <2>1. /\ Len(Joined(s, k + 1)) = q + Len(s[k + 1]) /\ q + Len(s[k + 1]) <= Len(f)
        /\ \A j \in 1 .. Len(s[k + 1]) : f[q + j] = s[k + 1][j]
    BY <1>1, <1>7, PartAt, Zenon DEF f
  <2> QED
    BY <1>8, <2>1
<1>11. Len(e) \in Nat
  <2>1. e \in Seq(Octet)
    BY <1>1, <1>7, <1>8, ElementOfSeq, Zenon
  <2> QED
    BY <2>1, LenProperties, Zenon
<1> HIDE DEF q
<1>12. p \in Nat
  BY <1>2, <1>5, <1>9
<1>13. ASSUME NEW j \in 1 .. Len(e), p + j <= Len(m)
       PROVE  m[p + j] = e[j]
  <2>1. p + j \in 1 .. Len(m) /\ q + j \in 1 .. Len(f) /\ p + j = b + (q + j)
    BY <1>2, <1>5, <1>6, <1>9, <1>10, <1>11, <1>12, <1>13
  <2>2. m[p + j] = r[p + j]
    BY <1>6, <2>1, Zenon DEF Begins
  <2>3. r[b + (q + j)] = f[q + j] /\ f[q + j] = e[j]
    BY <1>2, <1>10, <2>1, Zenon
  <2> QED
    BY <2>1, <2>2, <2>3
<1>14. Holds(m, p, e)
  BY <1>6, <1>12, <1>13 DEF Holds
<1>15. OffOf(z, name, t, k + 1) = p + Len(e)
  <2>1. p + Len(e) = b + (q + Len(e))
    BY <1>2, <1>5, <1>9, <1>11
  <2> QED
    BY <1>5, <1>10, <2>1, Zenon
<1> QED
  BY <1>14, <1>15 DEF p, e

\* makeResponseStructure takes what begins like an answer with no error, and
\* has the number of its records when all of the header is there.
LEMMA RefusedIs ==
  ASSUME NEW rcode \in 0 .. 15, NEW count, NEW r, HasHeader(r, rcode, count),
         NEW m \in Seq(Octet), Begins(m, r)
  PROVE  /\ ~Refused(m) => rcode = 0
         /\ Len(m) >= 8 => WordAt(m, 6) = count
         /\ m = r /\ rcode = 0 => ~Refused(m)
<1>1. /\ Len(m) \in Nat /\ Len(r) \in Nat
      /\ \A i \in 1 .. Len(m) : m[i] = r[i]
      /\ r[3] = 131 /\ r[4] = rcode /\ r[5] = 0 /\ r[6] = 1
      /\ 256 * r[7] + r[8] = count /\ Len(r) >= 12
  BY LenProperties DEF HasHeader, Begins
<1> DEFINE L == Len(m)
<1> HIDE DEF L
<1>2. IsWordAt(m, 4, WordAt(m, 4)) /\ IsWordAt(m, 6, WordAt(m, 6))
  BY WordAtIs
<1>3. L < 6 => WordAt(m, 4) # 1
  <2> DEFINE w == WordAt(m, 4)
  <2>1. IsWordAt(m, 4, w)
    BY <1>2
  <2> HIDE DEF w
  <2>2. L = 5 => w = 0
    <3> SUFFICES ASSUME L = 5
                 PROVE  w = 0
      OBVIOUS
    <3>1. 5 \in 1 .. Len(m)
      BY DEF L
    <3>2. m[5] = 0
      BY <1>1, <3>1, Zenon
    <3>3. w = 256 * m[5]
      BY <2>1 DEF IsWordAt, L
    <3> QED
      BY <3>2, <3>3
  <2>3. L < 5 => w = 0
    BY <1>1, <2>1 DEF IsWordAt, L
  <2>4. L < 6 => w = 0
    <3>1. L \in Nat
      BY <1>1, Zenon DEF L
    <3> QED
      BY <2>2, <2>3, <3>1
  <2> QED
    BY <2>4 DEF w
<1>4. L >= 6 => At(m, 2) = 131 /\ At(m, 3) = rcode /\ WordAt(m, 4) = 1
  <2> SUFFICES ASSUME L >= 6
               PROVE  At(m, 2) = 131 /\ At(m, 3) = rcode /\ WordAt(m, 4) = 1
    OBVIOUS
  <2>1. m[3] = r[3] /\ m[4] = r[4] /\ m[5] = r[5] /\ m[6] = r[6]
    <3>1. L \in Nat
      BY <1>1, Zenon DEF L
    <3>2. 3 \in 1 .. L /\ 4 \in 1 .. L /\ 5 \in 1 .. L /\ 6 \in 1 .. L
      BY <3>1
    <3> QED
      BY <1>1, <3>2, ZenonT(30) DEF L
  <2>2. At(m, 2) = m[3] /\ At(m, 3) = m[4]
    BY <1>1 DEF L, At
  <2> DEFINE w == WordAt(m, 4)
  <2>3. IsWordAt(m, 4, w)
    BY <1>2
  <2> HIDE DEF w
  <2>4. w = 256 * m[5] + m[6]
    BY <1>1, <2>3 DEF L, IsWordAt
  <2>5. w = 1
    BY <1>1, <2>1, <2>4
  <2> QED
    BY <1>1, <2>1, <2>2, <2>5 DEF w
<1>5. rcode % 16 = rcode
  OBVIOUS
<1>6. ~Refused(m) => rcode = 0
  <2> SUFFICES ASSUME ~Refused(m)
               PROVE  rcode = 0
    OBVIOUS
  <2>1. At(m, 3) % 16 = 0 /\ WordAt(m, 4) = 1
    BY Zenon DEF Refused
  <2>2. L >= 6
    BY <1>1, <1>3, <2>1 DEF L
  <2> QED
    BY <1>4, <1>5, <2>1, <2>2
<1>7. L >= 8 => WordAt(m, 6) = count
  <2> SUFFICES ASSUME L >= 8
               PROVE  WordAt(m, 6) = count
    OBVIOUS
  <2>1. m[7] = r[7] /\ m[8] = r[8]
    BY <1>1 DEF L
  <2> DEFINE w == WordAt(m, 6)
  <2>2. IsWordAt(m, 6, w)
    BY <1>2
  <2> HIDE DEF w
  <2>3. w = 256 * m[7] + m[8]
    BY <1>1, <2>2 DEF L, IsWordAt
  <2>4. w = count
    BY <1>1, <2>1, <2>3
  <2> QED
    BY <2>4 DEF w
<1>8. m = r /\ rcode = 0 => ~Refused(m)
  <2> SUFFICES ASSUME m = r, rcode = 0
               PROVE  ~Refused(m)
    OBVIOUS
  <2>1. L >= 6
    BY <1>1 DEF L
  <2>2. At(m, 2) = 131 /\ At(m, 3) = 0 /\ WordAt(m, 4) = 1
    BY <1>4, <2>1
  <2> QED
    BY <2>2 DEF Refused
<1> QED
  BY <1>6, <1>7, <1>8 DEF L

-----------------------------------------------------------------------------
(* What is found of a list of addresses *)

\* An address of which all octets came is whole.
LEMMA WholeAddress ==
  ASSUME NEW d \in Seq(Octet)
  PROVE  d = CutAt(d, Len(d)) /\ Len(d) \in 0 .. Len(d)
<1>1. DOMAIN d = 1 .. Len(d) /\ Len(d) \in Nat /\ \A n \in 1 .. Len(d) : n <= Len(d)
  OBVIOUS
<1>2. d = [n \in DOMAIN d |-> d[n]]
  OBVIOUS
<1> QED
  BY <1>1, <1>2 DEF CutAt

\* Nothing is a beginning of any list of addresses.
LEMMA NothingFound ==
  ASSUME NEW l \in Seq(Seq(Octet))
  PROVE  StartOf(<<>>, l)
BY DEF StartOf

\* The first k addresses.
LEMMA FirstFound ==
  ASSUME NEW l \in Seq(Seq(Octet)), NEW got \in Seq(Seq(Octet)), Begins(got, l)
  PROVE  StartOf(got, l)
<1>1. Len(got) \in Nat /\ Len(l) \in Nat /\ DOMAIN got = 1 .. Len(got)
  BY LenProperties
<1>2. Len(got) <= Len(l) /\ \A k \in 1 .. Len(got) : got[k] = l[k]
  BY Zenon DEF Begins
<1>3. ASSUME NEW k \in 1 .. Len(got)
      PROVE  \E n \in 0 .. Len(l[k]) : got[k] = CutAt(l[k], n)
  <2>1. k \in 1 .. Len(l)
    BY <1>1, <1>2
  <2>2. l[k] \in Seq(Octet)
    BY <2>1, ElementOfSeq, Zenon
  <2> QED
    BY <1>2, <2>2, WholeAddress, Zenon
<1> QED
  BY <1>1, <1>2, <1>3, Zenon DEF StartOf

\* The first k addresses and a part of the next.
LEMMA PartFound ==
  ASSUME NEW l \in Seq(Seq(Octet)), NEW got \in Seq(Seq(Octet)), Begins(got, l),
         Len(got) < Len(l), NEW n \in 0 .. Len(l[Len(got) + 1])
  PROVE  StartOf(got \o <<CutAt(l[Len(got) + 1], n)>>, l)
<1> DEFINE k == Len(got)
           c == CutAt(l[k + 1], n)
           g == got \o <<c>>
<1>1. k \in Nat /\ Len(l) \in Nat /\ k + 1 <= Len(l)
  BY LenProperties
<1>2. \A i \in 1 .. k : got[i] = l[i]
  BY Zenon DEF Begins
<1>3. Len(g) = k + 1 /\ DOMAIN g = 1 .. k + 1 /\ g[k + 1] = c /\ \A i \in 1 .. k : g[i] = got[i]
  <2> HIDE DEF c
  <2> QED
    BY <1>1
<1> HIDE DEF g
<1>4. ASSUME NEW i \in 1 .. k + 1
      PROVE  /\ i < k + 1 => g[i] = l[i]
             /\ \E x \in 0 .. Len(l[i]) : g[i] = CutAt(l[i], x)
  <2>1. CASE i = k + 1
    <3>1. \E x \in 0 .. Len(l[i]) : g[i] = CutAt(l[i], x)
      BY <1>3, <2>1
    <3> QED
      BY <1>1, <2>1, <3>1
  <2>2. CASE i # k + 1
    <3>1. i \in 1 .. k /\ i \in 1 .. Len(l)
      BY <1>1, <2>2
    <3>2. g[i] = l[i]
      BY <1>2, <1>3, <3>1
    <3>3. l[i] \in Seq(Octet)
      BY <3>1, ElementOfSeq, Zenon
    <3> QED
      BY <3>2, <3>3, WholeAddress, Zenon
  <2> QED
    BY <2>1, <2>2
<1>5. StartOf(g, l)
  BY <1>1, <1>3, <1>4, Zenon DEF StartOf
<1> QED
  BY <1>5 DEF g, c, k

-----------------------------------------------------------------------------
(* The inductive invariant *)

Reply  == ReplyTo(zone, Name, Asked)
Picked == PickedOf(zone[Asked].records, Asked)
Off(k) == OffOf(zone, Name, Asked, k)

\* What the DoH server has of the query after k octets of it: just those, or
\* more octets than that, because every failed send() repeats one.
Received(k) ==
  \/ k >= 0 /\ received = SubSeq(Query, 1, k)
  \/ ~healthy /\ Len(received) > k

\* m is the answer to the query, or to a spoiled one, or the beginning of it.
IsAnswer(m) ==
  /\ m \in Seq(Octet)
  /\ Begins(m, Reply) \/ Begins(m, AnswerHeader(1, 0))
  /\ healthy => m = Reply

Got(t) == IF t = A THEN address ELSE address6

\* The addresses of type t were found, as far as their answer came.
Found(got, t) == IF healthy THEN got = Listed(t) ELSE StartOf(got, Listed(t))

\* With n records left, of which the next is at p: those before it are whole, and
\* `got` is their addresses.
AlignedAt(n, p, got) ==
  \E k \in 0 .. Len(zone[Asked].records) :
    /\ n = Len(zone[Asked].records) - k
    /\ p = Off(k) /\ p <= Len(message)
    /\ got = Joined(Picked, k)

\* The answer ended before the record at p.
CutOffAt(p, got) == ~healthy /\ p >= Len(message) /\ StartOf(got, Listed(Asked))

Aligned == AlignedAt(ancount, at, Got(Asked))
CutOff == CutOffAt(at, Got(Asked))

AtStart ==
  pc = "start" =>
    /\ familyFlag = 0 /\ doh_query = <<>> /\ sentBytes = 0
    /\ received = <<>> /\ reply = <<>> /\ message = <<>>

InQuery ==
  pc = "query" =>
    /\ message = <<>> /\ reply = <<>>
    /\ Prepared = Query /\ sentBytes + Pending = Len(Query)
    /\ Received(sentBytes)
    /\ doh_query # <<>> => sin_port = Port

InAnswer ==
  pc = "answer" =>
    \/ Received(Len(Query)) /\ reply = <<>> /\ message = <<>>
    \/ received = <<>> /\ IsAnswer(message \o reply)

InRecords ==
  pc = "records" =>
    /\ received = <<>> /\ reply = <<>>
    /\ Begins(message, Reply) /\ (healthy => message = Reply)
    /\ zone[Asked].rcode = 0
    /\ Aligned \/ CutOff

\* Those of the family that was asked for before are known, the others not yet.
Families ==
  /\ pc \in {"start", "query", "answer"} => Got(Asked) = <<>>
  /\ pc \in {"start", "query", "answer", "records"} =>
       IF familyFlag = 0 THEN address6 = <<>> ELSE Found(address, A)
  /\ pc \in {"query", "answer", "records"} => host.literal = <<>>
  /\ pc \in {"answer", "records", "connect", "connected"} => sin_port = Port

InConnect ==
  pc \in {"connect", "connected"} =>
    IF host.literal = <<>>
      THEN Found(address, A) /\ Found(address6, AAAA) /\ zone[AAAA].rcode = 0
      ELSE address = Listed(A) /\ address6 = Listed(AAAA)

Address == [1 .. V4 -> Octet] \cup [1 .. V6 -> Octet]

\* What was tried failed, and was tried in turn.
Tried ==
  /\ pc \notin {"connect", "connected", "error"} => tried = <<>>
  /\ tried \in Seq(Address)
  /\ \A k \in DOMAIN tried : /\ tried[k] = Candidates[k]
                             /\ tried[k] \in down /\ ~IsOwn(tried[k])

IInv ==
  /\ TypeOK
  /\ AtStart /\ InQuery /\ InAnswer /\ InRecords
  /\ Families /\ InConnect /\ Tried

\* What depends on the host, the zone and the family stays with them.
LEMMA Same ==
  ASSUME UNCHANGED <<host, zone, familyFlag>>
  PROVE  /\ Asked' = Asked /\ Name' = Name /\ Query' = Query /\ QuerySize' = QuerySize
         /\ Reply' = Reply /\ Picked' = Picked /\ Port' = Port
         /\ \A t : Listed(t)' = Listed(t)
         /\ \A k : Off(k)' = Off(k)
<1>1. Asked' = Asked /\ Name' = Name /\ Port' = Port /\ QuerySize' = QuerySize
  BY DEF Asked, Name, QType, Port, QuerySize
<1>2. Query' = Query
  <2>1. DNSStructure' = DNSStructure
    BY DEF DNSStructure
  <2> QED
    BY <2>1 DEF Query
<1>3. Reply' = Reply /\ Picked' = Picked
  BY <1>1 DEF Reply, Picked
<1>4. \A t : Listed(t)' = Listed(t)
  BY DEF Listed
<1>5. \A k : Off(k)' = Off(k)
  BY <1>1 DEF Off
<1> QED
  BY <1>1, <1>2, <1>3, <1>4, <1>5, Zenon

\* The addresses among the records are of one family.
LEMMA PickedType ==
  ASSUME NEW z \in Zones, NEW t \in {A, AAAA}
  PROVE  LET R == z[t].records
             P == PickedOf(R, t)
         IN  /\ P \in Seq(Seq([1 .. Size(t) -> Octet])) /\ Len(P) = Len(R)
             /\ \A k \in 1 .. Len(R) :
                  P[k] = IF R[k].type = t THEN <<R[k].data>> ELSE <<>>
<1> DEFINE R == z[t].records
           P == PickedOf(R, t)
           V == [1 .. Size(t) -> Octet]
<1>1. /\ Len(R) \in Nat /\ DOMAIN R = 1 .. Len(R)
      /\ \A k \in 1 .. Len(R) :
           LET r == R[k]
           IN  /\ r.name \in Seq(Octet) /\ r.type \in Nat /\ r.data \in Seq(Octet)
               /\ IsRecord(r, t)
  BY ZoneTypes, Zenon
<1>2. P = [k \in 1 .. Len(R) |-> IF R[k].type = t THEN <<R[k].data>> ELSE <<>>]
  BY <1>1, Zenon DEF PickedOf
<1>3. ASSUME NEW k \in 1 .. Len(R), R[k].type = t
      PROVE  R[k].data \in V
  <2>1. R[k].data \in Seq(Octet) /\ Len(R[k].data) = Size(t)
    BY <1>1, <1>3 DEF IsRecord
  <2>2. R[k].data \in [1 .. Len(R[k].data) -> Octet]
    BY <2>1
  <2> QED
    BY <2>1, <2>2, Zenon
<1> HIDE DEF R, V, P
<1>4. ASSUME NEW k \in 1 .. Len(R)
      PROVE  (IF R[k].type = t THEN <<R[k].data>> ELSE <<>>) \in Seq(V)
  BY <1>3
<1>5. P \in Seq(Seq(V)) /\ Len(P) = Len(R)
  BY <1>1, <1>2, <1>4
<1>6. \A k \in 1 .. Len(R) : P[k] = IF R[k].type = t THEN <<R[k].data>> ELSE <<>>
  BY <1>2
<1> QED
  BY <1>5, <1>6 DEF R, V, P

\* Addresses of one size are sequences of octets.
LEMMA AddressesAreSequences ==
  ASSUME NEW n \in Nat, NEW l \in Seq([1 .. n -> Octet])
  PROVE  l \in Seq(Seq(Octet))
<1>1. [1 .. n -> Octet] \subseteq Seq(Octet)
  OBVIOUS
<1> QED
  BY <1>1, SeqMonotonic, Zenon

\* What Listed gives.
LEMMA ListedIs ==
  ASSUME TypeOK, NEW t \in {A, AAAA}
  PROVE  /\ Listed(t) \in Seq([1 .. Size(t) -> Octet]) /\ Listed(t) \in Seq(Seq(Octet))
         /\ host.literal = <<>> /\ zone[t].rcode # 0 => Listed(t) = <<>>
         /\ host.literal = <<>> /\ zone[t].rcode = 0 =>
              Listed(t) = FlattenSeq(PickedOf(zone[t].records, t))
<1> DEFINE V == [1 .. Size(t) -> Octet]
<1>1. zone \in Zones /\ host \in Hosts
  BY DEF TypeOK
<1>2. Size(t) \in Nat
  BY SizeIs
<1>3. host.literal = <<>> /\ zone[t].rcode # 0 => Listed(t) = <<>>
  BY DEF Listed
<1>4. host.literal = <<>> /\ zone[t].rcode = 0 =>
        Listed(t) = FlattenSeq(PickedOf(zone[t].records, t))
  BY Zenon DEF Listed, PickedOf
<1>5. PickedOf(zone[t].records, t) \in Seq(Seq(V))
  BY <1>1, PickedType
<1>6. FlattenSeq(PickedOf(zone[t].records, t)) \in Seq(V)
  BY <1>5, FlattenType
<1>7. host.literal # <<>> => Listed(t) \in Seq(V)
  <2> SUFFICES ASSUME host.literal # <<>>
               PROVE  Listed(t) \in Seq(V)
    OBVIOUS
  <2>1. CASE Len(host.literal) = Size(t)
    <3>1. Listed(t) = <<host.literal>>
      BY <2>1 DEF Listed
    <3>2. host.literal \in [1 .. V4 -> Octet] \cup [1 .. V6 -> Octet]
      BY <1>1, HostTypes
    <3>3. \A n \in Nat : \A f \in [1 .. n -> Octet] : Len(f) = n
      OBVIOUS
    <3>4. host.literal \in V
      BY <2>1, <3>2, <3>3 DEF V4, V6
    <3> HIDE DEF V
    <3> QED
      BY <3>1, <3>4
  <2>2. CASE Len(host.literal) # Size(t)
    <3>1. Listed(t) = <<>>
      BY <2>2 DEF Listed
    <3> QED
      BY <3>1
  <2> QED
    BY <2>1, <2>2
<1> HIDE DEF V
<1>8. <<>> \in Seq(V)
  OBVIOUS
<1>9. Listed(t) \in Seq(V)
  BY <1>3, <1>4, <1>6, <1>7, <1>8
<1>10. Listed(t) \in Seq(Seq(Octet))
  BY <1>2, <1>9, AddressesAreSequences DEF V
<1> QED
  BY <1>3, <1>4, <1>9, <1>10 DEF V

\* The question of a query tells its type.
LEMMA OneType ==
  ASSUME NEW name \in Seq(Octet), NEW t \in {A, AAAA}, NEW u \in {A, AAAA},
         QuestionOf(name, t) = QuestionOf(name, u)
  PROVE  t = u
<1>1. QuestionOf(name, t)[Len(name) + 2] = t /\ QuestionOf(name, u)[Len(name) + 2] = u
  BY QuestionType
<1> QED
  BY <1>1

\* Answer in the terms of this module.
LEMMA AnswerIs ==
  ASSUME NEW q, NEW question, question = SubSeq(q, 14, Len(q))
  PROVE  LET Asks(t) == question = QuestionOf(Name, t)
             c == CHOOSE t \in {A, AAAA} : Asks(t)
         IN  Answer(q) =
               IF \E t \in {A, AAAA} : Asks(t)
                 THEN AnswerHeader(zone[c].rcode, Len(zone[c].records)) \o question
                        \o FlattenSeq(OctetsOf(zone[c].records))
                 ELSE AnswerHeader(1, 0)
<1> DEFINE x == SubSeq(q, 14, Len(q))
           Asks(t) == x = QuestionOf(Name, t)
           c == CHOOSE t \in {A, AAAA} : Asks(t)
<1>1. Answer(q) =
        IF \E t \in {A, AAAA} : Asks(t)
          THEN AnswerHeader(zone[c].rcode, Len(zone[c].records)) \o x
                 \o FlattenSeq(OctetsOf(zone[c].records))
          ELSE AnswerHeader(1, 0)
  BY Zenon DEF Answer, QuestionOf, Name, AnswerHeader, OctetsOf
<1>2. x = question
  OBVIOUS
<1> HIDE DEF x
<1> QED
  BY <1>1, <1>2

\* What the DoH server answers to a query as it was made.
LEMMA AnswerToQuery ==
  ASSUME TypeOK, host.literal = <<>>
  PROVE  Answer(Query) = Reply
<1>1. SubSeq(Query, 14, Len(Query)) = QuestionOf(Name, Asked) /\ Name \in Seq(Octet)
  BY QueryShape
<1>2. Asked \in {A, AAAA}
  BY AskedType
<1>3. \A t \in {A, AAAA} : QuestionOf(Name, Asked) = QuestionOf(Name, t) <=> t = Asked
  BY <1>1, <1>2, OneType
<1>4. (CHOOSE t \in {A, AAAA} : QuestionOf(Name, Asked) = QuestionOf(Name, t)) = Asked
  BY <1>2, <1>3
<1>5. \E t \in {A, AAAA} : QuestionOf(Name, Asked) = QuestionOf(Name, t)
  BY <1>2
<1> DEFINE question == QuestionOf(Name, Asked)
           Asks(t) == question = QuestionOf(Name, t)
           c == CHOOSE t \in {A, AAAA} : Asks(t)
<1>6. Answer(Query) =
        IF \E t \in {A, AAAA} : Asks(t)
          THEN AnswerHeader(zone[c].rcode, Len(zone[c].records)) \o question
                 \o FlattenSeq(OctetsOf(zone[c].records))
          ELSE AnswerHeader(1, 0)
  BY <1>1, AnswerIs
<1> QED
  BY <1>4, <1>5, <1>6 DEF Reply, ReplyTo

\* And to a query that has more octets than that.
LEMMA AnswerToMore ==
  ASSUME TypeOK, host.literal = <<>>, NEW q \in Seq(Nat), Len(q) > Len(Query)
  PROVE  Answer(q) = AnswerHeader(1, 0)
<1>1. Len(Query) = Len(Name) + 17 /\ Name \in Seq(Octet) /\ Name \in Seq(Nat)
  BY QueryShape
<1>2. Len(Name) \in Nat /\ Len(q) \in Nat
  BY <1>1, LenProperties
<1> DEFINE question == SubSeq(q, 14, Len(q))
           Asks(t) == question = QuestionOf(Name, t)
           c == CHOOSE t \in {A, AAAA} : Asks(t)
<1>3. Len(question) > Len(Name) + 4
  <2>1. Len(q) > Len(Name) + 17 /\ 14 \in Int /\ Len(q) \in Int
    BY <1>1, <1>2
  <2>2. \A i \in 14 .. Len(q) : q[i] \in Nat
    OBVIOUS
  <2>3. Len(question) = IF 14 <= Len(q) THEN Len(q) - 14 + 1 ELSE 0
    BY <2>1, <2>2, SubSeqProperties
  <2> DEFINE x == Len(question)
  <2> HIDE DEF x
  <2>4. x > Len(Name) + 4
    BY <1>2, <2>1, <2>3 DEF x
  <2> QED
    BY <2>4 DEF x
<1>4. \A t \in {A, AAAA} : Len(QuestionOf(Name, t)) = Len(Name) + 4
  BY <1>1, QuestionType
<1>5. ~ \E t \in {A, AAAA} : Asks(t)
  BY <1>2, <1>3, <1>4
<1>6. Answer(q) =
        IF \E t \in {A, AAAA} : Asks(t)
          THEN AnswerHeader(zone[c].rcode, Len(zone[c].records)) \o question
                 \o FlattenSeq(OctetsOf(zone[c].records))
          ELSE AnswerHeader(1, 0)
  BY AnswerIs
<1> QED
  BY <1>5, <1>6, Zenon

-----------------------------------------------------------------------------
(* Every step keeps it *)

\* The invariant holds at first.
LEMMA InitInv == Init => IInv
<1> SUFFICES ASSUME Init
             PROVE  IInv
  OBVIOUS
<1> USE DEF Init
<1>1. TypeOK
  <2>1. MaxFailures \in Nat
    BY DohAssumption DEF DohAssumption
  <2>2. 0 \in 0 .. MaxFailures
    BY <2>1
  <2> QED
    BY <2>2 DEF TypeOK, Candidates
<1>2. AtStart /\ InQuery /\ InAnswer /\ InRecords /\ InConnect
  BY DEF AtStart, InQuery, InAnswer, InRecords, InConnect
<1>3. Families
  BY DEF Families, Got
<1>4. Tried
  BY DEF Tried
<1> QED
  BY <1>1, <1>2, <1>3, <1>4 DEF IInv

\* Nothing but the end of the look-up.
LEMMA ErrorInv ==
  ASSUME IInv, pc' = "error",
         UNCHANGED <<world, familyFlag, query, found, wire, parsing, outcome>>
  PROVE  IInv'
<1> USE DEF world, query, found, wire, parsing, outcome
<1>1. TypeOK'
  BY DEF IInv, TypeOK, Candidates
<1>2. (AtStart /\ InQuery /\ InAnswer /\ InRecords /\ InConnect /\ Families)'
  BY DEF AtStart, InQuery, InAnswer, InRecords, InConnect, Families
<1>3. Tried'
  BY DEF IInv, Tried, Candidates, IsOwn
<1> QED
  BY <1>1, <1>2, <1>3 DEF IInv

\* checkIfIp keeps it.
LEMMA HostIsAddressInv ==
  ASSUME IInv, HostIsAddress
  PROVE  IInv'
<1>1. TypeOK /\ tried = <<>> /\ pc' = "connect" /\ sin_port' = Port /\ host.literal # <<>>
      /\ UNCHANGED <<world, familyFlag, doh_query, pendingBytes, sentBytes, failures, wire,
                     parsing, outcome>>
  BY DEF HostIsAddress, IInv, Tried
<1>2. address' = Listed(A) /\ address6' = Listed(AAAA)
  BY DEF HostIsAddress, Listed, Size, A, AAAA
<1>3. /\ Listed(A) \in Seq([1 .. V4 -> Octet])
      /\ Listed(AAAA) \in Seq([1 .. V6 -> Octet])
  BY <1>1, ListedIs, SizeIs
<1>4. Port \in Nat
  <2>1. host.port \in Nat
    BY <1>1, HostTypes DEF TypeOK
  <2> QED
    BY <2>1 DEF Port
<1>5. Port' = Port /\ \A t : Listed(t)' = Listed(t)
  BY <1>1, Same DEF world
<1> USE DEF world, wire, parsing, outcome
<1>6. TypeOK'
  <2>1. Len(tried') <= Len(Candidates')
    <3>1. Len(tried') = 0
      BY <1>1
    <3>2. address6' \o address' \in Seq([1 .. V6 -> Octet] \cup [1 .. V4 -> Octet])
      BY <1>2, <1>3
    <3>3. Len(Candidates') \in Nat
      BY <3>2 DEF Candidates
    <3> QED
      BY <3>1, <3>3
  <2> QED
    BY <1>1, <1>2, <1>3, <1>4, <2>1 DEF TypeOK
<1>7. (AtStart /\ InQuery /\ InAnswer /\ InRecords)'
  BY <1>1 DEF AtStart, InQuery, InAnswer, InRecords
<1>8. Families' /\ InConnect'
  BY <1>1, <1>2, <1>5 DEF Families, InConnect
<1>9. Tried'
  BY <1>1 DEF IInv, Tried
<1> QED
  BY <1>6, <1>7, <1>8, <1>9 DEF IInv

\* setupDoH keeps it.
LEMMA HostIsNameInv ==
  ASSUME IInv, HostIsName
  PROVE  IInv'
<1>1. TypeOK /\ host.literal = <<>> /\ pc = "start"
      /\ UNCHANGED <<world, familyFlag, query, found, wire, parsing, outcome>>
      /\ (pc' = "query" \/ pc' = "error")
  BY DEF HostIsName, IInv
<1>2. CASE pc' = "error"
  BY <1>1, <1>2, ErrorInv
<1>3. CASE pc' = "query"
  <2> USE DEF world, query, found, wire, parsing, outcome
  <2>1. familyFlag = 0 /\ doh_query = <<>> /\ sentBytes = 0
        /\ received = <<>> /\ reply = <<>> /\ message = <<>>
    BY <1>1 DEF IInv, AtStart
  <2>2. Query' = Query /\ Query \in Seq(Nat)
    BY <1>1, Same, QueryShape
  <2>3. TypeOK'
    BY <1>1, <1>3 DEF TypeOK, Candidates
  <2>4. InQuery'
    <3>1. Prepared' = Query' /\ Pending' = Len(Query')
      BY <1>1, <2>1 DEF Prepared, Pending, StartsQuery
    <3>2. SubSeq(Query', 1, 0) = <<>>
      BY SubSeqEmpty
    <3>3. Received(sentBytes)'
      BY <1>1, <2>1, <3>2 DEF Received
    <3>4. 0 + Len(Query) = Len(Query)
      BY <2>2
    <3> QED
      BY <1>1, <2>1, <2>2, <3>1, <3>3, <3>4 DEF InQuery
  <2>5. Families'
    <3>1. Asked' = Asked
      BY <1>1, Same
    <3> QED
      BY <1>1, <1>3, <2>1, <3>1 DEF IInv, Families, Got
  <2>6. (AtStart /\ InAnswer /\ InRecords /\ InConnect)'
    BY <1>3 DEF AtStart, InAnswer, InRecords, InConnect
  <2>7. Tried'
    BY <1>1, <1>3 DEF IInv, Tried
  <2> QED
    BY <2>3, <2>4, <2>5, <2>6, <2>7 DEF IInv
<1> QED
  BY <1>1, <1>2, <1>3

\* What send() takes follows what it took before.
LEMMA SentIs ==
  ASSUME NEW q \in Seq(Nat), NEW s \in Int, NEW k \in Nat, s + k <= Len(q)
  PROVE  /\ Sent(q, s, k) \in Seq(Nat) /\ Len(Sent(q, s, k)) = k
         /\ s >= 0 => SubSeq(q, 1, s) \o Sent(q, s, k) = SubSeq(q, 1, s + k)
<1> DEFINE x == Sent(q, s, k)
<1>1. Len(q) \in Nat
  BY LenProperties
<1>2. ASSUME NEW p \in 1 .. k
      PROVE  (IF s + p > 0 THEN q[s + p] ELSE 0) \in Nat
  <2>1. s + p > 0 => s + p \in 1 .. Len(q)
    BY <1>1
  <2> QED
    BY <2>1
<1>3. x \in Seq(Nat) /\ Len(x) = k /\ \A p \in 1 .. k : x[p] = IF s + p > 0 THEN q[s + p] ELSE 0
  BY <1>2 DEF Sent
<1> HIDE DEF x
<1>4. ASSUME s >= 0
      PROVE  SubSeq(q, 1, s) \o x = SubSeq(q, 1, s + k)
  <2> DEFINE u == SubSeq(q, 1, s)
             v == SubSeq(q, 1, s + k)
             y == u \o x
  <2>1. /\ u \in Seq(Nat) /\ Len(u) = s /\ \A i \in 1 .. s : u[i] = q[i]
        /\ v \in Seq(Nat) /\ Len(v) = s + k /\ \A i \in 1 .. s + k : v[i] = q[i]
    BY <1>1, <1>4
  <2> HIDE DEF u, v, y
  <2>2. IsJoin(Nat, y, u, x)
    BY <1>3, <2>1, BothParts, Zenon DEF y
  <2>3. Len(y) = s + k /\ y \in Seq(Nat)
    BY <1>3, <2>1, <2>2 DEF IsJoin
  <2>4. ASSUME NEW i \in 1 .. s + k
        PROVE  y[i] = v[i]
    <3>1. CASE i <= s
      <4>1. i \in 1 .. s /\ i \in 1 .. Len(u)
        BY <1>4, <2>1, <3>1
      <4>2. y[i] = u[i]
        BY <2>2, <4>1, Zenon DEF IsJoin
      <4> QED
        BY <2>1, <4>1, <4>2, Zenon
    <3>2. CASE ~(i <= s)
      <4>1. i - s \in 1 .. k /\ s + (i - s) = i /\ i > 0
        BY <1>4, <3>2
      <4>2. y[s + (i - s)] = x[i - s]
        BY <1>3, <2>1, <2>2, <4>1 DEF IsJoin
      <4>3. x[i - s] = q[i]
        BY <1>3, <4>1
      <4> QED
        BY <2>1, <4>1, <4>2, <4>3
    <3> QED
      BY <3>1, <3>2
  <2>5. y = v
    BY <2>1, <2>3, <2>4, SeqEqual, Zenon
  <2> QED
    BY <2>5 DEF y, u, v
<1> QED
  BY <1>3, <1>4 DEF x

\* What is known while a query is sent.
LEMMA PendingIs ==
  ASSUME IInv, pc = "query"
  PROVE  /\ TypeOK /\ host.literal = <<>>
         /\ Prepared = Query /\ Query \in Seq(Nat) /\ Len(Query) \in Nat
         /\ Pending \in Nat /\ sentBytes \in Int /\ sentBytes + Pending = Len(Query)
         /\ Received(sentBytes) /\ received \in Seq(Nat)
<1>1. TypeOK /\ host.literal = <<>>
  BY DEF IInv, Families
<1>2. Query \in Seq(Nat) /\ Len(Query) \in Nat
  BY <1>1, QueryShape, LenProperties
<1>3. Prepared = Query /\ sentBytes + Pending = Len(Query) /\ Received(sentBytes)
  BY DEF IInv, InQuery
<1>4. Pending \in Nat /\ sentBytes \in Int /\ received \in Seq(Nat)
  BY <1>1, <1>2 DEF TypeOK, Pending
<1> QED
  BY <1>1, <1>2, <1>3, <1>4

\* A port is a number.
LEMMA PortType ==
  ASSUME TypeOK
  PROVE  Port \in Nat
<1>1. host.port \in Nat
  BY HostTypes DEF TypeOK
<1> QED
  BY <1>1 DEF Port

\* makeRequest keeps it, whatever part of the query send() takes.
LEMMA MakeRequestInv ==
  ASSUME IInv, MakeRequest
  PROVE  IInv'
<1>1. pc = "query"
  BY DEF MakeRequest
<1>2. /\ TypeOK /\ host.literal = <<>>
      /\ Prepared = Query /\ Query \in Seq(Nat) /\ Len(Query) \in Nat
      /\ Pending \in Nat /\ sentBytes \in Int /\ sentBytes + Pending = Len(Query)
      /\ Received(sentBytes) /\ received \in Seq(Nat)
  BY <1>1, PendingIs
<1>3. UNCHANGED <<world, familyFlag, failures, found, reply, at, ancount, outcome>>
      /\ sin_port' = IF StartsQuery THEN Port ELSE sin_port
  BY DEF MakeRequest
<1>4. PICK k \in {Pending} \cup {p \in Parts : p < Pending} :
        /\ received' = received \o Sent(Query, sentBytes, k)
        /\ pendingBytes' = Pending - k
        /\ pc' = IF k = Pending THEN "answer" ELSE "query"
        /\ IF k = Pending /\ familyFlag = 0
             THEN resetDoH
             ELSE /\ doh_query' = Query
                  /\ sentBytes' = sentBytes + k
                  /\ UNCHANGED message
  BY <1>2, Zenon DEF MakeRequest
<1>5. k \in Nat /\ k <= Pending
  <2>1. Parts \subseteq Nat
    BY DohAssumption DEF DohAssumption
  <2>2. k = Pending \/ (k \in Nat /\ k < Pending)
    BY <2>1
  <2>3. Pending \in Nat
    BY <1>2
  <2> QED
    BY <2>2, <2>3
<1> DEFINE sent == Sent(Query, sentBytes, k)
           e == sentBytes + k
<1>6. e \in Int /\ e <= Len(Query) /\ (k = Pending => e = Len(Query))
      /\ (k # Pending => e + (Pending - k) = Len(Query) /\ Pending - k \in Nat)
  <2> DEFINE L == Len(Query)
             P == Pending
  <2>1. L \in Nat /\ P \in Nat /\ sentBytes \in Int /\ sentBytes + P = L
    BY <1>2, Zenon
  <2>2. k \in Nat /\ k <= P
    BY <1>5, Zenon
  <2> HIDE DEF L, P
  <2>3. e \in Int /\ e <= L /\ (k = P => e = L)
    BY <2>1, <2>2
  <2>4. k # P => e + (P - k) = L /\ P - k \in Nat
    BY <2>1, <2>2
  <2> QED
    BY <2>3, <2>4, Zenon DEF L, P
<1>7. /\ sent \in Seq(Nat) /\ Len(sent) = k
      /\ sentBytes >= 0 => SubSeq(Query, 1, sentBytes) \o sent = SubSeq(Query, 1, e)
  BY <1>2, <1>5, <1>6, SentIs
<1>8. received' \in Seq(Nat) /\ Len(received') = Len(received) + k
  <2> HIDE DEF sent
  <2>1. received' = received \o sent /\ received \in Seq(Nat) /\ sent \in Seq(Nat) /\ Len(sent) = k
    BY <1>2, <1>4, <1>7, Zenon DEF sent
  <2>2. IsJoin(Nat, received \o sent, received, sent)
    BY <2>1, BothParts, Zenon
  <2>3. /\ received \o sent \in Seq(Nat)
        /\ Len(received \o sent) = Len(received) + Len(sent)
    BY <2>2, Zenon DEF IsJoin
  <2> QED
    BY <2>1, <2>3, Zenon
<1>9. Query' = Query /\ Port' = Port /\ Asked' = Asked /\ \A t : Listed(t)' = Listed(t)
  BY <1>3, Same DEF world
<1>10. \/ e >= 0 /\ received' = SubSeq(Query, 1, e)
       \/ ~healthy /\ Len(received') > e
  <2>1. CASE sentBytes >= 0 /\ received = SubSeq(Query, 1, sentBytes)
    <3>1. e >= 0
      BY <1>2, <1>5, <2>1
    <3>2. received' = SubSeq(Query, 1, sentBytes) \o sent
      BY <1>4, <2>1, Zenon
    <3>3. SubSeq(Query, 1, sentBytes) \o sent = SubSeq(Query, 1, e)
      BY <1>7, <2>1, Zenon
    <3> QED
      BY <3>1, <3>2, <3>3, Zenon
  <2>2. CASE ~healthy /\ Len(received) > sentBytes
    <3>1. Len(received) \in Nat
      BY <1>2, LenProperties
    <3>2. Len(received) + k > e
      BY <1>2, <1>5, <2>2, <3>1
    <3> QED
      BY <1>8, <2>2, <3>2
  <2> QED
    BY <1>2, <2>1, <2>2 DEF Received
<1>11. \A n : n = e => Received(n)'
  BY <1>3, <1>9, <1>10 DEF Received, world
<1> HIDE DEF sent, e
<1>12. Port \in Nat
  BY <1>2, PortType
<1>13. message = <<>> /\ reply = <<>> /\ (doh_query # <<>> => sin_port = Port)
  BY <1>1 DEF IInv, InQuery
<1>14. sin_port' = Port
  BY <1>3, <1>13 DEF StartsQuery
<1>15. TypeOK'
  <2>1. pendingBytes' \in Nat
    BY <1>2, <1>4, <1>5
  <2>2. doh_query' \in Seq(Nat) /\ sentBytes' \in Int /\ message' \in Seq(Octet)
    <3>1. CASE k = Pending /\ familyFlag = 0
      BY <1>4, <3>1 DEF resetDoH
    <3>2. CASE ~(k = Pending /\ familyFlag = 0)
      BY <1>2, <1>4, <1>6, <3>2 DEF TypeOK, e
    <3> QED
      BY <3>1, <3>2
  <2>3. pc' \in {"answer", "query"}
    BY <1>4
  <2>4. UNCHANGED Candidates
    BY <1>3 DEF Candidates, found
  <2> QED
    BY <1>2, <1>3, <1>8, <1>12, <1>14, <2>1, <2>2, <2>3, <2>4
       DEF TypeOK, world, found, outcome
<1>16. CASE k = Pending
  <2>1. pc' = "answer" /\ message' = <<>> /\ reply' = <<>>
    BY <1>3, <1>4, <1>13, <1>16 DEF resetDoH
  <2>2. InAnswer'
    <3>1. Len(Query') = e
      BY <1>6, <1>9, <1>16
    <3>2. Received(Len(Query))'
      BY <1>11, <3>1
    <3> QED
      BY <2>1, <3>2 DEF InAnswer
  <2>3. Families'
    BY <1>1, <1>2, <1>3, <1>9, <1>14, <2>1 DEF IInv, Families, Got, Found, world, found
  <2>4. (AtStart /\ InQuery /\ InRecords /\ InConnect)'
    BY <2>1 DEF AtStart, InQuery, InRecords, InConnect
  <2>5. Tried'
    BY <1>1, <1>3, <2>1 DEF IInv, Tried, outcome
  <2> QED
    BY <1>15, <2>2, <2>3, <2>4, <2>5 DEF IInv
<1>17. CASE k # Pending
  <2>1. pc' = "query" /\ message' = <<>> /\ reply' = <<>> /\ doh_query' = Query
        /\ sentBytes' = e /\ pendingBytes' = Pending - k
    BY <1>3, <1>4, <1>13, <1>17 DEF e
  <2>2. InQuery'
    <3>1. Query # <<>>
      BY <1>2, <1>5, <1>17, QueryShape DEF Query
    <3>2. Prepared' = Query' /\ Pending' = pendingBytes'
      BY <1>9, <2>1, <3>1 DEF Prepared, Pending, StartsQuery
    <3>3. Received(sentBytes)'
      BY <1>11, <2>1
    <3>4. sentBytes' + Pending' = Len(Query')
      BY <1>6, <1>9, <1>17, <2>1, <3>2
    <3> QED
      BY <1>9, <1>14, <2>1, <3>2, <3>3, <3>4 DEF InQuery
  <2>3. Families'
    BY <1>1, <1>2, <1>3, <1>9, <2>1 DEF IInv, Families, Got, Found, world, found
  <2>4. (AtStart /\ InAnswer /\ InRecords /\ InConnect)'
    BY <2>1 DEF AtStart, InAnswer, InRecords, InConnect
  <2>5. Tried'
    BY <1>1, <1>3, <2>1 DEF IInv, Tried, outcome
  <2> QED
    BY <1>15, <2>2, <2>3, <2>4, <2>5 DEF IInv
<1> QED
  BY <1>16, <1>17

\* A send() that fails keeps it: the counters still add up to the query.
LEMMA SendFailsInv ==
  ASSUME IInv, SendFails
  PROVE  IInv'
<1>1. /\ pc = "query" /\ pc' = "query" /\ ~healthy /\ failures < MaxFailures
      /\ failures' = failures + 1 /\ doh_query' = Prepared
      /\ sentBytes' = sentBytes - 1 /\ pendingBytes' = Pending + 1
      /\ sin_port' = (IF StartsQuery THEN Port ELSE sin_port)
      /\ UNCHANGED <<world, familyFlag, found, wire, parsing, outcome>>
  BY DEF SendFails
<1>2. /\ TypeOK /\ host.literal = <<>>
      /\ Prepared = Query /\ Query \in Seq(Nat) /\ Len(Query) \in Nat
      /\ Pending \in Nat /\ sentBytes \in Int /\ sentBytes + Pending = Len(Query)
      /\ Received(sentBytes) /\ received \in Seq(Nat)
  BY <1>1, PendingIs
<1>3. Query' = Query /\ Port' = Port /\ Asked' = Asked /\ \A t : Listed(t)' = Listed(t)
  BY <1>1, Same DEF world
<1>4. Port \in Nat
  BY <1>2, PortType
<1>5. message = <<>> /\ reply = <<>> /\ (doh_query # <<>> => sin_port = Port)
  BY <1>1 DEF IInv, InQuery
<1>6. sin_port' = Port
  BY <1>1, <1>5 DEF StartsQuery
<1> USE DEF world, found, wire, parsing, outcome
<1>7. TypeOK'
  <2>1. failures' \in 0 .. MaxFailures
    <3>1. MaxFailures \in Nat /\ failures \in 0 .. MaxFailures
      BY <1>2, DohAssumption DEF DohAssumption, TypeOK
    <3> QED
      BY <1>1, <3>1
  <2>2. pendingBytes' \in Nat /\ sentBytes' \in Int /\ doh_query' \in Seq(Nat)
    BY <1>1, <1>2
  <2>3. UNCHANGED Candidates
    BY <1>1 DEF Candidates
  <2> QED
    BY <1>1, <1>2, <1>4, <1>6, <2>1, <2>2, <2>3 DEF TypeOK
<1>8. InQuery'
  <2>1. Len(Query) # 0 /\ Query # <<>>
    <3>1. Len(Query) = Len(Name) + 17 /\ Len(Name) \in Nat
      BY <1>2, QueryShape, LenProperties
    <3>2. Len(Query) # 0
      BY <3>1
    <3> QED
      BY <3>2
  <2>2. Prepared' = Query' /\ Pending' = pendingBytes'
    BY <1>1, <1>2, <1>3, <2>1 DEF Prepared, Pending, StartsQuery
  <2>3. sentBytes' + Pending' = Len(Query')
    BY <1>1, <1>2, <1>3, <2>2
  <2>4. Len(received) > sentBytes - 1
    <3>1. Len(received) \in Nat
      BY <1>2, LenProperties
    <3>2. CASE sentBytes >= 0 /\ received = SubSeq(Query, 1, sentBytes)
      <4>1. sentBytes <= Len(Query)
        BY <1>2
      <4>2. Len(SubSeq(Query, 1, sentBytes)) = sentBytes
        BY <1>2, <3>2, <4>1
      <4> QED
        BY <1>2, <3>2, <4>2
    <3>3. CASE Len(received) > sentBytes
      BY <1>2, <3>1, <3>3
    <3> QED
      BY <1>2, <3>2, <3>3 DEF Received
  <2>5. Received(sentBytes)'
    BY <1>1, <2>4 DEF Received
  <2> QED
    BY <1>1, <1>3, <1>5, <1>6, <2>2, <2>3, <2>5 DEF InQuery
<1>9. Families'
  BY <1>1, <1>2, <1>3 DEF IInv, Families, Got, Found
<1>10. (AtStart /\ InAnswer /\ InRecords /\ InConnect)'
  BY <1>1 DEF AtStart, InAnswer, InRecords, InConnect
<1>11. Tried'
  BY <1>1 DEF IInv, Tried
<1> QED
  BY <1>7, <1>8, <1>9, <1>10, <1>11 DEF IInv

\* An answer begins like itself.
LEMMA BeginsItself ==
  ASSUME NEW r \in Seq(Octet)
  PROVE  Begins(r, r)
BY DEF Begins

\* So does one that is cut short.
LEMMA BeginsCut ==
  ASSUME NEW r \in Seq(Octet), NEW c \in Nat, c < Len(r)
  PROVE  Begins(SubSeq(r, 1, c), r) /\ SubSeq(r, 1, c) \in Seq(Octet)
<1>1. /\ SubSeq(r, 1, c) \in Seq(Octet) /\ Len(SubSeq(r, 1, c)) = c
      /\ \A i \in 1 .. c : SubSeq(r, 1, c)[i] = r[i]
  <2> HIDE DEF Octet
  <2> QED
    OBVIOUS
<1>2. Len(r) \in Nat
  BY LenProperties
<1> QED
  BY <1>1, <1>2 DEF Begins

\* Both answers of the DoH server have a header.
LEMMA ReplyType ==
  ASSUME TypeOK, host.literal = <<>>
  PROVE  /\ HasHeader(Reply, zone[Asked].rcode, Len(zone[Asked].records))
         /\ Reply \in Seq(Octet)
         /\ HasHeader(AnswerHeader(1, 0), 1, 0) /\ AnswerHeader(1, 0) \in Seq(Octet)
<1>1. zone \in Zones /\ Asked \in {A, AAAA}
  BY AskedType DEF TypeOK
<1>2. Name \in Seq(Octet)
  BY QueryShape
<1>3. HasHeader(Reply, zone[Asked].rcode, Len(zone[Asked].records))
  BY <1>1, <1>2, ReplyIs, Zenon DEF Reply
<1>4. HasHeader(AnswerHeader(1, 0), 1, 0)
  <2>1. 1 \in 0 .. 15 /\ 0 \in Nat /\ IsWord(0)
    BY DEF IsWord
  <2> QED
    BY <2>1, HeaderIs, Zenon
<1> QED
  BY <1>3, <1>4, Zenon DEF HasHeader

\* The answer of the DoH server keeps it.
LEMMA ServerAnswersInv ==
  ASSUME IInv, ServerAnswers
  PROVE  IInv'
<1> DEFINE answer == Answer(received)
<1>1. /\ pc = "answer" /\ received # <<>> /\ received' = <<>>
      /\ reply' \in {answer} \cup
                      {SubSeq(answer, 1, c) : c \in {c \in Cuts : ~healthy /\ c < Len(answer)}}
      /\ UNCHANGED <<world, pc, familyFlag, query, found, parsing, outcome>>
  BY Zenon DEF ServerAnswers
<1>2. TypeOK /\ host.literal = <<>> /\ received \in Seq(Nat)
  BY <1>1 DEF IInv, Families, TypeOK
<1>3. message = <<>> /\ Received(Len(Query))
  BY <1>1 DEF IInv, InAnswer
<1>4. Query \in Seq(Nat)
  BY <1>2, QueryShape
<1>5. answer = Reply \/ (~healthy /\ answer = AnswerHeader(1, 0))
  <2>1. CASE received = SubSeq(Query, 1, Len(Query))
    <3>1. received = Query
      BY <1>4, <2>1, SubSeqFull
    <3> QED
      BY <1>2, <3>1, AnswerToQuery
  <2>2. CASE ~healthy /\ Len(received) > Len(Query)
    BY <1>2, <2>2, AnswerToMore
  <2> QED
    BY <1>3, <2>1, <2>2 DEF Received
<1>6. Reply \in Seq(Octet) /\ AnswerHeader(1, 0) \in Seq(Octet)
  BY <1>2, ReplyType
<1>7. Begins(answer, Reply) \/ Begins(answer, AnswerHeader(1, 0))
  BY <1>5, <1>6, BeginsItself
<1> HIDE DEF answer
<1>8. reply' = answer \/ (~healthy /\ \E c \in Nat : c < Len(answer) /\ reply' = SubSeq(answer, 1, c))
  <2>1. Cuts \subseteq Nat
    BY DohAssumption DEF DohAssumption
  <2> QED
    BY <1>1, <2>1
<1>9. /\ reply' \in Seq(Octet)
      /\ Begins(reply', Reply) \/ Begins(reply', AnswerHeader(1, 0))
      /\ healthy => reply' = Reply
  <2>1. CASE reply' = answer
    BY <1>5, <1>6, <1>7, <2>1
  <2>2. CASE ~healthy /\ \E c \in Nat : c < Len(answer) /\ reply' = SubSeq(answer, 1, c)
    <3> PICK c \in Nat : c < Len(answer) /\ reply' = SubSeq(answer, 1, c)
      BY <2>2
    <3> QED
      BY <1>5, <1>6, <2>2, BeginsCut
  <2> QED
    BY <1>8, <2>1, <2>2
<1> USE DEF world, query, found, parsing, outcome
<1>10. Reply' = Reply /\ Asked' = Asked /\ \A t : Listed(t)' = Listed(t)
  BY <1>1, Same
<1>11. TypeOK'
  <2>1. UNCHANGED Candidates
    BY <1>1 DEF Candidates
  <2>2. <<>> \in Seq(Nat)
    OBVIOUS
  <2> QED
    BY <1>1, <1>2, <1>9, <2>1, <2>2 DEF TypeOK
<1>12. InAnswer'
  <2>1. message' \o reply' = reply'
    <3>1. \A s \in Seq(Octet) : <<>> \o s = s
      <4> HIDE DEF Octet
      <4> QED
        OBVIOUS
    <3> QED
      BY <1>1, <1>3, <1>9, <3>1
  <2>2. IsAnswer(message \o reply)'
    <3>1. AnswerHeader(1, 0)' = AnswerHeader(1, 0)
      BY DEF AnswerHeader
    <3> QED
      BY <1>1, <1>9, <1>10, <2>1, <3>1 DEF IsAnswer
  <2> QED
    BY <1>1, <2>2 DEF InAnswer
<1>13. Families'
  BY <1>1, <1>2, <1>10 DEF IInv, Families, Got, Found, Port
<1>14. (AtStart /\ InQuery /\ InRecords /\ InConnect)'
  BY <1>1 DEF AtStart, InQuery, InRecords, InConnect
<1>15. Tried'
  BY <1>1 DEF IInv, Tried
<1> QED
  BY <1>11, <1>12, <1>13, <1>14, <1>15 DEF IInv

\* Reading the answer keeps it.
LEMMA ReadResponseInv ==
  ASSUME IInv, ReadResponse
  PROVE  IInv'
<1>1. /\ pc = "answer" /\ reply # <<>> /\ message' = message \o reply /\ reply' = <<>>
      /\ UNCHANGED <<world, pc, familyFlag, query, found, received, at, ancount, outcome>>
  BY DEF ReadResponse
<1>2. TypeOK /\ message \in Seq(Octet) /\ reply \in Seq(Octet)
  BY DEF IInv, TypeOK
<1>3. received = <<>> /\ IsAnswer(message \o reply)
  BY <1>1 DEF IInv, InAnswer
<1>4. message' \in Seq(Octet)
  BY <1>1, <1>3 DEF IsAnswer
<1> USE DEF world, query, found, outcome
<1>5. Reply' = Reply /\ Asked' = Asked /\ \A t : Listed(t)' = Listed(t)
  BY <1>1, Same
<1>6. TypeOK'
  <2>1. UNCHANGED Candidates
    BY <1>1 DEF Candidates
  <2>2. <<>> \in Seq(Octet)
    OBVIOUS
  <2> QED
    BY <1>1, <1>2, <1>4, <2>1, <2>2 DEF TypeOK
<1>7. InAnswer'
  <2>1. message' \o reply' = message \o reply
    <3>1. \A s \in Seq(Octet) : s \o <<>> = s
      <4> HIDE DEF Octet
      <4> QED
        OBVIOUS
    <3> QED
      BY <1>1, <1>4, <3>1
  <2>2. AnswerHeader(1, 0)' = AnswerHeader(1, 0)
    BY DEF AnswerHeader
  <2>3. IsAnswer(message \o reply)'
    BY <1>1, <1>3, <1>5, <2>1, <2>2 DEF IsAnswer
  <2> QED
    BY <1>1, <1>3, <2>3 DEF InAnswer
<1>8. Families'
  BY <1>1, <1>2, <1>5 DEF IInv, Families, Got, Found, Port
<1>9. (AtStart /\ InQuery /\ InRecords /\ InConnect)'
  BY <1>1 DEF AtStart, InQuery, InRecords, InConnect
<1>10. Tried'
  BY <1>1 DEF IInv, Tried
<1> QED
  BY <1>6, <1>7, <1>8, <1>9, <1>10 DEF IInv

\* What is known when the connection of the DoH server has ended.
LEMMA EndedIs ==
  ASSUME IInv, AnswerEnded
  PROVE  /\ TypeOK /\ host.literal = <<>> /\ pc = "answer" /\ Got(Asked) = <<>>
         /\ received = <<>> /\ reply = <<>> /\ IsAnswer(message)
<1>1. /\ TypeOK /\ host.literal = <<>> /\ pc = "answer" /\ Got(Asked) = <<>>
      /\ received = <<>> /\ reply = <<>> /\ message \in Seq(Octet)
  BY DEF IInv, AnswerEnded, Families, TypeOK
<1>2. ~Received(Len(Query))
  <2>1. Len(Query) = Len(Name) + 17 /\ Len(Name) \in Nat /\ Query \in Seq(Nat)
    BY <1>1, QueryShape, LenProperties
  <2>2. SubSeq(Query, 1, Len(Query)) = Query
    BY <2>1, SubSeqFull
  <2>3. Len(received) = 0
    BY <1>1
  <2>4. Len(Query) # 0 /\ ~(0 > Len(Query))
    BY <2>1
  <2> QED
    BY <2>2, <2>3, <2>4 DEF Received
<1>3. IsAnswer(message \o reply)
  BY <1>1, <1>2 DEF IInv, InAnswer
<1>4. message \o reply = message
  <2>1. \A s \in Seq(Octet) : s \o <<>> = s
    <3> HIDE DEF Octet
    <3> QED
      OBVIOUS
  <2> QED
    BY <1>1, <2>1
<1> QED
  BY <1>1, <1>3, <1>4

\* Where the first record begins.
LEMMA FirstRecord ==
  ASSUME TypeOK, host.literal = <<>>
  PROVE  /\ Off(0) = 12 + QuerySize /\ Off(0) \in Nat /\ Off(0) >= 16
         /\ Off(0) <= Len(Reply)
<1>1. zone \in Zones /\ Asked \in {A, AAAA} /\ Name \in Seq(Octet) /\ QuerySize = Len(Name) + 4
  BY AskedType, QueryShape DEF TypeOK
<1> DEFINE o == OctetsOf(zone[Asked].records)
           f == FlattenSeq(o)
           b == BaseOf(Name)
           r == ReplyTo(zone, Name, Asked)
<1>2. o \in Seq(Seq(Octet))
  BY <1>1, OctetsType
<1>3. Joined(o, 0) = <<>>
  BY <1>2, JoinedEnds
<1>4. b \in Nat /\ Len(r) = b + Len(f) /\ Len(f) \in Nat
  BY <1>1, ReplyIs, Zenon
<1>5. Len(Name) \in Nat
  BY <1>1, LenProperties
<1>6. b = 12 + QuerySize /\ b >= 16
  BY <1>1, <1>5 DEF BaseOf
<1>7. Off(0) = b + Len(Joined(o, 0))
  BY Zenon DEF Off, OffOf
<1> HIDE DEF b, f, r, o
<1>8. Off(0) = b
  BY <1>3, <1>4, <1>7
<1>9. b <= Len(r)
  BY <1>4
<1> QED
  BY <1>4, <1>6, <1>8, <1>9 DEF Reply, r

\* makeResponseStructure keeps it: the records begin where it looks for them.
LEMMA AnswerAcceptedInv ==
  ASSUME IInv, AnswerAccepted
  PROVE  IInv'
<1>1. /\ AnswerEnded /\ ~Refused(message) /\ pc' = "records"
      /\ at' = 12 + QuerySize /\ ancount' = WordAt(message, 6)
      /\ UNCHANGED <<world, familyFlag, query, found, wire, message, outcome>>
  BY DEF AnswerAccepted
<1>2. /\ TypeOK /\ host.literal = <<>> /\ pc = "answer" /\ Got(Asked) = <<>>
      /\ received = <<>> /\ reply = <<>> /\ IsAnswer(message)
  BY <1>1, EndedIs
<1>3. message \in Seq(Octet) /\ (healthy => message = Reply)
      /\ (Begins(message, Reply) \/ Begins(message, AnswerHeader(1, 0)))
  BY <1>2 DEF IsAnswer
<1>4. zone \in Zones /\ Asked \in {A, AAAA}
  BY <1>2, AskedType DEF TypeOK
<1>5. /\ HasHeader(Reply, zone[Asked].rcode, Len(zone[Asked].records))
      /\ HasHeader(AnswerHeader(1, 0), 1, 0)
  BY <1>2, ReplyType
<1>6. zone[Asked].rcode \in 0 .. 15 /\ Len(zone[Asked].records) \in Nat
  BY <1>4, ZoneTypes
<1>7. ~Begins(message, AnswerHeader(1, 0))
  <2>1. 1 \in 0 .. 15 /\ 1 # 0
    OBVIOUS
  <2> QED
    BY <1>1, <1>3, <1>5, <2>1, RefusedIs, Zenon
<1>8. Begins(message, Reply)
  BY <1>3, <1>7
<1>9. zone[Asked].rcode = 0 /\ (Len(message) >= 8 => WordAt(message, 6) = Len(zone[Asked].records))
  BY <1>1, <1>3, <1>5, <1>6, <1>8, RefusedIs, Zenon
<1>10. Off(0) = 12 + QuerySize /\ Off(0) \in Nat /\ Off(0) >= 16 /\ Off(0) <= Len(Reply)
  BY <1>2, FirstRecord
<1>11. WordAt(message, 6) \in Nat
  BY <1>3, WordAtIs DEF IsWordAt
<1> USE DEF world, query, found, wire, outcome
<1>12. /\ Reply' = Reply /\ Picked' = Picked /\ Asked' = Asked /\ Port' = Port
       /\ \A t : Listed(t)' = Listed(t)
       /\ \A k : Off(k)' = Off(k)
  BY <1>1, Same
<1>13. TypeOK'
  <2>1. UNCHANGED Candidates
    BY <1>1 DEF Candidates
  <2>2. at' \in Nat /\ ancount' \in Nat
    BY <1>1, <1>10, <1>11
  <2> QED
    BY <1>1, <1>2, <2>1, <2>2 DEF TypeOK
<1>14. InRecords'
  <2>1. Len(message) \in Nat
    BY <1>3, LenProperties
  <2>2. CASE Off(0) <= Len(message)
    <3>1. ancount' = Len(zone[Asked].records) - 0
      <4>1. Len(message) >= 8
        BY <1>10, <2>1, <2>2
      <4> QED
        BY <1>1, <1>6, <1>9, <4>1
    <3>2. Picked \in Seq(Seq([1 .. Size(Asked) -> Octet]))
      BY <1>4, PickedType DEF Picked
    <3>3. Joined(Picked, 0) = <<>>
      BY <3>2, JoinedEnds
    <3>4. Got(Asked)' = <<>>
      BY <1>1, <1>2, <1>12 DEF Got
    <3>5. 0 \in 0 .. Len(zone[Asked].records)
      BY <1>6
    <3>6. at' = Off(0)'
      BY <1>1, <1>10, <1>12
    <3>7. Joined(Picked, 0)' = <<>>
      BY <1>12, <3>3
    <3>8. Aligned'
      BY <1>1, <1>12, <2>2, <3>1, <3>4, <3>5, <3>6, <3>7 DEF Aligned, AlignedAt
    <3> QED
      BY <1>1, <1>2, <1>3, <1>8, <1>9, <1>12, <3>8 DEF InRecords
  <2>3. CASE ~(Off(0) <= Len(message))
    <3>1. ~healthy
      BY <1>3, <1>10, <2>3
    <3>2. Off(0) >= Len(message)
      BY <1>10, <2>1, <2>3
    <3>3. StartOf(<<>>, Listed(Asked))
      BY <1>2, <1>4, ListedIs, NothingFound
    <3>4. Got(Asked)' = <<>>
      BY <1>1, <1>2, <1>12 DEF Got
    <3>5. StartOf(Got(Asked), Listed(Asked))'
      BY <1>12, <3>3, <3>4
    <3>6. CutOff'
      BY <1>1, <1>10, <3>1, <3>2, <3>5 DEF CutOff, CutOffAt
    <3> QED
      BY <1>1, <1>2, <1>3, <1>8, <1>9, <1>12, <3>6 DEF InRecords
  <2> QED
    BY <2>2, <2>3
<1>15. Families'
  BY <1>1, <1>2, <1>12 DEF IInv, Families, Found
<1>16. (AtStart /\ InQuery /\ InAnswer /\ InConnect)'
  BY <1>1 DEF AtStart, InQuery, InAnswer, InConnect
<1>17. Tried'
  BY <1>1, <1>2 DEF IInv, Tried
<1> QED
  BY <1>13, <1>14, <1>15, <1>16, <1>17 DEF IInv

\* What the record at `at` adds to the addresses of type u, and where it ends.
Now(u) == Taken(message, at + NameLength(message, at), u)
NextAt == at + NameLength(message, at) + (10 + WordAt(message, at + NameLength(message, at) + 8))

\* ParseRecord in the terms of this module.
LEMMA ParseIs ==
  ASSUME IInv, ParseRecord
  PROVE  /\ pc = "records" /\ TypeOK /\ host.literal = <<>>
         /\ ancount > 0 /\ ancount' = ancount - 1
         /\ address' = address \o Now(A) /\ address6' = address6 \o Now(AAAA)
         /\ at' = NextAt
         /\ UNCHANGED <<world, pc, familyFlag, query, wire, message, outcome>>
<1> DEFINE i == at + NameLength(message, at)
           New(t, size) ==
             IF WordAt(message, i) = t
               THEN AddressesAt(message, i + 10, WordAt(message, i + 8), size)
               ELSE <<>>
<1>1. /\ pc = "records" /\ ancount > 0 /\ ancount' = ancount - 1
      /\ address' = address \o New(A, V4) /\ address6' = address6 \o New(AAAA, V6)
      /\ at' = i + (10 + WordAt(message, i + 8))
      /\ UNCHANGED <<world, pc, familyFlag, query, wire, message, outcome>>
  BY Zenon DEF ParseRecord, RecordLength
<1>2. TypeOK /\ host.literal = <<>>
  BY <1>1 DEF IInv, Families
<1>3. Size(A) = V4 /\ Size(AAAA) = V6
  BY DEF Size, A, AAAA
<1>4. New(A, V4) = Now(A) /\ New(AAAA, V6) = Now(AAAA)
  BY <1>3, Zenon DEF Now, Taken
<1>5. at' = NextAt
  BY <1>1 DEF NextAt
<1> HIDE DEF New, i
<1> QED
  BY <1>1, <1>2, <1>4, <1>5

\* No record ends after the answer.
LEMMA OffHeld ==
  ASSUME TypeOK, host.literal = <<>>, NEW k \in 0 .. Len(zone[Asked].records)
  PROVE  Off(k) \in Nat /\ Off(k) <= Len(Reply)
<1>1. zone \in Zones /\ Asked \in {A, AAAA} /\ Name \in Seq(Octet)
  BY AskedType, QueryShape DEF TypeOK
<1> DEFINE o == OctetsOf(zone[Asked].records)
           f == FlattenSeq(o)
           b == BaseOf(Name)
           r == ReplyTo(zone, Name, Asked)
<1>2. o \in Seq(Seq(Octet)) /\ Len(o) = Len(zone[Asked].records)
  BY <1>1, OctetsType
<1>3. b \in Nat /\ Len(r) = b + Len(f) /\ Len(f) \in Nat
  BY <1>1, ReplyIs, Zenon
<1>4. Off(k) = b + Len(Joined(o, k))
  BY Zenon DEF Off, OffOf
<1> HIDE DEF o, f, b, r
<1>5. k \in 0 .. Len(o)
  BY <1>2
<1>6. Len(Joined(o, k)) \in Nat /\ Len(Joined(o, k)) <= Len(f)
  BY <1>2, <1>5, JoinedType, JoinedBegins, Zenon DEF f
<1>7. Off(k) \in Nat /\ Off(k) <= Len(r)
  BY <1>3, <1>4, <1>6
<1> QED
  BY <1>7 DEF Reply, r

\* A record of an answer that is whole or was cut short.
LEMMA RecordParsed ==
  ASSUME TypeOK, host.literal = <<>>, Begins(message, Reply), healthy => message = Reply,
         zone[Asked].rcode = 0, Aligned, ancount > 0
  PROVE  /\ at + NameLength(message, at) \in Nat
         /\ \A u \in {A, AAAA} : u # Asked => Now(u) = <<>>
         /\ \/ AlignedAt(ancount - 1, NextAt, Got(Asked) \o Now(Asked))
            \/ CutOffAt(NextAt, Got(Asked) \o Now(Asked))
<1> DEFINE t == Asked
           R == zone[t].records
           V == [1 .. Size(t) -> Octet]
           i == at + NameLength(message, at)
           got == Got(t)
<1>1. zone \in Zones /\ t \in {A, AAAA} /\ Name \in Seq(Octet) /\ message \in Seq(Octet)
  BY AskedType, QueryShape DEF TypeOK
<1>2. Len(R) \in Nat
  BY <1>1, ZoneTypes
<1>3. PICK k \in 0 .. Len(R) :
        /\ ancount = Len(R) - k
        /\ at = Off(k) /\ at <= Len(message)
        /\ got = Joined(Picked, k)
  BY Zenon DEF Aligned, AlignedAt
<1>4. k \in 0 .. Len(R) - 1 /\ k + 1 \in 1 .. Len(R) /\ k + 1 \in 0 .. Len(R)
      /\ ancount - 1 = Len(R) - (k + 1) /\ k \in Nat
  <2> HIDE DEF R
  <2> QED
    BY <1>2, <1>3
<1> DEFINE r == R[k + 1]
           e == Encoded(r)
<1>5. /\ r.name \in Seq(Octet) /\ r.type \in Nat /\ r.data \in Seq(Octet)
      /\ IsRecord(r, t)
  BY <1>1, <1>4, ZoneTypes, Zenon
<1>6. Holds(message, at, e) /\ Off(k + 1) = at + Len(e)
  <2>1. /\ Holds(message, OffOf(zone, Name, t, k), e)
        /\ OffOf(zone, Name, t, k + 1) = OffOf(zone, Name, t, k) + Len(e)
    <3>1. OffOf(zone, Name, t, k) <= Len(message) /\ Begins(message, ReplyTo(zone, Name, t))
      BY <1>3, Zenon DEF Off, Reply
    <3> QED
      BY <1>1, <1>4, <3>1, RecordHeld, Zenon
  <2> QED
    BY <1>3, <2>1, Zenon DEF Off
<1>7. IsRead(message, at, i, r, t)
  BY <1>1, <1>5, <1>6, RecordRead, Zenon
<1>8. Off(k + 1) \in Nat /\ Off(k + 1) <= Len(Reply)
  BY <1>4, OffHeld, Zenon
<1>9. /\ Picked \in Seq(Seq(V)) /\ Len(Picked) = Len(R)
      /\ Picked[k + 1] = IF r.type = t THEN <<r.data>> ELSE <<>>
  BY <1>1, <1>4, PickedType, Zenon DEF Picked
<1>10. Joined(Picked, k + 1) = got \o Picked[k + 1]
  BY <1>3, <1>4, <1>9, JoinedNext, Zenon
<1>11. NextAt = i + 10 + WordAt(message, i + 8) /\ Now(t) = Taken(message, i, t)
       /\ \A u \in {A, AAAA} : Now(u) = Taken(message, i, u)
  <2>1. /\ NextAt = i + (10 + WordAt(message, i + 8)) /\ Now(t) = Taken(message, i, t)
        /\ \A u \in {A, AAAA} : Now(u) = Taken(message, i, u)
    BY Zenon DEF NextAt, Now
  <2>2. i \in Nat
    BY <1>7, Zenon DEF IsRead
  <2> HIDE DEF i
  <2>3. i + 8 \in Nat
    BY <2>2
  <2>4. WordAt(message, i + 8) \in Nat
    BY <1>1, <2>3, WordAtIs DEF IsWordAt
  <2>5. i + (10 + WordAt(message, i + 8)) = i + 10 + WordAt(message, i + 8)
    BY <2>2, <2>4
  <2> QED
    BY <2>1, <2>5, Zenon
<1>12. Listed(t) = FlattenSeq(Picked) /\ Listed(t) \in Seq(Seq(Octet))
  BY <1>1, ListedIs, Zenon DEF Picked
<1>13. i \in Nat /\ \A u \in {A, AAAA} : u # t => Taken(message, i, u) = <<>>
  BY <1>7, Zenon DEF IsRead
<1> HIDE DEF R, V, i, got, r, e, t
<1>14. got \in Seq(V)
  <2>1. k \in 0 .. Len(Picked)
    BY <1>3, <1>9
  <2> QED
    BY <1>3, <1>9, <2>1, JoinedType, Zenon
<1>15. V \subseteq Seq(Octet)
  BY <1>1, SizeIs DEF V
<1>16. got \in Seq(Seq(Octet))
  BY <1>14, <1>15, SeqMonotonic, Zenon
<1>17. Begins(got, Listed(t))
  <2>1. k \in 0 .. Len(Picked)
    BY <1>3, <1>9
  <2>2. /\ Len(Joined(Picked, k)) <= Len(FlattenSeq(Picked))
        /\ \A j \in 1 .. Len(Joined(Picked, k)) : FlattenSeq(Picked)[j] = Joined(Picked, k)[j]
    BY <1>9, <2>1, JoinedBegins, Zenon
  <2> QED
    BY <1>3, <1>12, <2>2 DEF Begins
<1>18. CASE /\ at + Len(e) <= Len(message)
            /\ i + 10 + WordAt(message, i + 8) = at + Len(e)
            /\ Taken(message, i, t) = IF r.type = t THEN <<r.data>> ELSE <<>>
  <2>1. NextAt = Off(k + 1) /\ NextAt <= Len(message)
    BY <1>6, <1>11, <1>18
  <2>2. got \o Now(t) = Joined(Picked, k + 1)
    BY <1>9, <1>10, <1>11, <1>18
  <2>3. AlignedAt(ancount - 1, NextAt, got \o Now(t))
    BY <1>4, <2>1, <2>2, Zenon DEF AlignedAt, R, t
  <2> QED
    BY <1>11, <1>13, <2>3, Zenon DEF got, t, i
<1>19. CASE /\ at + Len(e) > Len(message)
            /\ i + 10 + WordAt(message, i + 8) >= Len(message)
            /\ \/ Taken(message, i, t) = <<>>
               \/ r.type = t /\ \E n \in 0 .. Len(r.data) : Taken(message, i, t) = <<CutAt(r.data, n)>>
  <2>1. ~healthy
    <3>1. message # Reply
      <4>1. Len(message) \in Nat /\ Off(k + 1) > Len(message)
        BY <1>1, <1>6, <1>19, LenProperties
      <4>2. Len(message) # Len(Reply)
        BY <1>8, <4>1
      <4> QED
        BY <4>2
    <3> QED
      BY <3>1
  <2>2. NextAt >= Len(message)
    BY <1>11, <1>19
  <2>3. StartOf(got \o Now(t), Listed(t))
    <3>1. CASE Taken(message, i, t) = <<>>
      <4>1. got \o Now(t) = got
        <5>1. \A s \in Seq(V) : s \o <<>> = s
          OBVIOUS
        <5> QED
          BY <1>11, <1>14, <3>1, <5>1
      <4> QED
        BY <1>12, <1>16, <1>17, <4>1, FirstFound, Zenon
    <3>2. CASE r.type = t /\ \E n \in 0 .. Len(r.data) : Taken(message, i, t) = <<CutAt(r.data, n)>>
      <4>1. PICK n \in 0 .. Len(r.data) : Taken(message, i, t) = <<CutAt(r.data, n)>>
        BY <3>2
      <4>2. Picked[k + 1] = <<r.data>>
        BY <1>9, <3>2
      <4>3. Picked \in Seq(Seq(V)) /\ k \in 0 .. Len(Picked) - 1
        BY <1>4, <1>9
      <4>4. /\ Len(Joined(Picked, k + 1)) = Len(Joined(Picked, k)) + Len(Picked[k + 1])
            /\ Len(Joined(Picked, k)) + Len(Picked[k + 1]) <= Len(FlattenSeq(Picked))
            /\ \A j \in 1 .. Len(Picked[k + 1]) :
                 FlattenSeq(Picked)[Len(Joined(Picked, k)) + j] = Picked[k + 1][j]
        BY <4>3, PartAt
      <4>5. Len(<<r.data>>) = 1 /\ <<r.data>>[1] = r.data /\ 1 \in 1 .. 1
        OBVIOUS
      <4>6. Len(got) + 1 <= Len(Listed(t)) /\ Listed(t)[Len(got) + 1] = r.data
        BY <1>3, <1>12, <4>2, <4>4, <4>5
      <4>7. Len(got) < Len(Listed(t))
        <5>1. Len(got) \in Nat /\ Len(Listed(t)) \in Nat
          BY <1>12, <1>16, LenProperties
        <5> QED
          BY <4>6, <5>1
      <4>8. n \in 0 .. Len(Listed(t)[Len(got) + 1])
        BY <4>1, <4>6, Zenon
      <4>9. StartOf(got \o <<CutAt(Listed(t)[Len(got) + 1], n)>>, Listed(t))
        BY <1>12, <1>16, <1>17, <4>7, <4>8, PartFound, Zenon
      <4>10. Now(t) = <<CutAt(r.data, n)>>
        BY <1>11, <4>1, Zenon
      <4>11. <<CutAt(Listed(t)[Len(got) + 1], n)>> = Now(t)
        BY <4>6, <4>10, Zenon
      <4> QED
        BY <4>9, <4>11, Zenon
    <3> QED
      BY <1>19, <3>1, <3>2
  <2>4. CutOffAt(NextAt, got \o Now(t))
    BY <2>1, <2>2, <2>3, Zenon DEF CutOffAt, t
  <2> QED
    BY <1>11, <1>13, <2>4, Zenon DEF got, t, i
<1> QED
  BY <1>7, <1>18, <1>19, Zenon DEF IsRead, e

\* After the end of an answer that was cut short nothing more is found.
LEMMA NothingParsed ==
  ASSUME TypeOK, CutOff
  PROVE  /\ at + NameLength(message, at) \in Nat
         /\ \A u \in {A, AAAA} : Now(u) = <<>>
         /\ CutOffAt(NextAt, Got(Asked) \o Now(Asked))
<1>1. message \in Seq(Octet) /\ at \in Nat /\ at >= Len(message) /\ Len(message) \in Nat
  BY LenProperties DEF TypeOK, CutOff, CutOffAt
<1>2. NameLength(message, at) = 0 /\ WordAt(message, at) = 0 /\ WordAt(message, at + 8) = 0
  BY <1>1, NothingLeft
<1>3. at + NameLength(message, at) = at
  BY <1>1, <1>2
<1>4. \A u \in {A, AAAA} : Now(u) = <<>>
  BY <1>1, <1>2, <1>3, NothingTaken DEF Now
<1>5. NextAt = at + 10
  BY <1>1, <1>2, <1>3 DEF NextAt
<1>6. NextAt >= Len(message)
  BY <1>1, <1>5
<1>7. Got(Asked) \o Now(Asked) = Got(Asked)
  <2>1. Asked \in {A, AAAA}
    BY AskedType
  <2>2. Now(Asked) = <<>>
    BY <1>4, <2>1
  <2>3. Got(Asked) \in Seq(Seq(Octet))
    <3>1. Got(Asked) = address \/ Got(Asked) = address6
      BY DEF Got
    <3>2. address \in Seq(Seq(Octet)) /\ address6 \in Seq(Seq(Octet))
      BY AddressesAreSequences DEF TypeOK, V4, V6
    <3> QED
      BY <3>1, <3>2
  <2>4. \A s \in Seq(Seq(Octet)) : s \o <<>> = s
    <3> DEFINE O == Seq(Octet)
    <3> HIDE DEF O
    <3>1. \A s \in Seq(O) : s \o <<>> = s
      OBVIOUS
    <3> QED
      BY <3>1 DEF O
  <2> QED
    BY <2>2, <2>3, <2>4
<1>8. CutOffAt(NextAt, Got(Asked) \o Now(Asked))
  BY <1>6, <1>7 DEF CutOff, CutOffAt
<1> QED
  BY <1>1, <1>3, <1>4, <1>8

\* What is taken of a record are addresses.
LEMMA NowType ==
  ASSUME TypeOK, at + NameLength(message, at) \in Nat
  PROVE  /\ NextAt \in Nat
         /\ Now(A) \in Seq([1 .. V4 -> Octet]) /\ Now(AAAA) \in Seq([1 .. V6 -> Octet])
<1> DEFINE i == at + NameLength(message, at)
<1>1. message \in Seq(Octet) /\ i \in Nat
  BY DEF TypeOK
<1>2. NextAt = i + (10 + WordAt(message, i + 8)) /\ \A u : Now(u) = Taken(message, i, u)
  BY Zenon DEF NextAt, Now
<1> HIDE DEF i
<1>3. i + 8 \in Nat /\ i + 10 \in Nat
  BY <1>1
<1>4. WordAt(message, i + 8) \in Nat
  BY <1>1, <1>3, WordAtIs DEF IsWordAt
<1>5. NextAt \in Nat
  BY <1>1, <1>2, <1>4
<1>6. ASSUME NEW u \in {A, AAAA}
      PROVE  Now(u) \in Seq([1 .. Size(u) -> Octet])
  <2>1. AddressesAt(message, i + 10, WordAt(message, i + 8), Size(u)) \in Seq([1 .. Size(u) -> Octet])
    BY <1>1, <1>3, <1>4, SizeIs, AddressesType
  <2>2. <<>> \in Seq([1 .. Size(u) -> Octet])
    <3> DEFINE V == [1 .. Size(u) -> Octet]
    <3> HIDE DEF V
    <3>1. <<>> \in Seq(V)
      OBVIOUS
    <3> QED
      BY <3>1 DEF V
  <2> QED
    BY <1>2, <2>1, <2>2, Zenon DEF Taken
<1>7. A \in {A, AAAA} /\ AAAA \in {A, AAAA} /\ Size(A) = V4 /\ Size(AAAA) = V6
  BY DEF Size, A, AAAA
<1>8. Now(A) \in Seq([1 .. Size(A) -> Octet]) /\ Now(AAAA) \in Seq([1 .. Size(AAAA) -> Octet])
  BY <1>6, <1>7, Zenon
<1> QED
  BY <1>5, <1>7, <1>8, Zenon

\* parseAnswerFormat keeps it: it goes from record to record.
LEMMA ParseRecordInv ==
  ASSUME IInv, ParseRecord
  PROVE  IInv'
<1>1. /\ pc = "records" /\ TypeOK /\ host.literal = <<>>
      /\ ancount > 0 /\ ancount' = ancount - 1
      /\ address' = address \o Now(A) /\ address6' = address6 \o Now(AAAA)
      /\ at' = NextAt
      /\ UNCHANGED <<world, pc, familyFlag, query, wire, message, outcome>>
  BY ParseIs
<1>2. /\ received = <<>> /\ reply = <<>>
      /\ Begins(message, Reply) /\ (healthy => message = Reply)
      /\ zone[Asked].rcode = 0
      /\ Aligned \/ CutOff
  BY <1>1 DEF IInv, InRecords
<1>3. /\ at + NameLength(message, at) \in Nat
      /\ \A u \in {A, AAAA} : u # Asked => Now(u) = <<>>
      /\ \/ AlignedAt(ancount - 1, NextAt, Got(Asked) \o Now(Asked))
         \/ CutOffAt(NextAt, Got(Asked) \o Now(Asked))
  <2>1. CASE Aligned
    BY <1>1, <1>2, <2>1, RecordParsed, Zenon
  <2>2. CASE CutOff
    BY <1>1, <2>2, NothingParsed, Zenon
  <2> QED
    BY <1>2, <2>1, <2>2
<1>4. /\ NextAt \in Nat
      /\ Now(A) \in Seq([1 .. V4 -> Octet]) /\ Now(AAAA) \in Seq([1 .. V6 -> Octet])
  BY <1>1, <1>3, NowType
<1>5. address \in Seq([1 .. V4 -> Octet]) /\ address6 \in Seq([1 .. V6 -> Octet])
  BY <1>1 DEF TypeOK
<1> DEFINE V == [1 .. V4 -> Octet]
           W == [1 .. V6 -> Octet]
<1>6. /\ address' \in Seq(V) /\ address6' \in Seq(W)
      /\ Now(A) = <<>> => address' = address
      /\ Now(AAAA) = <<>> => address6' = address6
  <2> HIDE DEF V, W
  <2> QED
    BY <1>1, <1>4, <1>5 DEF V, W
<1>7. Asked \in {A, AAAA} /\ (familyFlag = 0 => Asked = A) /\ (familyFlag = 1 => Asked = AAAA)
      /\ familyFlag \in {0, 1} /\ A # AAAA
  BY <1>1, AskedType DEF TypeOK, A, AAAA
<1> USE DEF world, query, wire, outcome
<1>8. /\ Reply' = Reply /\ Picked' = Picked /\ Asked' = Asked /\ Port' = Port
      /\ \A t : Listed(t)' = Listed(t)
      /\ \A k : Off(k)' = Off(k)
  BY <1>1, Same
<1>9. Got(Asked)' = Got(Asked) \o Now(Asked)
  BY <1>1, <1>7, <1>8, Zenon DEF Got
<1>10. IF familyFlag = 0 THEN address6' = address6 ELSE address' = address
  BY <1>3, <1>6, <1>7
<1>11. TypeOK'
  <2>1. tried = <<>>
    BY <1>1 DEF IInv, Tried
  <2>2. Len(tried') <= Len(Candidates')
    <3> HIDE DEF V, W
    <3>1. Candidates' \in Seq(W \cup V)
      BY <1>6 DEF Candidates
    <3>2. Len(Candidates') \in Nat /\ Len(tried') = 0
      BY <1>1, <2>1, <3>1
    <3> QED
      BY <3>2
  <2>3. ancount' \in Nat
    BY <1>1, SMTT(30) DEF TypeOK
  <2> QED
    BY <1>1, <1>4, <1>6, <2>2, <2>3 DEF TypeOK
<1>12. InRecords'
  <2>1. ASSUME AlignedAt(ancount - 1, NextAt, Got(Asked) \o Now(Asked))
        PROVE  Aligned'
    BY <1>1, <1>8, <1>9, <2>1 DEF Aligned, AlignedAt
  <2>2. ASSUME CutOffAt(NextAt, Got(Asked) \o Now(Asked))
        PROVE  CutOff'
    BY <1>1, <1>8, <1>9, <2>2 DEF CutOff, CutOffAt
  <2>3. (Aligned \/ CutOff)'
    BY <1>3, <2>1, <2>2
  <2> QED
    BY <1>1, <1>2, <1>8, <2>3 DEF InRecords
<1>13. Families'
  <2>1. IF familyFlag = 0 THEN address6 = <<>> ELSE Found(address, A)
    BY <1>1 DEF IInv, Families
  <2>2. sin_port = Port
    BY <1>1 DEF IInv, Families
  <2> QED
    BY <1>1, <1>8, <1>10, <2>1, <2>2 DEF Families, Found
<1>14. (AtStart /\ InQuery /\ InAnswer /\ InConnect)'
  BY <1>1 DEF AtStart, InQuery, InAnswer, InConnect
<1>15. Tried'
  BY <1>1 DEF IInv, Tried
<1> QED
  BY <1>11, <1>12, <1>13, <1>14, <1>15 DEF IInv

\* The query for the other family.
LEMMA NextQuery ==
  ASSUME TypeOK, host.literal = <<>>, host' = host, familyFlag' = 1
  PROVE  Len(Query') \in Nat
<1>1. host \in Hosts
  BY DEF TypeOK
<1>2. host.labels \in Seq(Seq(Octet)) /\ IsName(host.labels)
  BY <1>1, HostTypes
<1>3. Question(Text(host.labels)) = Name /\ Name \in Seq(Nat)
  BY <1>2, QuestionIsWireName, QueryShape DEF Name
<1>4. QType(familyFlag') = AAAA /\ AAAA \in {A, AAAA}
  BY DEF QType
<1>5. DNSStructure' = ((QueryHeader \o Name) \o Word(AAAA)) \o Word(1)
  <2>1. DNSStructure' = ((QueryHeader \o Question(Text(host.labels))) \o Word(QType(familyFlag'))) \o Word(1)
    BY Zenon DEF DNSStructure, QueryHeader
  <2> QED
    BY <1>3, <1>4, <2>1, Zenon
<1>6. DNSStructure' = QueryHeader \o QuestionOf(Name, AAAA)
  BY <1>3, <1>4, <1>5, HeaderFirst, Zenon
<1>7. Query' = <<Len(DNSStructure')>> \o DNSStructure'
  BY Zenon DEF Query
<1>8. Query' = QueryOf(Name, AAAA)
  BY <1>6, <1>7, Zenon DEF QueryOf
<1>9. QueryOf(Name, AAAA) \in Seq(Nat)
  BY <1>3, <1>4, QueryOfType, Zenon
<1> QED
  BY <1>8, <1>9, LenProperties, Zenon

\* What is known when an answer was refused, or all of its records were read.
LEMMA AnswerIsDone ==
  ASSUME IInv, AnswerFailed \/ AnswerParsed
  PROVE  /\ TypeOK /\ host.literal = <<>> /\ pc \in {"answer", "records"}
         /\ received = <<>> /\ reply = <<>> /\ Found(Got(Asked), Asked)
         /\ AnswerParsed => zone[Asked].rcode = 0
<1>1. TypeOK
  BY DEF IInv
<1>2. zone \in Zones /\ Asked \in {A, AAAA}
  BY <1>1, AskedType DEF TypeOK
<1>3. Listed(Asked) \in Seq(Seq(Octet))
  BY <1>1, <1>2, ListedIs
<1>4. CASE AnswerFailed
  <2>1. /\ TypeOK /\ host.literal = <<>> /\ pc = "answer" /\ Got(Asked) = <<>>
        /\ received = <<>> /\ reply = <<>> /\ IsAnswer(message) /\ Refused(message)
    BY <1>4, EndedIs DEF AnswerFailed
  <2>2. Found(<<>>, Asked)
    <3>1. CASE healthy
      <4>1. message = Reply /\ message \in Seq(Octet)
        BY <2>1, <3>1 DEF IsAnswer
      <4>2. HasHeader(Reply, zone[Asked].rcode, Len(zone[Asked].records))
        BY <2>1, ReplyType
      <4>3. zone[Asked].rcode \in 0 .. 15
        BY <1>2, ZoneTypes
      <4>4. Begins(message, Reply)
        BY <4>1, BeginsItself
      <4>5. zone[Asked].rcode # 0
        BY <2>1, <4>1, <4>2, <4>3, <4>4, RefusedIs, Zenon
      <4>6. Listed(Asked) = <<>>
        BY <1>1, <1>2, <2>1, <4>5, ListedIs
      <4> QED
        BY <3>1, <4>6 DEF Found
    <3>2. CASE ~healthy
      <4>1. StartOf(<<>>, Listed(Asked))
        BY <1>3, NothingFound
      <4> QED
        BY <3>2, <4>1 DEF Found
    <3> QED
      BY <3>1, <3>2
  <2>3. ~AnswerParsed
    BY <2>1 DEF AnswerParsed
  <2> QED
    BY <2>1, <2>2, <2>3
<1>5. CASE AnswerParsed
  <2>1. pc = "records" /\ ancount = 0
    BY <1>5 DEF AnswerParsed
  <2>2. /\ host.literal = <<>> /\ received = <<>> /\ reply = <<>>
        /\ zone[Asked].rcode = 0 /\ (Aligned \/ CutOff)
    BY <2>1 DEF IInv, InRecords, Families
  <2>3. CASE Aligned
    <3>1. PICK k \in 0 .. Len(zone[Asked].records) :
            ancount = Len(zone[Asked].records) - k /\ Got(Asked) = Joined(Picked, k)
      BY <2>3, Zenon DEF Aligned, AlignedAt
    <3>2. Len(zone[Asked].records) \in Nat
      BY <1>2, ZoneTypes
    <3>3. k = Len(zone[Asked].records)
      BY <2>1, <3>1, <3>2
    <3>4. /\ Picked \in Seq(Seq([1 .. Size(Asked) -> Octet]))
          /\ Len(Picked) = Len(zone[Asked].records)
      BY <1>2, PickedType DEF Picked
    <3>5. Joined(Picked, Len(Picked)) = FlattenSeq(Picked)
      BY <3>4, JoinedEnds, Zenon
    <3>6. Listed(Asked) = FlattenSeq(Picked)
      BY <1>1, <1>2, <2>2, ListedIs, Zenon DEF Picked
    <3>7. Got(Asked) = Listed(Asked)
      BY <3>1, <3>3, <3>4, <3>5, <3>6
    <3>8. StartOf(Listed(Asked), Listed(Asked))
      <4>1. Begins(Listed(Asked), Listed(Asked))
        BY <1>3, LenProperties DEF Begins
      <4> QED
        BY <1>3, <4>1, FirstFound
    <3>9. Found(Got(Asked), Asked)
      BY <3>7, <3>8 DEF Found
    <3> QED
      BY <1>1, <2>1, <2>2, <3>9
  <2>4. CASE CutOff
    <3>1. Found(Got(Asked), Asked)
      BY <2>4 DEF CutOff, CutOffAt, Found
    <3> QED
      BY <1>1, <2>1, <2>2, <3>1
  <2> QED
    BY <2>2, <2>3, <2>4
<1> QED
  BY <1>4, <1>5

\* The AAAA query keeps it: the addresses of the A query are complete.
LEMMA SwitchFamilyInv ==
  ASSUME IInv, SwitchFamily
  PROVE  IInv'
<1>1. /\ AnswerFailed \/ AnswerParsed
      /\ familyFlag = 0 /\ familyFlag' = 1 /\ pc' \in {"query", "lost"}
      /\ doh_query' = <<>> /\ sentBytes' = 0 /\ message' = <<>>
      /\ UNCHANGED <<world, pendingBytes, sin_port, failures, found, wire, at, ancount, outcome>>
  BY DEF SwitchFamily, resetDoH
<1>2. /\ TypeOK /\ host.literal = <<>> /\ pc \in {"answer", "records"}
      /\ received = <<>> /\ reply = <<>> /\ Found(Got(Asked), Asked)
  BY <1>1, AnswerIsDone
<1>3. Asked = A /\ Asked' = AAAA /\ A # AAAA
  BY <1>1 DEF Asked, QType, A, AAAA
<1>4. address6 = <<>> /\ sin_port = Port
  BY <1>1, <1>2 DEF IInv, Families
<1> USE DEF world, found, wire, outcome
<1>5. Len(Query') \in Nat
  BY <1>1, <1>2, NextQuery
<1>6. \A t : Listed(t)' = Listed(t)
  BY <1>1 DEF Listed
<1>7. TypeOK'
  <2>1. UNCHANGED Candidates
    BY <1>1 DEF Candidates
  <2>2. <<>> \in Seq(Octet) /\ <<>> \in Seq(Nat)
    OBVIOUS
  <2> QED
    BY <1>1, <1>2, <2>1, <2>2 DEF TypeOK
<1>8. InQuery'
  <2>1. Prepared' = Query' /\ Pending' = Len(Query')
    BY <1>1 DEF Prepared, Pending, StartsQuery
  <2>2. SubSeq(Query', 1, 0) = <<>>
    BY SubSeqEmpty
  <2>3. Received(sentBytes)'
    BY <1>1, <1>2, <2>2 DEF Received
  <2>4. 0 + Len(Query') = Len(Query')
    BY <1>5
  <2> QED
    BY <1>1, <1>2, <2>1, <2>3, <2>4 DEF InQuery
<1>9. Families'
  BY <1>1, <1>2, <1>3, <1>4, <1>6 DEF Families, Got, Found
<1>10. (AtStart /\ InAnswer /\ InRecords /\ InConnect)'
  BY <1>1 DEF AtStart, InAnswer, InRecords, InConnect
<1>11. Tried'
  BY <1>1, <1>2 DEF IInv, Tried
<1> QED
  BY <1>7, <1>8, <1>9, <1>10, <1>11 DEF IInv

\* The end of the AAAA query keeps it.
LEMMA LookupDoneInv ==
  ASSUME IInv, LookupDone
  PROVE  IInv'
<1>1. /\ familyFlag = 1
      /\ (AnswerFailed /\ pc' = "error") \/ (AnswerParsed /\ pc' = "connect")
      /\ UNCHANGED <<world, familyFlag, query, found, wire, parsing, outcome>>
  BY DEF LookupDone
<1>2. CASE pc' = "error"
  BY <1>1, <1>2, ErrorInv
<1>3. CASE AnswerParsed /\ pc' = "connect"
  <2>1. /\ TypeOK /\ host.literal = <<>> /\ pc \in {"answer", "records"}
        /\ Found(Got(Asked), Asked) /\ zone[Asked].rcode = 0
    BY <1>3, AnswerIsDone
  <2>2. Asked = AAAA /\ A # AAAA
    BY <1>1 DEF Asked, QType, A, AAAA
  <2>3. Found(address6, AAAA) /\ Found(address, A) /\ sin_port = Port
    BY <1>1, <2>1, <2>2 DEF IInv, Families, Got
  <2> USE DEF world, query, found, wire, parsing, outcome
  <2>4. Port' = Port /\ \A t : Listed(t)' = Listed(t)
    BY <1>1, Same
  <2>5. TypeOK'
    BY <1>1, <1>3, <2>1 DEF TypeOK, Candidates
  <2>6. InConnect'
    BY <1>1, <2>1, <2>2, <2>3, <2>4 DEF InConnect, Found
  <2>7. Families'
    BY <1>1, <1>3, <2>3, <2>4 DEF Families
  <2>8. (AtStart /\ InQuery /\ InAnswer /\ InRecords)'
    BY <1>3 DEF AtStart, InQuery, InAnswer, InRecords
  <2>9. Tried'
    BY <1>1, <2>1 DEF IInv, Tried
  <2> QED
    BY <2>5, <2>6, <2>7, <2>8, <2>9 DEF IInv
<1> QED
  BY <1>1, <1>2, <1>3

\* The addresses to be tried.
LEMMA CandidatesAre ==
  ASSUME TypeOK
  PROVE  /\ Candidates \in Seq(Address)
         /\ IsJoin(Address, Candidates, address6, address)
<1> DEFINE N == Address
<1>1. [1 .. V4 -> Octet] \subseteq N /\ [1 .. V6 -> Octet] \subseteq N
  BY DEF Address
<1>2. address \in Seq(N) /\ address6 \in Seq(N)
  BY <1>1, SeqMonotonic, Zenon DEF TypeOK
<1> HIDE DEF N
<1>3. IsJoin(N, address6 \o address, address6, address)
  BY <1>2, BothParts, Zenon
<1>4. address6 \o address \in Seq(N)
  BY <1>3, Zenon DEF IsJoin
<1> QED
  BY <1>3, <1>4, Zenon DEF Candidates, N

\* A connect() that fails keeps it.
LEMMA ConnectFailsInv ==
  ASSUME IInv, ConnectFails
  PROVE  IInv'
<1>1. /\ pc = "connect" /\ Len(tried) < Len(Candidates)
      /\ ~IsOwn(Candidate) /\ Candidate \in down
      /\ tried' = Append(tried, Candidate)
      /\ UNCHANGED <<world, pc, familyFlag, query, found, wire, parsing, server>>
  BY DEF ConnectFails, Trying
<1>2. TypeOK /\ tried \in Seq(Address) /\ Candidates \in Seq(Address)
  BY CandidatesAre DEF IInv, Tried
<1>3. Len(tried) \in Nat /\ Len(Candidates) \in Nat
  BY <1>2, LenProperties
<1>4. Candidate \in Address
  <2>1. Len(tried) + 1 \in 1 .. Len(Candidates)
    BY <1>1, <1>3
  <2> QED
    BY <1>2, <2>1, ElementOfSeq, Zenon DEF Candidate
<1>5. /\ tried' \in Seq(Address) /\ Len(tried') = Len(tried) + 1
      /\ tried'[Len(tried) + 1] = Candidate
      /\ \A k \in 1 .. Len(tried) : tried'[k] = tried[k]
  BY <1>1, <1>2, <1>4, AppendProperties
<1> USE DEF world, query, found, wire, parsing
<1>6. UNCHANGED Candidates /\ \A a : IsOwn(a)' = IsOwn(a)
  BY <1>1 DEF Candidates, IsOwn
<1>7. TypeOK'
  <2>1. Len(tried') <= Len(Candidates')
    BY <1>1, <1>3, <1>5, <1>6
  <2> QED
    BY <1>1, <1>2, <2>1 DEF TypeOK
<1>8. Tried'
  <2>1. \A k \in DOMAIN tried : tried[k] = Candidates[k] /\ tried[k] \in down /\ ~IsOwn(tried[k])
    BY DEF IInv, Tried
  <2>2. ASSUME NEW k \in DOMAIN tried'
        PROVE  tried'[k] = Candidates[k] /\ tried'[k] \in down /\ ~IsOwn(tried'[k])
    <3>1. k \in 1 .. Len(tried) + 1
      BY <1>5
    <3>2. CASE k = Len(tried) + 1
      BY <1>1, <1>5, <3>2 DEF Candidate
    <3>3. CASE k # Len(tried) + 1
      <4>1. k \in 1 .. Len(tried) /\ k \in DOMAIN tried
        BY <1>2, <1>3, <3>1, <3>3
      <4>2. tried'[k] = tried[k]
        BY <1>5, <4>1
      <4> QED
        BY <2>1, <4>1, <4>2, Zenon
    <3> QED
      BY <3>2, <3>3
  <2> QED
    BY <1>1, <1>5, <1>6, <2>2 DEF Tried
<1>9. Port' = Port /\ \A t : Listed(t)' = Listed(t)
  BY <1>1, Same
<1>10. InConnect'
  BY <1>1, <1>9 DEF IInv, InConnect, Found
<1>11. Families'
  BY <1>1, <1>9 DEF IInv, Families
<1>12. (AtStart /\ InQuery /\ InAnswer /\ InRecords)'
  BY <1>1 DEF AtStart, InQuery, InAnswer, InRecords
<1> QED
  BY <1>7, <1>8, <1>10, <1>11, <1>12 DEF IInv

\* A connect() that succeeds keeps it.
LEMMA ConnectsInv ==
  ASSUME IInv, Connects
  PROVE  IInv'
<1>1. /\ pc = "connect" /\ pc' = "connected"
      /\ UNCHANGED <<world, familyFlag, query, found, wire, parsing, tried>>
  BY DEF Connects, Trying
<1> USE DEF world, query, found, wire, parsing
<1>2. TypeOK'
  BY <1>1 DEF IInv, TypeOK, Candidates
<1>3. Port' = Port /\ \A t : Listed(t)' = Listed(t)
  BY <1>1, Same
<1>4. InConnect'
  BY <1>1, <1>3 DEF IInv, InConnect, Found
<1>5. Families'
  BY <1>1, <1>3 DEF IInv, Families
<1>6. (AtStart /\ InQuery /\ InAnswer /\ InRecords)'
  BY <1>1 DEF AtStart, InQuery, InAnswer, InRecords
<1>7. Tried'
  BY <1>1 DEF IInv, Tried, Candidates, IsOwn
<1> QED
  BY <1>2, <1>4, <1>5, <1>6, <1>7 DEF IInv

\* So does a step that changes nothing.
LEMMA StutterInv ==
  ASSUME IInv, UNCHANGED vars
  PROVE  IInv'
<1> USE DEF vars, world, query, found, wire, parsing, outcome
<1>1. /\ Reply' = Reply /\ Picked' = Picked /\ Asked' = Asked /\ Port' = Port /\ Query' = Query
      /\ \A t : Listed(t)' = Listed(t)
      /\ \A k : Off(k)' = Off(k)
  BY Same
<1>2. TypeOK' /\ AtStart'
  BY DEF IInv, TypeOK, AtStart, Candidates
<1>3. InQuery'
  BY <1>1 DEF IInv, InQuery, Prepared, Pending, StartsQuery, Received
<1>4. InAnswer'
  <2>1. AnswerHeader(1, 0)' = AnswerHeader(1, 0)
    BY DEF AnswerHeader
  <2> QED
    BY <1>1, <2>1 DEF IInv, InAnswer, Received, IsAnswer
<1>5. InRecords'
  BY <1>1 DEF IInv, InRecords, Aligned, AlignedAt, CutOff, CutOffAt, Got
<1>6. Families' /\ InConnect'
  BY <1>1 DEF IInv, Families, InConnect, Got, Found
<1>7. Tried'
  BY DEF IInv, Tried, Candidates, IsOwn
<1> QED
  BY <1>2, <1>3, <1>4, <1>5, <1>6, <1>7 DEF IInv

\* The invariant holds in every reachable state.
LEMMA Invariance == Spec => []IInv
<1>1. IInv /\ [Next]_vars => IInv'
  <2> SUFFICES ASSUME IInv, [Next]_vars
               PROVE  IInv'
    OBVIOUS
  <2>1. CASE HostIsAddress
    BY <2>1, HostIsAddressInv
  <2>2. CASE HostIsName
    BY <2>2, HostIsNameInv
  <2>3. CASE MakeRequest
    BY <2>3, MakeRequestInv
  <2>4. CASE SendFails
    BY <2>4, SendFailsInv
  <2>5. CASE ServerAnswers
    BY <2>5, ServerAnswersInv
  <2>6. CASE ReadResponse
    BY <2>6, ReadResponseInv
  <2>7. CASE AnswerAccepted
    BY <2>7, AnswerAcceptedInv
  <2>8. CASE ParseRecord
    BY <2>8, ParseRecordInv
  <2>9. CASE SwitchFamily
    BY <2>9, SwitchFamilyInv
  <2>10. CASE LookupDone
    BY <2>10, LookupDoneInv
  <2>11. CASE Recursive
    BY <2>11, ErrorInv DEF Recursive
  <2>12. CASE ConnectFails
    BY <2>12, ConnectFailsInv
  <2>13. CASE Connects
    BY <2>13, ConnectsInv
  <2>14. CASE NoCandidates
    BY <2>14, ErrorInv DEF NoCandidates
  <2>15. CASE UNCHANGED vars
    BY <2>15, StutterInv
  <2> QED
    BY <2>1, <2>2, <2>3, <2>4, <2>5, <2>6, <2>7, <2>8, <2>9, <2>10, <2>11, <2>12, <2>13,
       <2>14, <2>15 DEF Next
<1> QED
  BY <1>1, InitInv, PTL DEF Spec

-----------------------------------------------------------------------------
(* The theorems *)

\* Every variable of the look-up holds a value of its type in every reachable
\* state, for all hosts, zones and cuts: what is read of an answer are octets,
\* what is found in it are addresses of four and of sixteen octets, and no more
\* addresses were tried than were found.
THEOREM TypesHold == Spec => []TypeOK
<1>1. IInv => TypeOK
  BY DEF IInv
<1> QED
  BY <1>1, Invariance, PTL

\* When connections are tried (setupRemoteSocket6) the addresses that
\* parseAnswerFormat stored are those the DoH server has for the host, in their
\* order, for every zone and whatever the parts that send() takes of a query.
\* When the DoH server or send() fails they are the first ones of those, and only
\* the last may be cut short; it ends in zeros, as long as a cut message does not
\* pass the 1024 octets that are cleared (At).
THEOREM AddressesAreTheHostsHolds == Spec => []AddressesAreTheHosts
<1>1. IInv => AddressesAreTheHosts
  BY DEF IInv, InConnect, Found, AddressesAreTheHosts, Reliable, StartOf
<1> QED
  BY <1>1, Invariance, PTL

-----------------------------------------------------------------------------
(* A look-up is a step of Lookup *)

\* The addresses that stand for the proxy in Lookup.
Own == {a \in ToSet(Preferred) : a \in OwnAddresses /\ Port = ProxyPort}

\* A look-up starts as Lookup does.
LEMMA InitIsInit == Init => LookUp!Init
<1> SUFFICES ASSUME Init
             PROVE  LookUp!Init
  OBVIOUS
<1>1. pc = "start" /\ server = <<>> /\ healthy \in BOOLEAN
  BY DEF Init
<1>2. Reliable \in BOOLEAN
  BY <1>1 DEF Reliable
<1> QED
  BY <1>1, <1>2 DEF LookUp!Init, LookUp!ToSet, ToSet

\* What Lookup takes from its surroundings stays.
LEMMA WorldStays ==
  ASSUME UNCHANGED world
  PROVE  /\ Preferred' = Preferred /\ Reliable' = Reliable /\ Own' = Own
         /\ (down \cap ToSet(Preferred))' = down \cap ToSet(Preferred)
<1>1. Preferred' = Preferred /\ Port' = Port
  BY DEF world, Preferred, Listed, Port
<1>2. Reliable' = Reliable
  BY DEF world, Reliable
<1> QED
  BY <1>1, <1>2 DEF world, Own

\* A step that neither connects nor fails.
LEMMA StaysPending ==
  ASSUME UNCHANGED world, UNCHANGED server,
         pc \notin {"connected", "error"}, pc' \notin {"connected", "error"}
  PROVE  UNCHANGED LookUp!vars
BY WorldStays DEF LookUp!vars, Own

\* A step that changes nothing is none of Lookup.
LEMMA StutterStays ==
  ASSUME UNCHANGED vars
  PROVE  UNCHANGED LookUp!vars
<1>1. UNCHANGED world /\ UNCHANGED server /\ UNCHANGED pc
  BY DEF vars, outcome
<1> QED
  BY <1>1, WorldStays DEF LookUp!vars, Own

\* A step to an error, when that may happen.
LEMMA FailsAsLookup ==
  ASSUME UNCHANGED world, UNCHANGED server,
         pc \notin {"connected", "error"}, pc' = "error",
         Reliable =>
           \/ \A k \in DOMAIN Preferred : ~LookUp!Ends(k)
           \/ \E k \in DOMAIN Preferred : LookUp!First(k) /\ Preferred[k] \in Own
  PROVE  LookUp!Resolve
<1>1. LookUp!Fail
  BY DEF LookUp!Fail
<1>2. UNCHANGED <<Preferred, Own, down \cap ToSet(Preferred), Reliable>>
  BY WorldStays
<1>3. Reliable => LookUp!Ordered
  <2>1. CASE \A k \in DOMAIN Preferred : ~LookUp!Ends(k)
    BY <1>1, <2>1 DEF LookUp!Ordered
  <2>2. CASE \E k \in DOMAIN Preferred : LookUp!First(k) /\ Preferred[k] \in Own
    BY <1>1, <2>2 DEF LookUp!Ordered, Own
  <2> QED
    BY <2>1, <2>2
<1>4. LookUp!Disturbed
  BY <1>1 DEF LookUp!Disturbed
<1> QED
  BY <1>2, <1>3, <1>4 DEF LookUp!Resolve, Own

\* When connections are tried and nothing failed, the addresses to be tried are
\* those of Lookup.
LEMMA CandidatesArePreferred ==
  ASSUME IInv, pc = "connect"
  PROVE  /\ Preferred = Listed(AAAA) \o Listed(A)
         /\ Reliable => Candidates = Preferred
<1>1. Preferred = Listed(AAAA) \o Listed(A)
  BY DEF IInv, InConnect, Preferred
<1>2. Reliable => address6 = Listed(AAAA) /\ address = Listed(A)
  BY DEF IInv, InConnect, Found, Reliable
<1> QED
  BY <1>1, <1>2 DEF Candidates

\* Those that were tried end nothing.
LEMMA TriedDoNotEnd ==
  ASSUME IInv, pc = "connect", Reliable
  PROVE  /\ tried \in Seq(Address) /\ Len(tried) \in Nat
         /\ Preferred = Candidates /\ Candidates \in Seq(Address) /\ Len(Candidates) \in Nat
         /\ \A k \in 1 .. Len(tried) : k \in DOMAIN Preferred => ~LookUp!Ends(k)
         /\ \A k \in DOMAIN Preferred :
              Preferred[k] \in Own <=> IsOwn(Preferred[k])
<1>1. TypeOK /\ tried \in Seq(Address) /\ Preferred = Candidates /\ Candidates \in Seq(Address)
  BY CandidatesAre, CandidatesArePreferred DEF IInv, Tried
<1>2. Len(tried) \in Nat /\ Len(Candidates) \in Nat
  BY <1>1, LenProperties
<1>3. sin_port = Port
  BY DEF IInv, Families
<1>4. ASSUME NEW k \in DOMAIN Preferred
      PROVE  Preferred[k] \in ToSet(Preferred) /\ (Preferred[k] \in Own <=> IsOwn(Preferred[k]))
  BY <1>3 DEF ToSet, Own, IsOwn
<1>5. ASSUME NEW k \in 1 .. Len(tried), k \in DOMAIN Preferred
      PROVE  ~LookUp!Ends(k)
  <2>1. k \in DOMAIN tried
    BY <1>1
  <2>2. tried[k] = Preferred[k] /\ tried[k] \in down /\ ~IsOwn(tried[k])
    BY <1>1, <2>1 DEF IInv, Tried
  <2>3. Preferred[k] \in down \cap ToSet(Preferred) /\ Preferred[k] \notin Own
    BY <1>4, <1>5, <2>2
  <2> QED
    BY <2>3 DEF LookUp!Ends, Own
<1> QED
  BY <1>1, <1>2, <1>4, <1>5

\* An address of the proxy itself ends the look-up where Lookup ends it.
LEMMA RecursiveIsResolve ==
  ASSUME IInv, Recursive
  PROVE  LookUp!Resolve
<1>1. /\ pc = "connect" /\ Len(tried) < Len(Candidates) /\ IsOwn(Candidate) /\ pc' = "error"
      /\ UNCHANGED world /\ UNCHANGED server
  BY DEF Recursive, Trying, outcome
<1>2. ASSUME Reliable
      PROVE  \E k \in DOMAIN Preferred : LookUp!First(k) /\ Preferred[k] \in Own
  <2> DEFINE k == Len(tried) + 1
  <2>1. /\ tried \in Seq(Address) /\ Len(tried) \in Nat
        /\ Preferred = Candidates /\ Candidates \in Seq(Address) /\ Len(Candidates) \in Nat
        /\ \A m \in 1 .. Len(tried) : m \in DOMAIN Preferred => ~LookUp!Ends(m)
        /\ \A m \in DOMAIN Preferred : Preferred[m] \in Own <=> IsOwn(Preferred[m])
    BY <1>1, <1>2, TriedDoNotEnd
  <2>2. k \in DOMAIN Preferred
    BY <1>1, <2>1
  <2>3. Preferred[k] \in Own
    BY <1>1, <2>1, <2>2 DEF Candidate
  <2>4. LookUp!Ends(k)
    BY <2>3 DEF LookUp!Ends, Own
  <2>5. \A m \in 1 .. k - 1 : ~LookUp!Ends(m)
    <3>1. \A m \in 1 .. k - 1 : m \in 1 .. Len(tried) /\ m \in DOMAIN Preferred
      BY <1>1, <2>1
    <3> QED
      BY <2>1, <3>1
  <2>6. LookUp!First(k)
    BY <2>4, <2>5 DEF LookUp!First
  <2> QED
    BY <2>2, <2>3, <2>6
<1> QED
  BY <1>1, <1>2, FailsAsLookup

\* When no address is left, Lookup has none either.
LEMMA NoCandidatesIsResolve ==
  ASSUME IInv, NoCandidates
  PROVE  LookUp!Resolve
<1>1. /\ pc = "connect" /\ Len(tried) = Len(Candidates) /\ pc' = "error"
      /\ UNCHANGED world /\ UNCHANGED server
  BY DEF NoCandidates, outcome
<1>2. ASSUME Reliable
      PROVE  \A k \in DOMAIN Preferred : ~LookUp!Ends(k)
  <2>1. /\ Preferred = Candidates /\ Candidates \in Seq(Address)
        /\ \A m \in 1 .. Len(tried) : m \in DOMAIN Preferred => ~LookUp!Ends(m)
    BY <1>1, <1>2, TriedDoNotEnd
  <2>2. \A k \in DOMAIN Preferred : k \in 1 .. Len(tried)
    BY <1>1, <2>1
  <2> QED
    BY <2>1, <2>2
<1> QED
  BY <1>1, <1>2, FailsAsLookup

\* A DoH server that takes no connection fails the look-up.
LEMMA HostIsNameIsResolve ==
  ASSUME IInv, HostIsName, pc' = "error"
  PROVE  LookUp!Resolve
<1>1. /\ pc = "start" /\ host.literal = <<>> /\ ~healthy
      /\ UNCHANGED world /\ UNCHANGED server
  BY DEF HostIsName, outcome
<1>2. ~Reliable
  BY <1>1 DEF Reliable
<1> QED
  BY <1>1, <1>2, FailsAsLookup

\* A AAAA query that fails does so because the name has no addresses, or because
\* something else failed.
LEMMA LookupDoneIsResolve ==
  ASSUME IInv, LookupDone, pc' = "error"
  PROVE  LookUp!Resolve
<1>1. /\ familyFlag = 1 /\ AnswerFailed
      /\ UNCHANGED world /\ UNCHANGED server
  BY DEF LookupDone, outcome
<1>2. /\ TypeOK /\ host.literal = <<>> /\ pc = "answer"
      /\ IsAnswer(message) /\ Refused(message)
  BY <1>1, EndedIs DEF AnswerFailed
<1>3. ASSUME Reliable
      PROVE  \A k \in DOMAIN Preferred : ~LookUp!Ends(k)
  <2>1. healthy
    BY <1>2, <1>3 DEF Reliable
  <2>2. zone \in Zones /\ Asked = AAAA /\ AAAA \in {A, AAAA}
    BY <1>1, <1>2, AskedType DEF TypeOK
  <2>3. message = Reply /\ message \in Seq(Octet)
    BY <1>2, <2>1 DEF IsAnswer
  <2>4. HasHeader(Reply, zone[Asked].rcode, Len(zone[Asked].records))
    BY <1>2, ReplyType
  <2>5. zone[Asked].rcode \in 0 .. 15
    BY <2>2, ZoneTypes
  <2>6. Begins(message, Reply)
    BY <2>3, BeginsItself
  <2>7. zone[Asked].rcode # 0
    BY <1>2, <2>3, <2>4, <2>5, <2>6, RefusedIs, Zenon
  <2>8. Preferred = <<>>
    BY <1>2, <2>2, <2>7 DEF Preferred
  <2> QED
    BY <2>8
<1> QED
  BY <1>1, <1>2, <1>3, FailsAsLookup

\* An address that was found of an answer is one of the host, or its beginning.
LEMMA CandidateIsCut ==
  ASSUME IInv, pc = "connect", NEW i \in 1 .. Len(Candidates)
  PROVE  \E a \in LookUp!ToSet(Preferred) : Candidates[i] \in LookUp!CutShort(a)
<1> DEFINE l6 == Listed(AAAA)
           l4 == Listed(A)
           N == Seq(Octet)
<1>1. TypeOK /\ Preferred = l6 \o l4
  BY CandidatesArePreferred DEF IInv
<1>2. l6 \in Seq(N) /\ l4 \in Seq(N)
  BY <1>1, ListedIs
<1>3. StartOf(address6, l6) /\ StartOf(address, l4)
  <2>1. (address6 = l6 \/ StartOf(address6, l6)) /\ (address = l4 \/ StartOf(address, l4))
    BY DEF IInv, InConnect, Found
  <2>2. ASSUME NEW l \in Seq(N)
        PROVE  StartOf(l, l)
    <3>1. Begins(l, l)
      BY LenProperties DEF Begins
    <3> QED
      BY <3>1, FirstFound
  <2> QED
    BY <1>2, <2>1, <2>2
<1>4. IsJoin(Address, Candidates, address6, address)
  BY <1>1, CandidatesAre
<1>5. IsJoin(N, Preferred, l6, l4)
  <2> HIDE DEF N, l6, l4
  <2> QED
    BY <1>1, <1>2, BothParts, Zenon
<1>6. address6 \in Seq([1 .. V6 -> Octet]) /\ address \in Seq([1 .. V4 -> Octet])
  BY <1>1 DEF TypeOK
<1>7. DOMAIN address6 = 1 .. Len(address6) /\ DOMAIN address = 1 .. Len(address)
  BY <1>6
<1>8. Len(address6) <= Len(l6) /\ Len(address) <= Len(l4)
      /\ (\A k \in 1 .. Len(address6) : \E n \in 0 .. Len(l6[k]) : address6[k] = CutAt(l6[k], n))
      /\ (\A k \in 1 .. Len(address) : \E n \in 0 .. Len(l4[k]) : address[k] = CutAt(l4[k], n))
  BY <1>3, <1>7, Zenon DEF StartOf
<1> HIDE DEF l6, l4, N
<1>9. Len(l6) \in Nat /\ Len(l4) \in Nat /\ Len(address6) \in Nat /\ Len(address) \in Nat
      /\ Len(Preferred) = Len(l6) + Len(l4) /\ Len(Candidates) = Len(address6) + Len(address)
      /\ DOMAIN Preferred = 1 .. Len(Preferred)
  BY <1>4, <1>5 DEF IsJoin
<1>10. PICK p \in DOMAIN Preferred :
         \E n \in 0 .. Len(Preferred[p]) : Candidates[i] = CutAt(Preferred[p], n)
  <2>1. CASE i <= Len(address6)
    <3>1. i \in 1 .. Len(address6) /\ i \in 1 .. Len(l6) /\ i \in DOMAIN Preferred
      BY <1>8, <1>9, <2>1
    <3>2. Candidates[i] = address6[i] /\ Preferred[i] = l6[i]
      BY <1>4, <1>5, <3>1, Zenon DEF IsJoin
    <3> QED
      BY <1>8, <3>1, <3>2
  <2>2. CASE ~(i <= Len(address6))
    <3> DEFINE j == i - Len(address6)
    <3>1. /\ j \in 1 .. Len(address) /\ j \in 1 .. Len(l4) /\ i = Len(address6) + j
          /\ Len(l6) + j \in DOMAIN Preferred
      BY <1>8, <1>9, <2>2
    <3> HIDE DEF j
    <3>2. Candidates[i] = address[j] /\ Preferred[Len(l6) + j] = l4[j]
      BY <1>4, <1>5, <3>1, Zenon DEF IsJoin
    <3> QED
      BY <1>8, <3>1, <3>2
  <2> QED
    BY <2>1, <2>2
<1>11. Preferred[p] \in LookUp!ToSet(Preferred)
  BY <1>10 DEF LookUp!ToSet
<1>12. Candidates[i] \in LookUp!CutShort(Preferred[p])
  BY <1>10 DEF LookUp!CutShort, CutAt
<1> QED
  BY <1>11, <1>12

\* The address that accepts the connection is the one Lookup connects to.
LEMMA ConnectsIsResolve ==
  ASSUME IInv, Connects
  PROVE  LookUp!Resolve
<1>1. /\ pc = "connect" /\ Len(tried) < Len(Candidates)
      /\ ~IsOwn(Candidate) /\ Candidate \notin down
      /\ server' = Candidate /\ pc' = "connected" /\ UNCHANGED world
  BY DEF Connects, Trying
<1>2. UNCHANGED <<Preferred, Own, down \cap ToSet(Preferred), Reliable>>
  BY <1>1, WorldStays
<1>3. sin_port = Port
  BY <1>1 DEF IInv, Families
<1>4. Candidate \notin down \cap ToSet(Preferred) /\ Candidate \notin Own
  BY <1>1, <1>3 DEF Own, IsOwn
<1> DEFINE k == Len(tried) + 1
<1>5. LookUp!Connect(Candidate)
  BY <1>1 DEF LookUp!Connect
<1>6. ASSUME Reliable
      PROVE  LookUp!Ordered
  <2>1. /\ tried \in Seq(Address) /\ Len(tried) \in Nat
        /\ Preferred = Candidates /\ Candidates \in Seq(Address) /\ Len(Candidates) \in Nat
        /\ \A m \in 1 .. Len(tried) : m \in DOMAIN Preferred => ~LookUp!Ends(m)
    BY <1>1, <1>6, TriedDoNotEnd
  <2>2. k \in DOMAIN Preferred /\ Preferred[k] = Candidate
    BY <1>1, <2>1 DEF Candidate
  <2>3. LookUp!Ends(k)
    BY <1>4, <2>2 DEF LookUp!Ends
  <2>4. \A m \in 1 .. k - 1 : ~LookUp!Ends(m)
    <3>1. \A m \in 1 .. k - 1 : m \in 1 .. Len(tried) /\ m \in DOMAIN Preferred
      BY <1>1, <2>1
    <3> QED
      BY <2>1, <3>1
  <2>5. LookUp!First(k)
    BY <2>3, <2>4 DEF LookUp!First
  <2> QED
    BY <1>4, <1>5, <2>2, <2>5 DEF LookUp!Ordered, Own
<1>7. LookUp!Disturbed
  <2>1. k \in 1 .. Len(Candidates) /\ Candidate = Candidates[k]
    <3>1. Len(tried) \in Nat /\ Len(Candidates) \in Nat
      BY CandidatesAre, LenProperties DEF IInv, Tried
    <3> QED
      BY <1>1, <3>1 DEF Candidate
  <2>2. PICK a \in LookUp!ToSet(Preferred) : Candidate \in LookUp!CutShort(a)
    BY <1>1, <2>1, CandidateIsCut
  <2>3. Candidate \notin (down \cap ToSet(Preferred)) \cup Own
    BY <1>4
  <2> QED
    BY <1>5, <2>2, <2>3 DEF LookUp!Disturbed, Own
<1> QED
  BY <1>1, <1>2, <1>6, <1>7 DEF LookUp!Resolve, Own

\* Every step is one of Lookup, or none.
LEMMA StepOfLookup ==
  ASSUME IInv, [Next]_vars
  PROVE  [LookUp!Resolve]_(LookUp!vars)
<1> USE DEF outcome
<1>1. CASE HostIsAddress
  <2>1. UNCHANGED LookUp!vars
    BY <1>1, StaysPending DEF HostIsAddress
  <2> QED
    BY <2>1
<1>2. CASE HostIsName
  <2>1. CASE pc' = "error"
    BY <1>2, <2>1, HostIsNameIsResolve
  <2>2. CASE pc' # "error"
    <3>1. UNCHANGED LookUp!vars
      BY <1>2, <2>2, StaysPending DEF HostIsName
    <3> QED
      BY <3>1
  <2> QED
    BY <2>1, <2>2
<1>3. CASE MakeRequest
  <2>1. pc = "query" /\ pc' \in {"query", "answer"} /\ UNCHANGED world /\ UNCHANGED server
    BY <1>3 DEF MakeRequest
  <2>2. UNCHANGED LookUp!vars
    BY <2>1, StaysPending
  <2> QED
    BY <2>2
<1>4. CASE SendFails \/ ServerAnswers \/ ReadResponse
  <2>1. pc \in {"query", "answer"} /\ UNCHANGED pc /\ UNCHANGED world /\ UNCHANGED server
    BY <1>4 DEF SendFails, ServerAnswers, ReadResponse
  <2>2. UNCHANGED LookUp!vars
    BY <2>1, StaysPending
  <2> QED
    BY <2>2
<1>5. CASE AnswerAccepted
  <2>1. UNCHANGED LookUp!vars
    BY <1>5, StaysPending DEF AnswerAccepted, AnswerEnded
  <2> QED
    BY <2>1
<1>6. CASE ParseRecord
  <2>1. UNCHANGED LookUp!vars
    BY <1>6, StaysPending DEF ParseRecord
  <2> QED
    BY <2>1
<1>7. CASE SwitchFamily
  <2>1. pc \in {"answer", "records"}
    BY <1>7 DEF SwitchFamily, AnswerFailed, AnswerParsed, AnswerEnded
  <2>2. UNCHANGED LookUp!vars
    BY <1>7, <2>1, StaysPending DEF SwitchFamily
  <2> QED
    BY <2>2
<1>8. CASE LookupDone
  <2>1. CASE pc' = "error"
    BY <1>8, <2>1, LookupDoneIsResolve
  <2>2. CASE pc' # "error"
    <3>1. pc = "records" /\ pc' = "connect" /\ UNCHANGED world /\ UNCHANGED server
      BY <1>8, <2>2 DEF LookupDone, AnswerParsed
    <3>2. UNCHANGED LookUp!vars
      BY <3>1, StaysPending
    <3> QED
      BY <3>2
  <2> QED
    BY <2>1, <2>2
<1>9. CASE Recursive
  BY <1>9, RecursiveIsResolve
<1>10. CASE ConnectFails
  <2>1. UNCHANGED LookUp!vars
    BY <1>10, StaysPending DEF ConnectFails, Trying
  <2> QED
    BY <2>1
<1>11. CASE Connects
  BY <1>11, ConnectsIsResolve
<1>12. CASE NoCandidates
  BY <1>12, NoCandidatesIsResolve
<1>13. CASE UNCHANGED vars
  BY <1>13, StutterStays
<1> QED
  BY <1>1, <1>2, <1>3, <1>4, <1>5, <1>6, <1>7, <1>8, <1>9, <1>10, <1>11, <1>12, <1>13 DEF Next

\* What checkIfIp, the two queries of doh.c and setupRemoteSocket6 do together is
\* one step of Lookup: when nothing fails, the first address of the host that
\* accepts the connection, IPv6 before IPv4, or an error when none does or the
\* proxy itself comes first; otherwise an error, one of the addresses of the
\* host, if perhaps cut short, or, when connectToDoH fails between the queries,
\* no end at all (a stutter).
THEOREM LookupIsImplemented == Spec => ImplementsLookup
<1>1. Init => LookUp!Init
  BY InitIsInit
<1>2. IInv /\ [Next]_vars => [LookUp!Resolve]_(LookUp!vars)
  BY StepOfLookup
<1> QED
  BY <1>1, <1>2, Invariance, PTL DEF Spec, ImplementsLookup, LookUp!Spec
=====
