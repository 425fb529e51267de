------------------------------ MODULE SeqFacts ------------------------------
(***************************************************************************)
(* Queues as sets without repetition: what appending, taking the head,     *)
(* cutting and joining do to the elements of a sequence; and parts of      *)
(* sequences, as reads return them.                                        *)
(***************************************************************************)
EXTENDS Integers, Sequences, SequenceTheorems, TLAPS

InSeq(f, s) == \E i \in 1 .. Len(s) : s[i] = f
NoDup(s) == \A i, j \in 1 .. Len(s) : s[i] = s[j] => i = j

\* Appending a new element adds exactly that element.
LEMMA AppendFacts ==
  ASSUME NEW S, NEW s \in Seq(S), NEW e \in S
  PROVE  /\ Append(s, e) \in Seq(S)
         /\ \A f : InSeq(f, Append(s, e)) <=> InSeq(f, s) \/ f = e
         /\ NoDup(s) /\ ~InSeq(e, s) => NoDup(Append(s, e))
BY DEF InSeq, NoDup

\* Taking the head of a sequence without repetition removes exactly it.
LEMMA TailFacts ==
  ASSUME NEW S, NEW s \in Seq(S), s # <<>>, NoDup(s)
  PROVE  /\ Head(s) \in S /\ Tail(s) \in Seq(S)
         /\ InSeq(Head(s), s)
         /\ \A f : InSeq(f, Tail(s)) <=> InSeq(f, s) /\ f # Head(s)
         /\ NoDup(Tail(s))
<1>1. /\ Len(s) \in Nat \ {0} /\ Head(s) = s[1]
      /\ Head(s) \in S /\ Tail(s) \in Seq(S) /\ Len(Tail(s)) = Len(s) - 1
      /\ \A i \in 1 .. Len(s) - 1 : Tail(s)[i] = s[i + 1]
  BY HeadTailProperties, EmptySeq
<1>2. InSeq(Head(s), s)
  BY <1>1 DEF InSeq
<1>3. NoDup(Tail(s))
  BY <1>1 DEF NoDup
<1>4. ASSUME NEW f, InSeq(f, Tail(s)) PROVE InSeq(f, s) /\ f # Head(s)
  <2>1. PICK i \in 1 .. Len(s) - 1 : s[i + 1] = f
    BY <1>1, <1>4 DEF InSeq
  <2>2. i + 1 \in 1 .. Len(s) /\ 1 \in 1 .. Len(s) /\ i + 1 # 1
    BY <1>1
  <2>3. QED BY <1>1, <2>1, <2>2 DEF InSeq, NoDup
<1>5. ASSUME NEW f, InSeq(f, s), f # Head(s) PROVE InSeq(f, Tail(s))
  <2>1. PICK i \in 1 .. Len(s) : s[i] = f
    BY <1>5 DEF InSeq
  <2>2. i - 1 \in 1 .. Len(s) - 1 /\ Tail(s)[i - 1] = f
    BY <1>1, <1>5, <2>1
  <2>3. QED BY <1>1, <2>2 DEF InSeq
<1>6. QED BY <1>1, <1>2, <1>3, <1>4, <1>5

\* Both parts of a cut are sequences over the same set.
LEMMA CutSeq ==
  ASSUME NEW S, NEW s \in Seq(S), NEW n \in 0 .. Len(s)
  PROVE  SubSeq(s, 1, n) \in Seq(S) /\ SubSeq(s, n + 1, Len(s)) \in Seq(S)
<1>1. Len(s) \in Nat /\ n \in Nat /\ \A i \in 1 .. Len(s) : s[i] \in S
  BY LenProperties, ElementOfSeq
<1>2. n + 1 \in Int /\ \A i \in n + 1 .. Len(s) : s[i] \in S
  BY <1>1
<1>3. QED BY <1>1, <1>2, SubSeqProperties

\* Cutting a sequence without repetition in two separates its elements.
LEMMA SplitFacts ==
  ASSUME NEW S, NEW s \in Seq(S), NEW n \in 0 .. Len(s), NoDup(s)
  PROVE  LET a == SubSeq(s, 1, n)
             b == SubSeq(s, n + 1, Len(s))
         IN /\ a \in Seq(S) /\ b \in Seq(S) /\ NoDup(a) /\ NoDup(b)
            /\ \A f : InSeq(f, s) <=> InSeq(f, a) \/ InSeq(f, b)
            /\ \A f : ~(InSeq(f, a) /\ InSeq(f, b))
<1> DEFINE a == SubSeq(s, 1, n)
           b == SubSeq(s, n + 1, Len(s))
<1>0. Len(s) \in Nat /\ n \in Nat /\ \A i \in 1 .. Len(s) : s[i] \in S
  BY LenProperties, ElementOfSeq
<1>1. a \in Seq(S) /\ Len(a) = n /\ \A i \in 1 .. n : a[i] = s[i]
  BY <1>0, SubSeqProperties
<1>2. /\ b \in Seq(S) /\ Len(b) = Len(s) - n
      /\ \A i \in 1 .. Len(s) - n : b[i] = s[n + i]
  <2>1. n + 1 \in Int /\ \A i \in n + 1 .. Len(s) : s[i] \in S
    BY <1>0
  <2>2. /\ b \in Seq(S)
        /\ Len(b) = IF n + 1 <= Len(s) THEN Len(s) - (n + 1) + 1 ELSE 0
        /\ \A i \in 1 .. Len(s) - (n + 1) + 1 : b[i] = s[n + 1 + i - 1]
    BY <1>0, <2>1, SubSeqProperties
  <2> DEFINE m == Len(s)
  <2>3. /\ (IF n + 1 <= m THEN m - (n + 1) + 1 ELSE 0) = m - n
        /\ m - (n + 1) + 1 = m - n
        /\ \A i \in 1 .. m - n : n + 1 + i - 1 = n + i
    BY <1>0
  <2> HIDE DEF b
  <2>4. QED BY <2>2, <2>3
<1> HIDE DEF a, b
<1>3. NoDup(a) /\ NoDup(b)
  <2>1. NoDup(a)
    BY <1>0, <1>1 DEF NoDup
  <2>2. ASSUME NEW i \in 1 .. Len(b), NEW j \in 1 .. Len(b), b[i] = b[j]
        PROVE  i = j
    <3>1. n + i \in 1 .. Len(s) /\ n + j \in 1 .. Len(s) /\ s[n + i] = s[n + j]
      BY <1>0, <1>2, <2>2
    <3>2. n + i = n + j
      BY <3>1 DEF NoDup
    <3>3. QED BY <1>0, <3>2
  <2>3. QED BY <2>1, <2>2 DEF NoDup
<1>4. ASSUME NEW f, InSeq(f, s) PROVE InSeq(f, a) \/ InSeq(f, b)
  <2>1. PICK i \in 1 .. Len(s) : s[i] = f
    BY <1>4 DEF InSeq
  <2>2. CASE i <= n BY <1>0, <1>1, <2>1, <2>2 DEF InSeq
  <2>3. CASE i > n
    <3>1. i - n \in 1 .. Len(b) /\ b[i - n] = f
      BY <1>0, <1>2, <2>1, <2>3
    <3>2. QED BY <3>1 DEF InSeq
  <2>4. QED BY <1>0, <2>2, <2>3
<1>5. ASSUME NEW f, InSeq(f, a) PROVE InSeq(f, s)
  BY <1>0, <1>1, <1>5 DEF InSeq
<1>6. ASSUME NEW f, InSeq(f, b) PROVE InSeq(f, s)
  <2>1. PICK i \in 1 .. Len(b) : b[i] = f
    BY <1>6 DEF InSeq
  <2>2. n + i \in 1 .. Len(s) /\ s[n + i] = f
    BY <1>0, <1>2, <2>1
  <2>3. QED BY <2>2 DEF InSeq
<1>7. ASSUME NEW f, InSeq(f, a), InSeq(f, b) PROVE FALSE
  <2>1. PICK i \in 1 .. n : s[i] = f
    BY <1>1, <1>7 DEF InSeq
  <2>2. PICK j \in 1 .. Len(s) - n : s[n + j] = f
    BY <1>2, <1>7 DEF InSeq
  <2>3. i \in 1 .. Len(s) /\ n + j \in 1 .. Len(s) /\ i # n + j
    BY <1>0, <2>1, <2>2
  <2>4. QED BY <2>1, <2>2, <2>3 DEF NoDup
<1>8. QED BY <1>1, <1>2, <1>3, <1>4, <1>5, <1>6, <1>7 DEF a, b

\* Joining two disjoint sequences without repetition keeps their elements.
LEMMA ConcatFacts ==
  ASSUME NEW S, NEW s \in Seq(S), NEW t \in Seq(S), NoDup(s), NoDup(t),
         \A f : ~(InSeq(f, s) /\ InSeq(f, t))
  PROVE  /\ s \o t \in Seq(S) /\ NoDup(s \o t)
         /\ \A f : InSeq(f, s \o t) <=> InSeq(f, s) \/ InSeq(f, t)
<1> DEFINE u == s \o t
<1>1. /\ Len(s) \in Nat /\ Len(t) \in Nat
      /\ u \in Seq(S) /\ Len(u) = Len(s) + Len(t)
      /\ \A i \in 1 .. Len(s) : u[i] = s[i]
      /\ \A i \in 1 .. Len(t) : u[Len(s) + i] = t[i]
  BY ConcatProperties, LenProperties
<1> HIDE DEF u
<1>2. ASSUME NEW i \in 1 .. Len(u)
      PROVE  \/ i \in 1 .. Len(s)
             \/ i - Len(s) \in 1 .. Len(t) /\ u[i] = t[i - Len(s)]
  BY <1>1
<1>3. \A f : InSeq(f, u) <=> InSeq(f, s) \/ InSeq(f, t)
  <2>1. ASSUME NEW f, InSeq(f, u) PROVE InSeq(f, s) \/ InSeq(f, t)
    BY <1>1, <1>2, <2>1 DEF InSeq
  <2>2. ASSUME NEW f, InSeq(f, s) PROVE InSeq(f, u)
    BY <1>1, <2>2 DEF InSeq
  <2>3. ASSUME NEW f, InSeq(f, t) PROVE InSeq(f, u)
    <3>1. PICK i \in 1 .. Len(t) : t[i] = f
      BY <2>3 DEF InSeq
    <3>2. Len(s) + i \in 1 .. Len(u) /\ u[Len(s) + i] = f
      BY <1>1, <3>1
    <3>3. QED BY <3>2 DEF InSeq
  <2>4. QED BY <2>1, <2>2, <2>3
<1>4. NoDup(u)
  <2> SUFFICES ASSUME NEW i \in 1 .. Len(u), NEW j \in 1 .. Len(u), u[i] = u[j]
               PROVE  i = j
    BY DEF NoDup
  <2>1. CASE i \in 1 .. Len(s) /\ j \in 1 .. Len(s)
    BY <1>1, <2>1 DEF NoDup
  <2>2. CASE i \notin 1 .. Len(s) /\ j \notin 1 .. Len(s)
    <3>1. /\ i - Len(s) \in 1 .. Len(t) /\ j - Len(s) \in 1 .. Len(t)
          /\ t[i - Len(s)] = t[j - Len(s)]
      BY <1>2, <2>2
    <3>2. i - Len(s) = j - Len(s)
      BY <3>1 DEF NoDup
    <3>3. QED BY <1>1, <3>2
  <2>3. ASSUME NEW k \in 1 .. Len(s), NEW m \in 1 .. Len(u), m \notin 1 .. Len(s)
        PROVE  u[k] # u[m]
    <3>1. m - Len(s) \in 1 .. Len(t) /\ u[m] = t[m - Len(s)]
      BY <1>2, <2>3
    <3>2. InSeq(u[m], t) /\ InSeq(u[k], s)
      BY <1>1, <3>1 DEF InSeq
    <3>3. QED BY <3>2
  <2>4. QED BY <2>1, <2>2, <2>3
<1>5. QED BY <1>1, <1>3, <1>4 DEF u

\* The part of s from behind c up to d.
LEMMA PartFacts ==
  ASSUME NEW S, NEW s \in Seq(S), NEW c \in Nat, NEW d \in c .. Len(s)
  PROVE  /\ SubSeq(s, c + 1, d) \in Seq(S) /\ Len(SubSeq(s, c + 1, d)) = d - c
         /\ \A i \in 1 .. d - c : SubSeq(s, c + 1, d)[i] = s[c + i]
         /\ SubSeq(s, c + 1, d) = <<>> <=> c = d
<1> DEFINE t == SubSeq(s, c + 1, d)
<1>1. Len(s) \in Nat /\ d \in Nat /\ c <= d /\ d <= Len(s) /\ \A i \in 1 .. Len(s) : s[i] \in S
  BY ElementOfSeq, LenProperties
<1>2. c + 1 \in Int /\ d \in Int /\ \A i \in c + 1 .. d : s[i] \in S
  BY <1>1
<1>3. /\ t \in Seq(S) /\ Len(t) = IF c + 1 <= d THEN d - (c + 1) + 1 ELSE 0
      /\ \A i \in 1 .. d - (c + 1) + 1 : t[i] = s[c + 1 + i - 1]
  BY <1>2, SubSeqProperties
<1> HIDE DEF t
<1>4. d - (c + 1) + 1 = d - c /\ \A i \in 1 .. d - c : c + 1 + i - 1 = c + i
  BY <1>1
<1>5. Len(t) = d - c
  BY <1>1, <1>3
<1>6. \A i \in 1 .. d - c : t[i] = s[c + i]
  BY <1>3, <1>4
<1>7. t = <<>> <=> c = d
  <2>1. t = <<>> <=> Len(t) = 0
    BY <1>3, EmptySeq
  <2> QED
    BY <1>1, <1>5, <2>1
<1> QED
  BY <1>3, <1>5, <1>6, <1>7 DEF t

\* A part of a part of s is a part of s.
LEMMA PartOfPart ==
  ASSUME NEW S, NEW s \in Seq(S), NEW c \in 1 .. Len(s) + 1, NEW d \in c - 1 .. Len(s),
         NEW x \in 1 .. d - c + 2, NEW y \in x - 1 .. d - c + 1
  PROVE  SubSeq(SubSeq(s, c, d), x, y) = SubSeq(s, c + x - 1, c + y - 1)
<1>1. /\ Len(s) \in Nat /\ c \in Nat \ {0} /\ d \in Int /\ x \in Nat \ {0} /\ y \in Int
      /\ x - 1 <= y /\ y <= d - c + 1 /\ d <= Len(s) /\ \A i \in 1 .. Len(s) : s[i] \in S
  BY ElementOfSeq, LenProperties
<1> DEFINE t == SubSeq(s, c, d)
<1>2. t \in Seq(S) /\ Len(t) = d - c + 1 /\ \A i \in 1 .. d - c + 1 : t[i] = s[c + i - 1]
  <2>1. PICK k \in Nat : c = k + 1 /\ d \in k .. Len(s) /\ d - k = d - c + 1
                        /\ \A i \in 1 .. d - c + 1 : k + i = c + i - 1
    <3>1. c - 1 \in Nat /\ c = c - 1 + 1 /\ d \in c - 1 .. Len(s) /\ d - (c - 1) = d - c + 1
          /\ \A i \in 1 .. d - c + 1 : c - 1 + i = c + i - 1
      BY <1>1
    <3> QED
      BY <3>1
  <2>2. /\ SubSeq(s, k + 1, d) \in Seq(S) /\ Len(SubSeq(s, k + 1, d)) = d - k
        /\ \A i \in 1 .. d - k : SubSeq(s, k + 1, d)[i] = s[k + i]
    BY <2>1, PartFacts
  <2>3. t = SubSeq(s, k + 1, d)
    BY <2>1
  <2> HIDE DEF t
  <2> QED
    BY <2>1, <2>2, <2>3
<1> DEFINE u == SubSeq(t, x, y)
           v == SubSeq(s, c + x - 1, c + y - 1)
<1> HIDE DEF t
<1>3. u \in Seq(S) /\ Len(u) = y - x + 1 /\ \A i \in 1 .. y - x + 1 : u[i] = t[x + i - 1]
  <2>1. x \in Int /\ y \in Int /\ \A i \in x .. y : t[i] \in S
    BY <1>1, <1>2, ElementOfSeq
  <2>2. /\ u \in Seq(S) /\ Len(u) = IF x <= y THEN y - x + 1 ELSE 0
        /\ \A i \in 1 .. y - x + 1 : u[i] = t[x + i - 1]
    BY <2>1, SubSeqProperties
  <2> HIDE DEF u
  <2> QED
    BY <1>1, <2>2
<1>4. v \in Seq(S) /\ Len(v) = y - x + 1 /\ \A i \in 1 .. y - x + 1 : v[i] = s[c + x - 1 + i - 1]
  <2>1. c + x - 1 \in Int /\ c + y - 1 \in Int /\ \A i \in c + x - 1 .. c + y - 1 : s[i] \in S
    BY <1>1
  <2>2. /\ v \in Seq(S)
        /\ Len(v) = IF c + x - 1 <= c + y - 1 THEN c + y - 1 - (c + x - 1) + 1 ELSE 0
        /\ \A i \in 1 .. c + y - 1 - (c + x - 1) + 1 : v[i] = s[c + x - 1 + i - 1]
    BY <2>1, SubSeqProperties
  <2> HIDE DEF v
  <2>3. c + y - 1 - (c + x - 1) + 1 = y - x + 1
    BY <1>1
  <2> QED
    BY <1>1, <2>2, <2>3
<1> HIDE DEF u, v
<1>5. ASSUME NEW i \in 1 .. y - x + 1 PROVE u[i] = v[i]
  <2>1. x + i - 1 \in 1 .. d - c + 1 /\ c + (x + i - 1) - 1 = c + x - 1 + i - 1
    BY <1>1
  <2> QED
    BY <1>2, <1>3, <1>4, <2>1
<1>6. u = v
  BY <1>3, <1>4, <1>5, SeqEqual
<1> QED
  BY <1>6 DEF t, u, v

\* Cutting the end off a concatenation cuts it off the second sequence.
LEMMA CutConcat ==
  ASSUME NEW S, NEW s \in Seq(S), NEW t \in Seq(S), NEW z \in 0 .. Len(t)
  PROVE  SubSeq(s \o t, 1, Len(s) + z) = s \o SubSeq(t, 1, z)
<1> DEFINE u == s \o t
           a == SubSeq(u, 0 + 1, Len(s) + z)
           b == SubSeq(t, 0 + 1, z)
           c == s \o b
<1>1. Len(s) \in Nat /\ Len(t) \in Nat /\ z \in Nat /\ z <= Len(t)
  BY LenProperties
<1>2. /\ u \in Seq(S) /\ Len(u) = Len(s) + Len(t)
      /\ \A i \in 1 .. Len(s) + Len(t) : u[i] = IF i <= Len(s) THEN s[i] ELSE t[i - Len(s)]
  BY ConcatProperties
<1> HIDE DEF u
<1>3. 0 \in Nat /\ Len(s) + z \in 0 .. Len(u) /\ z \in 0 .. Len(t) /\ Len(s) + z - 0 = Len(s) + z /\ z - 0 = z
  BY <1>1, <1>2
<1>4. a \in Seq(S) /\ Len(a) = Len(s) + z /\ \A i \in 1 .. Len(s) + z : a[i] = u[0 + i]
  BY <1>2, <1>3, PartFacts
<1>5. b \in Seq(S) /\ Len(b) = z /\ \A i \in 1 .. z : b[i] = t[0 + i]
  BY <1>3, PartFacts
<1> HIDE DEF a, b
<1>6. /\ c \in Seq(S) /\ Len(c) = Len(s) + z
      /\ \A i \in 1 .. Len(s) + z : c[i] = IF i <= Len(s) THEN s[i] ELSE b[i - Len(s)]
  BY <1>5, ConcatProperties
<1> HIDE DEF c
<1>7. ASSUME NEW i \in 1 .. Len(s) + z PROVE a[i] = c[i]
  <2>1. i \in 1 .. Len(s) + Len(t) /\ 0 + i = i
    BY <1>1
  <2>2. CASE i <= Len(s)
    BY <1>2, <1>4, <1>6, <2>1, <2>2
  <2>3. CASE ~(i <= Len(s))
    <3>1. i - Len(s) \in 1 .. z /\ 0 + (i - Len(s)) = i - Len(s)
      BY <1>1, <2>3
    <3>2. b[i - Len(s)] = t[i - Len(s)]
      BY <1>5, <3>1
    <3> QED
      BY <1>2, <1>4, <1>6, <2>1, <2>3, <3>2
  <2> QED
    BY <2>2, <2>3
<1>8. a = c
  BY <1>4, <1>6, <1>7, SeqEqual
<1> QED
  BY <1>8 DEF a, b, c, u
=============================================================================
