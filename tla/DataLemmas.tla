----------------------------- MODULE DataLemmas -----------------------------
(***************************************************************************)
(* Facts about the data the proofs of the project share, for every value:  *)
(* cutting a run of elements out of a sequence (eviction, ring overwrite), *)
(* what append, concatenation and tail do to length and elements, sums     *)
(* over a sequence, and the ring buffer (Ring), whose readers are owed     *)
(* exactly what walking back from its head finds.                          *)
(* What is computed by recursion is proved by the least number principle:  *)
(* EveryNat is induction over a set of numbers, a consequence of WFMin.    *)
(***************************************************************************)
EXTENDS Ring, SeqFolds, SequenceTheorems, WellFoundedInduction, TLAPS

\* w without the k elements behind its first h.
Without(w, h, k) == SubSeq(w, 1, h) \o SubSeq(w, h + k + 1, Len(w))

\* The elements of w at the positions lo to hi.
Slice(w, lo, hi) == {w[i] : i \in lo .. hi}

\* Length and elements of a concatenation.
LEMMA ConcatShape ==
  ASSUME NEW S, NEW a \in Seq(S), NEW b \in Seq(S)
  PROVE  /\ a \o b \in Seq(S)
         /\ Len(a \o b) = Len(a) + Len(b)
         /\ \A i \in 1 .. Len(a) : (a \o b)[i] = a[i]
         /\ \A i \in (Len(a) + 1) .. (Len(a) + Len(b)) : (a \o b)[i] = b[i - Len(a)]
OBVIOUS

\* What is left when k elements behind the first h are cut out of w.
LEMMA WithoutShape ==
  ASSUME NEW S, NEW w \in Seq(S), NEW h \in Nat, NEW k \in Nat,
         h + k <= Len(w)
  PROVE  /\ Without(w, h, k) \in Seq(S)
         /\ Len(Without(w, h, k)) = Len(w) - k
         /\ \A i \in 1 .. h : Without(w, h, k)[i] = w[i]
         /\ \A i \in (h + 1) .. (Len(w) - k) : Without(w, h, k)[i] = w[i + k]
<1> DEFINE a == SubSeq(w, 1, h)
           b == SubSeq(w, h + k + 1, Len(w))
<1>0. Len(w) \in Nat /\ h \in 0 .. Len(w) /\ k \in 0 .. Len(w)
  OBVIOUS
<1>1. a \in Seq(S) /\ Len(a) = h /\ \A i \in 1 .. h : a[i] = w[i]
  BY <1>0, SubSeqProperties
<1>2. /\ b \in Seq(S) /\ Len(b) = Len(w) - (h + k)
      /\ \A i \in 1 .. (Len(w) - (h + k)) : b[i] = w[h + k + i]
  BY <1>0, SubSeqProperties
<1> HIDE DEF a, b
<1>c. /\ a \o b \in Seq(S) /\ Len(a \o b) = Len(a) + Len(b)
      /\ \A i \in 1 .. Len(a) + Len(b) :
           (a \o b)[i] = IF i <= Len(a) THEN a[i] ELSE b[i - Len(a)]
  <2>1. a \in Seq(S) /\ b \in Seq(S)
    BY <1>1, <1>2
  <2> QED BY <2>1, ConcatProperties
<1> DEFINE c == a \o b
<1> HIDE DEF c
<1>3. /\ c \in Seq(S) /\ Len(c) = Len(w) - k
      /\ \A i \in 1 .. h : c[i] = w[i]
      /\ \A i \in (h + 1) .. (Len(w) - k) : c[i] = w[i + k]
  <2>1. c \in Seq(S) /\ Len(c) = Len(w) - k
    BY <1>0, <1>1, <1>2, <1>c DEF c
  <2>2. \A i \in 1 .. h : c[i] = w[i]
    BY <1>0, <1>1, <1>2, <1>c DEF c
  <2>3. ASSUME NEW i \in (h + 1) .. (Len(w) - k) PROVE c[i] = w[i + k]
    <3>1. c[i] = b[i - h]
      BY <1>0, <1>1, <1>2, <1>c DEF c
    <3>2. i - h \in 1 .. (Len(w) - (h + k))
      BY <1>0
    <3>3. b[i - h] = w[h + k + (i - h)]
      BY <3>2, <1>2
    <3>4. h + k + (i - h) = i + k
      BY <1>0
    <3> QED BY <3>1, <3>3, <3>4
  <2> QED BY <2>1, <2>2, <2>3
<1>4. Without(w, h, k) = c
  BY DEF Without, a, b, c
<1> QED
  BY <1>3, <1>4

\* Length and elements of an appended sequence.
LEMMA AppendShape ==
  ASSUME NEW S, NEW a \in Seq(S), NEW e \in S
  PROVE  /\ Append(a, e) \in Seq(S)
         /\ Len(Append(a, e)) = Len(a) + 1
         /\ \A i \in 1 .. Len(a) : Append(a, e)[i] = a[i]
         /\ Append(a, e)[Len(a) + 1] = e
OBVIOUS

\* Length and elements of a tail, and what the head is.
LEMMA TailShape ==
  ASSUME NEW S, NEW a \in Seq(S), a # <<>>
  PROVE  /\ Tail(a) \in Seq(S)
         /\ Len(Tail(a)) = Len(a) - 1
         /\ Len(a) \in Nat \ {0}
         /\ Head(a) = a[1] /\ a[1] \in S
         /\ \A i \in 1 .. (Len(a) - 1) : Tail(a)[i] = a[i + 1]
OBVIOUS

\* Sequences of the same length and elements are equal.
LEMMA SameSeq ==
  ASSUME NEW S, NEW a \in Seq(S), NEW b \in Seq(S), Len(a) = Len(b),
         \A i \in 1 .. Len(a) : a[i] = b[i]
  PROVE  a = b
OBVIOUS

\* A sequence of elements of S is a sequence over S.
LEMMA Retyped ==
  ASSUME NEW S, NEW T, NEW a \in Seq(T), \A i \in 1 .. Len(a) : a[i] \in S
  PROVE  a \in Seq(S)
OBVIOUS

\* A sequence is what comes before a position and what comes after it.
LEMMA SplitAt ==
  ASSUME NEW S, NEW w \in Seq(S), NEW h \in 0 .. Len(w)
  PROVE  /\ SubSeq(w, 1, h) \in Seq(S) /\ Len(SubSeq(w, 1, h)) = h
         /\ SubSeq(w, h + 1, Len(w)) \in Seq(S)
         /\ Len(SubSeq(w, h + 1, Len(w))) = Len(w) - h
         /\ w = SubSeq(w, 1, h) \o SubSeq(w, h + 1, Len(w))
<1> DEFINE a == SubSeq(w, 1, h)
           b == SubSeq(w, h + 1, Len(w))
           c == a \o b
<1>0. Len(w) \in Nat
  OBVIOUS
<1>1. a \in Seq(S) /\ Len(a) = h /\ \A i \in 1 .. h : a[i] = w[i]
  BY <1>0, SubSeqProperties
<1>2. /\ b \in Seq(S) /\ Len(b) = Len(w) - h
      /\ \A i \in 1 .. (Len(w) - h) : b[i] = w[h + i]
  BY <1>0, SubSeqProperties
<1> HIDE DEF a, b
<1>3. /\ c \in Seq(S) /\ Len(c) = Len(a) + Len(b)
      /\ \A i \in 1 .. Len(a) : c[i] = a[i]
      /\ \A i \in (Len(a) + 1) .. (Len(a) + Len(b)) : c[i] = b[i - Len(a)]
  BY <1>1, <1>2, ConcatShape
<1> HIDE DEF c
<1>4. ASSUME NEW i \in 1 .. Len(w) PROVE c[i] = w[i]
  <2>1. CASE i <= h
    BY <1>0, <1>1, <1>3, <2>1
  <2>2. CASE i > h
    <3>1. i - h \in 1 .. (Len(w) - h) /\ h + (i - h) = i
      BY <1>0, <2>2
    <3>2. c[i] = b[i - h] /\ b[i - h] = w[h + (i - h)]
      BY <1>0, <1>1, <1>2, <1>3, <2>2, <3>1
    <3> QED BY <3>1, <3>2
  <2> QED BY <1>0, <2>1, <2>2
<1>5. Len(c) = Len(w)
  BY <1>0, <1>1, <1>2, <1>3
<1>6. c = w
  BY <1>3, <1>4, <1>5, SameSeq
<1> QED
  BY <1>1, <1>2, <1>6 DEF a, b, c

\* The three parts of w: before, in and behind the cut of k elements behind
\* the first h.
Glued(w, h, k) ==
  (SubSeq(w, 1, h) \o SubSeq(w, h + 1, h + k)) \o SubSeq(w, h + k + 1, Len(w))

\* What is cut out of a sequence and what is left make up the sequence.
LEMMA CutShape ==
  ASSUME NEW S, NEW w \in Seq(S), NEW h \in Nat, NEW k \in Nat, h + k <= Len(w)
  PROVE  /\ SubSeq(w, 1, h) \in Seq(S) /\ Len(SubSeq(w, 1, h)) = h
         /\ SubSeq(w, h + 1, h + k) \in Seq(S) /\ Len(SubSeq(w, h + 1, h + k)) = k
         /\ SubSeq(w, h + k + 1, Len(w)) \in Seq(S)
         /\ w = Glued(w, h, k)
<1> DEFINE a == SubSeq(w, 1, h)
           m == SubSeq(w, h + 1, h + k)
           b == SubSeq(w, h + k + 1, Len(w))
           v == SubSeq(w, 1, h + k)
<1>0. Len(w) \in Nat /\ h + k \in 0 .. Len(w) /\ h \in 0 .. Len(w)
  OBVIOUS
<1>1. /\ v \in Seq(S) /\ Len(v) = h + k /\ b \in Seq(S)
      /\ Len(b) = Len(w) - (h + k) /\ w = v \o b
  BY <1>0, SplitAt
<1>2. \A i \in 1 .. (h + k) : v[i] = w[i]
  BY <1>0, SubSeqProperties
<1>3. a \in Seq(S) /\ Len(a) = h /\ \A i \in 1 .. h : a[i] = w[i]
  BY <1>0, SubSeqProperties
<1>4. /\ m \in Seq(S) /\ Len(m) = k
      /\ \A i \in 1 .. k : m[i] = w[h + i]
  <2>1. h + k <= Len(w) /\ h + 1 \in Nat /\ h + 1 >= 1
    BY <1>0
  <2> QED BY <1>0, <2>1, SubSeqProperties
<1> DEFINE c == a \o m
<1> HIDE DEF a, m, b, v
<1>5. /\ c \in Seq(S) /\ Len(c) = Len(a) + Len(m)
      /\ \A i \in 1 .. Len(a) : c[i] = a[i]
      /\ \A i \in (Len(a) + 1) .. (Len(a) + Len(m)) : c[i] = m[i - Len(a)]
  BY <1>3, <1>4, ConcatShape
<1> HIDE DEF c
<1>6. ASSUME NEW i \in 1 .. Len(c) PROVE c[i] = v[i]
  <2>1. CASE i <= h
    <3>1. i \in 1 .. h /\ i \in 1 .. Len(a) /\ i \in 1 .. (h + k)
      BY <1>0, <1>3, <1>4, <1>5, <2>1
    <3> QED BY <1>2, <1>3, <1>5, <3>1
  <2>2. CASE i > h
    <3>1. i - h \in 1 .. k /\ h + (i - h) = i /\ i \in 1 .. (h + k)
      BY <1>0, <1>3, <1>4, <1>5, <2>2
    <3>2. c[i] = m[i - h] /\ m[i - h] = w[h + (i - h)]
      BY <1>3, <1>4, <1>5, <2>2, <3>1
    <3> QED BY <1>2, <3>1, <3>2
  <2> QED BY <1>0, <1>3, <1>4, <1>5, <2>1, <2>2
<1>7. c = v
  <2>1. Len(c) = Len(v)
    BY <1>1, <1>3, <1>4, <1>5
  <2> QED BY <1>1, <1>5, <1>6, <2>1, SameSeq
<1>8. w = Glued(w, h, k)
  BY <1>1, <1>7 DEF Glued, a, m, b, c
<1> QED
  BY <1>1, <1>3, <1>4, <1>8 DEF a, m, b

\* Cutting nothing changes nothing.
LEMMA WithoutNone ==
  ASSUME NEW S, NEW w \in Seq(S), NEW h \in Nat, h <= Len(w)
  PROVE  Without(w, h, 0) = w
<1>1. /\ Without(w, h, 0) \in Seq(S) /\ Len(Without(w, h, 0)) = Len(w)
      /\ \A i \in 1 .. h : Without(w, h, 0)[i] = w[i]
      /\ \A i \in (h + 1) .. Len(w) : Without(w, h, 0)[i] = w[i + 0]
  BY WithoutShape
<1> QED
  BY <1>1, SameSeq

\* Cutting k elements off the front of q, behind a, is cutting them out of
\* a \o q; and the elements that go are the same.
LEMMA WithoutBehind ==
  ASSUME NEW S, NEW a \in Seq(S), NEW q \in Seq(S), NEW k \in Nat, k <= Len(q)
  PROVE  /\ a \o Without(q, 0, k) = Without(a \o q, Len(a), k)
         /\ Slice(q, 1, k) = Slice(a \o q, Len(a) + 1, Len(a) + k)
<1> DEFINE w == Without(q, 0, k)
           c == a \o q
           l == a \o w
           r == Without(c, Len(a), k)
<1>0. Len(a) \in Nat /\ Len(q) \in Nat
  OBVIOUS
<1>1. /\ w \in Seq(S) /\ Len(w) = Len(q) - k
      /\ \A i \in 1 .. (Len(q) - k) : w[i] = q[i + k]
  BY WithoutShape
<1>2. /\ c \in Seq(S) /\ Len(c) = Len(a) + Len(q)
      /\ \A i \in 1 .. Len(a) : c[i] = a[i]
      /\ \A i \in (Len(a) + 1) .. (Len(a) + Len(q)) : c[i] = q[i - Len(a)]
  BY ConcatShape
<1> HIDE DEF w, c
<1>3. /\ l \in Seq(S) /\ Len(l) = Len(a) + Len(w)
      /\ \A i \in 1 .. Len(a) : l[i] = a[i]
      /\ \A i \in (Len(a) + 1) .. (Len(a) + Len(w)) : l[i] = w[i - Len(a)]
  BY <1>1, ConcatShape
<1>4. /\ r \in Seq(S) /\ Len(r) = Len(c) - k
      /\ \A i \in 1 .. Len(a) : r[i] = c[i]
      /\ \A i \in (Len(a) + 1) .. (Len(c) - k) : r[i] = c[i + k]
  <2>1. c \in Seq(S) /\ Len(a) \in Nat /\ Len(a) + k <= Len(c)
    BY <1>0, <1>2
  <2> QED BY <2>1, WithoutShape, ZenonT(60)
<1> HIDE DEF l, r
<1>5. ASSUME NEW i \in 1 .. Len(l) PROVE l[i] = r[i]
  <2>1. CASE i <= Len(a)
    BY <1>0, <1>2, <1>3, <1>4, <2>1
  <2>2. CASE i > Len(a)
    <3>1. /\ i \in (Len(a) + 1) .. (Len(a) + Len(w))
          /\ i \in (Len(a) + 1) .. (Len(c) - k)
          /\ i - Len(a) \in 1 .. (Len(q) - k)
          /\ i + k \in (Len(a) + 1) .. (Len(a) + Len(q))
      BY <1>0, <1>1, <1>2, <1>3, <2>2
    <3>2. l[i] = q[(i - Len(a)) + k]
      BY <1>1, <1>3, <3>1
    <3>3. r[i] = q[(i + k) - Len(a)]
      BY <1>2, <1>4, <3>1
    <3>4. (i - Len(a)) + k = (i + k) - Len(a)
      BY <1>0
    <3> QED BY <3>2, <3>3, <3>4
  <2> QED BY <1>0, <2>1, <2>2
<1>6. l = r
  BY <1>0, <1>1, <1>2, <1>3, <1>4, <1>5, SameSeq, SMTT(30)
<1>7. ASSUME NEW i \in 1 .. k
      PROVE  q[i] \in {c[j] : j \in (Len(a) + 1) .. (Len(a) + k)}
  <2>1. i + Len(a) \in (Len(a) + 1) .. (Len(a) + k)
    BY <1>0
  <2>2. c[i + Len(a)] = q[(i + Len(a)) - Len(a)]
    <3>1. i + Len(a) \in (Len(a) + 1) .. (Len(a) + Len(q))
      BY <1>0
    <3> QED BY <3>1, <1>2
  <2>3. (i + Len(a)) - Len(a) = i
    BY <1>0
  <2> QED BY <2>1, <2>2, <2>3
<1>8. ASSUME NEW j \in (Len(a) + 1) .. (Len(a) + k)
      PROVE  c[j] \in {q[i] : i \in 1 .. k}
  <2>1. j - Len(a) \in 1 .. k /\ c[j] = q[j - Len(a)]
    BY <1>0, <1>2
  <2> QED BY <2>1
<1>9. Slice(q, 1, k) = Slice(c, Len(a) + 1, Len(a) + k)
  BY <1>7, <1>8 DEF Slice
<1> QED
  BY <1>6, <1>9 DEF c, l, r, w

\* The tail of a one-element sequence followed by q is q.
LEMMA TailConcat ==
  ASSUME NEW S, NEW a \in Seq(S), Len(a) = 1, NEW q \in Seq(S)
  PROVE  Tail(a \o q) = q
<1> DEFINE c == a \o q
           t == Tail(c)
<1>1. /\ c \in Seq(S) /\ Len(c) = 1 + Len(q)
      /\ \A i \in 2 .. (1 + Len(q)) : c[i] = q[i - 1]
  <2>1. /\ c \in Seq(S) /\ Len(c) = Len(a) + Len(q)
        /\ \A i \in (Len(a) + 1) .. (Len(a) + Len(q)) : c[i] = q[i - Len(a)]
    BY ConcatShape
  <2>2. Len(a) + 1 = 2
    OBVIOUS
  <2> QED BY <2>1, <2>2
<1> HIDE DEF c
<1>2. Len(q) \in Nat /\ c # <<>>
  BY <1>1
<1>3. /\ t \in Seq(S) /\ Len(t) = Len(c) - 1
      /\ \A i \in 1 .. (Len(c) - 1) : t[i] = c[i + 1]
  BY <1>1, <1>2, TailShape
<1> HIDE DEF t
<1>4. ASSUME NEW i \in 1 .. Len(q) PROVE t[i] = q[i]
  <2>1. i + 1 \in 2 .. (1 + Len(q)) /\ i \in 1 .. (Len(c) - 1) /\ (i + 1) - 1 = i
    BY <1>1, <1>2
  <2>2. t[i] = c[i + 1]
    BY <1>3, <2>1
  <2>3. c[i + 1] = q[(i + 1) - 1]
    BY <1>1, <2>1
  <2> QED BY <2>1, <2>2, <2>3
<1>5. Len(t) = Len(q)
  BY <1>1, <1>2, <1>3
<1>6. t = q
  BY <1>3, <1>4, <1>5, SameSeq
<1> QED
  BY <1>6 DEF t, c
-----------------------------------------------------------------------------
(* Induction and sums.                                                     *)

\* A set of numbers with 0 that holds the next of each of its members is Nat.
LEMMA EveryNat ==
  ASSUME NEW T \in SUBSET Nat, 0 \in T, \A n \in T : n + 1 \in T
  PROVE  T = Nat
<1> DEFINE B == Nat \ T
<1>1. SUFFICES ASSUME B # {} PROVE FALSE
  OBVIOUS
<1>2. \E x \in B : \A y \in B : ~ (<<y, x>> \in OpToRel(<, Nat))
  BY <1>1, WFMin, NatLessThanWellFounded, Zenon
<1>3. PICK x \in B : \A y \in B : ~ (y < x)
  BY <1>2 DEF OpToRel
<1>4. x # 0 /\ x \in Nat
  BY <1>3
<1>5. x - 1 \in Nat /\ x - 1 < x /\ x = (x - 1) + 1
  BY <1>4
<1>6. x - 1 \in T
  BY <1>3, <1>5
<1> QED
  BY <1>3, <1>5, <1>6

\* A set of numbers that is not empty has a least one.
LEMMA LeastOf ==
  ASSUME NEW B \in SUBSET Nat, B # {}
  PROVE  \E x \in B : \A y \in B : x <= y
<1>1. \E x \in B : \A y \in B : ~ (<<y, x>> \in OpToRel(<, Nat))
  BY WFMin, NatLessThanWellFounded, Zenon
<1>2. PICK x \in B : \A y \in B : ~ (y < x)
  BY <1>1 DEF OpToRel
<1>3. \A y \in B : x <= y
  BY <1>2
<1> QED
  BY <1>3

\* g holds the sums of the first i elements of w, for i up to k.
Sums(g, w, k) ==
  /\ g \in [0 .. k -> Nat]
  /\ g[0] = 0
  /\ \A i \in 1 .. k : g[i] = g[i - 1] + w[i]

\* The sums of the prefixes exist.
LEMMA SumsExist ==
  ASSUME NEW w \in Seq(Nat)
  PROVE  \A k \in Nat : k <= Len(w) => \E g : Sums(g, w, k)
<1> DEFINE T == {k \in Nat : k <= Len(w) => \E g : Sums(g, w, k)}
<1>1. 0 \in T
  <2>1. Sums([i \in 0 .. 0 |-> 0], w, 0)
    BY DEF Sums
  <2> QED BY <2>1
<1>2. ASSUME NEW n \in T PROVE n + 1 \in T
  <2>1. SUFFICES ASSUME n + 1 <= Len(w) PROVE \E g : Sums(g, w, n + 1)
    OBVIOUS
  <2>2. PICK g : Sums(g, w, n)
    BY <2>1
  <2>3. Sums([i \in 0 .. (n + 1) |-> IF i <= n THEN g[i] ELSE g[n] + w[n + 1]], w, n + 1)
    BY <2>1, <2>2 DEF Sums
  <2> QED BY <2>3
<1>3. T = Nat
  <2>1. T \in SUBSET Nat
    OBVIOUS
  <2> HIDE DEF T
  <2> QED BY <1>1, <1>2, <2>1, EveryNat
<1> QED
  BY <1>3

\* Total is the last of them.
LEMMA TotalSums ==
  ASSUME NEW w \in Seq(Nat)
  PROVE  \E g : Sums(g, w, Len(w)) /\ Total(w) = g[Len(w)]
<1> DEFINE F(g) == [i \in 0 .. Len(w) |-> IF i = 0 THEN 0 ELSE g[i - 1] + w[i]]
           h == CHOOSE h : h = F(h)
<1>1. PICK g : Sums(g, w, Len(w))
  BY SumsExist
<1>2. g = F(g)
  BY <1>1 DEF Sums
<1>3. h = F(h)
  BY <1>2
<1>4. Total(w) = h[Len(w)]
  BY DEF Total
<1> HIDE DEF h
<1>5. \A i \in 0 .. Len(w) : h[i] = IF i = 0 THEN 0 ELSE h[i - 1] + w[i]
  BY <1>3
<1>6. h = [i \in 0 .. Len(w) |-> h[i]]
  BY <1>3
<1> DEFINE T == {k \in Nat : k <= Len(w) => h[k] \in Nat}
<1>7. T = Nat
  <2>1. T \in SUBSET Nat /\ 0 \in T
    BY <1>5
  <2>2. ASSUME NEW n \in T PROVE n + 1 \in T
    BY <1>5
  <2> HIDE DEF T
  <2> QED BY <2>1, <2>2, EveryNat
<1>8. Sums(h, w, Len(w))
  BY <1>5, <1>6, <1>7 DEF Sums
<1> QED
  BY <1>4, <1>8

\* The sum of a concatenation; of the empty sequence, of one element, and
\* of a sequence one longer.
LEMMA TotalConcat ==
  ASSUME NEW a \in Seq(Nat), NEW b \in Seq(Nat)
  PROVE  /\ Total(a) \in Nat /\ Total(b) \in Nat
         /\ Total(a \o b) = Total(a) + Total(b)
<1> DEFINE c == a \o b
           m == Len(a)
           n == Len(b)
<1>1. /\ m \in Nat /\ n \in Nat /\ c \in Seq(Nat) /\ Len(c) = m + n
      /\ \A i \in 1 .. m : c[i] = a[i] /\ a[i] \in Nat
      /\ \A i \in (m + 1) .. (m + n) : c[i] = b[i - m]
  <2>1. /\ c \in Seq(Nat) /\ Len(c) = Len(a) + Len(b)
        /\ \A i \in 1 .. Len(a) : c[i] = a[i]
        /\ \A i \in (Len(a) + 1) .. (Len(a) + Len(b)) : c[i] = b[i - Len(a)]
    BY ConcatShape
  <2> QED BY <2>1
<1> HIDE DEF c
<1>2. PICK f : Sums(f, a, m) /\ Total(a) = f[m]
  BY TotalSums
<1>3. PICK g : Sums(g, b, n) /\ Total(b) = g[n]
  BY TotalSums
<1>4. PICK h : Sums(h, c, m + n) /\ Total(c) = h[m + n]
  BY <1>1, TotalSums
<1> HIDE DEF m, n
<1>5. \A k \in 0 .. m : h[k] = f[k]
  <2> DEFINE T == {k \in Nat : k <= m => h[k] = f[k]}
  <2>1. T \in SUBSET Nat /\ 0 \in T
    BY <1>1, <1>2, <1>4 DEF Sums
  <2>2. ASSUME NEW k \in T PROVE k + 1 \in T
    <3>1. SUFFICES ASSUME k + 1 <= m PROVE h[k + 1] = f[k + 1]
      OBVIOUS
    <3>2. k + 1 \in 1 .. m /\ k + 1 \in 1 .. (m + n) /\ (k + 1) - 1 = k
      BY <1>1, <3>1
    <3> QED BY <1>1, <1>2, <1>4, <3>1, <3>2 DEF Sums
  <2>3. T = Nat
    <3> HIDE DEF T
    <3> QED BY <2>1, <2>2, EveryNat
  <2>4. ASSUME NEW k \in 0 .. m PROVE h[k] = f[k]
    <3>1. k \in T /\ k <= m
      <4>1. k \in Nat /\ k <= m
        BY <1>1
      <4> HIDE DEF T
      <4> QED BY <2>3, <4>1
    <3> QED BY <3>1
  <2> QED BY <2>4
<1>6. \A k \in 0 .. n : h[m + k] = f[m] + g[k]
  <2> DEFINE T == {k \in Nat : k <= n => h[m + k] = f[m] + g[k]}
  <2>1. T \in SUBSET Nat /\ 0 \in T
    <3>1. m + 0 = m /\ m \in 0 .. m /\ f[m] \in Nat /\ g[0] = 0
      BY <1>1, <1>2, <1>3 DEF Sums
    <3> QED BY <1>5, <3>1
  <2>2. ASSUME NEW k \in T PROVE k + 1 \in T
    <3>1. SUFFICES ASSUME k + 1 <= n PROVE h[m + (k + 1)] = f[m] + g[k + 1]
      OBVIOUS
    <3>2. /\ m + (k + 1) \in 1 .. (m + n) /\ (m + (k + 1)) - 1 = m + k
          /\ m + (k + 1) \in (m + 1) .. (m + n) /\ (m + (k + 1)) - m = k + 1
          /\ k + 1 \in 1 .. n /\ (k + 1) - 1 = k /\ k \in 0 .. n
      BY <1>1, <3>1
    <3>3. h[m + (k + 1)] = h[m + k] + b[k + 1]
      BY <1>1, <1>4, <3>2 DEF Sums
    <3>4. g[k + 1] = g[k] + b[k + 1] /\ g[k] \in Nat
      BY <1>3, <3>2 DEF Sums
    <3>5. h[m + k] = f[m] + g[k]
      BY <1>1, <3>1
    <3>6. f[m] \in Nat /\ b[k + 1] \in Nat
      <4>1. b[k + 1] \in Nat
        BY <3>2 DEF n
      <4> QED BY <1>1, <1>2, <4>1 DEF Sums
    <3> HIDE DEF T
    <3> QED BY <3>3, <3>4, <3>5, <3>6
  <2>3. T = Nat
    <3> HIDE DEF T
    <3> QED BY <2>1, <2>2, EveryNat
  <2>4. ASSUME NEW k \in 0 .. n PROVE h[m + k] = f[m] + g[k]
    <3>1. k \in T /\ k <= n
      <4>1. k \in Nat /\ k <= n
        BY <1>1
      <4> HIDE DEF T
      <4> QED BY <2>3, <4>1
    <3> QED BY <3>1
  <2> QED BY <2>4
<1>7. f[m] \in Nat /\ g[n] \in Nat /\ h[m + n] = f[m] + g[n]
  BY <1>1, <1>2, <1>3, <1>6 DEF Sums
<1> QED
  BY <1>2, <1>3, <1>4, <1>7 DEF c

LEMMA TotalEmpty == Total(<<>>) = 0
<1>1. <<>> \in Seq(Nat) /\ Len(<<>>) = 0
  OBVIOUS
<1>2. PICK g : Sums(g, <<>>, Len(<<>>)) /\ Total(<<>>) = g[Len(<<>>)]
  BY <1>1, TotalSums
<1> QED
  BY <1>1, <1>2 DEF Sums

LEMMA TotalOne == ASSUME NEW e \in Nat PROVE Total(<<e>>) = e
<1>1. <<e>> \in Seq(Nat) /\ Len(<<e>>) = 1 /\ <<e>>[1] = e
  OBVIOUS
<1>2. PICK g : Sums(g, <<e>>, Len(<<e>>)) /\ Total(<<e>>) = g[Len(<<e>>)]
  BY <1>1, TotalSums
<1>3. g[1] = g[1 - 1] + e /\ g[0] = 0 /\ 1 - 1 = 0
  BY <1>1, <1>2 DEF Sums
<1> QED
  BY <1>1, <1>2, <1>3

\* What f makes of the elements of w.
Mapped(f, w) == [i \in DOMAIN w |-> f[w[i]]]

\* The sequence v is what f makes of w, element by element.
IsMapped(v, f, w) ==
  /\ v \in Seq(Nat) /\ Len(v) = Len(w)
  /\ \A i \in 1 .. Len(w) : v[i] = f[w[i]]

LEMMA MappedShape ==
  ASSUME NEW S, NEW f \in [S -> Nat], NEW w \in Seq(S)
  PROVE  IsMapped(Mapped(f, w), f, w)
<1>1. Len(w) \in Nat /\ DOMAIN w = 1 .. Len(w) /\ \A i \in 1 .. Len(w) : w[i] \in S
  OBVIOUS
<1>2. Mapped(f, w) = [i \in 1 .. Len(w) |-> f[w[i]]]
  BY <1>1 DEF Mapped
<1>3. \A i \in 1 .. Len(w) : f[w[i]] \in Nat
  BY <1>1
<1> QED
  BY <1>1, <1>2, <1>3 DEF IsMapped

\* The sum of f over a concatenation, over nothing and over one element.
LEMMA MappedConcat ==
  ASSUME NEW S, NEW f \in [S -> Nat], NEW a \in Seq(S), NEW b \in Seq(S)
  PROVE  /\ Total(Mapped(f, a)) \in Nat /\ Total(Mapped(f, b)) \in Nat
         /\ Total(Mapped(f, a \o b)) = Total(Mapped(f, a)) + Total(Mapped(f, b))
<1> DEFINE x == Mapped(f, a)
           y == Mapped(f, b)
           z == Mapped(f, a \o b)
<1>1. /\ x \in Seq(Nat) /\ Len(x) = Len(a) /\ \A i \in 1 .. Len(a) : x[i] = f[a[i]]
      /\ y \in Seq(Nat) /\ Len(y) = Len(b) /\ \A i \in 1 .. Len(b) : y[i] = f[b[i]]
  <2>1. IsMapped(x, f, a) /\ IsMapped(y, f, b)
    BY MappedShape
  <2> HIDE DEF x, y
  <2> QED BY <2>1 DEF IsMapped
<1>2. /\ a \o b \in Seq(S) /\ Len(a \o b) = Len(a) + Len(b)
      /\ \A i \in 1 .. Len(a) : (a \o b)[i] = a[i]
      /\ \A i \in (Len(a) + 1) .. (Len(a) + Len(b)) : (a \o b)[i] = b[i - Len(a)]
  BY ConcatShape
<1> DEFINE c == a \o b
<1> HIDE DEF c
<1>3. /\ z \in Seq(Nat) /\ Len(z) = Len(a) + Len(b)
      /\ \A i \in 1 .. (Len(a) + Len(b)) : z[i] = f[c[i]]
  <2>1. c \in Seq(S) /\ Len(c) = Len(a) + Len(b) /\ z = Mapped(f, c)
    BY <1>2 DEF c
  <2>2. IsMapped(z, f, c)
    BY <2>1, MappedShape
  <2> HIDE DEF z
  <2> QED BY <2>1, <2>2 DEF IsMapped
<1> HIDE DEF x, y, z
<1>s. x \in Seq(Nat) /\ y \in Seq(Nat)
  BY <1>1
<1> DEFINE v == x \o y
<1>4. /\ v \in Seq(Nat) /\ Len(v) = Len(x) + Len(y)
      /\ \A i \in 1 .. Len(x) : v[i] = x[i]
      /\ \A i \in (Len(x) + 1) .. (Len(x) + Len(y)) : v[i] = y[i - Len(x)]
  BY <1>s, ConcatShape
<1> HIDE DEF v
<1>5. ASSUME NEW i \in 1 .. Len(z) PROVE z[i] = v[i]
  <2>1. CASE i \in 1 .. Len(a)
    BY <1>1, <1>2, <1>3, <1>4, <2>1 DEF c
  <2>2. CASE i \in (Len(a) + 1) .. (Len(a) + Len(b))
    <3>1. i - Len(a) \in 1 .. Len(b)
      BY <2>2
    <3>2. z[i] = f[b[i - Len(a)]] /\ v[i] = y[i - Len(a)]
      BY <1>1, <1>2, <1>3, <1>4, <2>2 DEF c
    <3> QED BY <1>1, <3>1, <3>2
  <2> QED BY <1>3, <2>1, <2>2
<1>6. z = v
  BY <1>1, <1>3, <1>4, <1>5, SameSeq
<1>7. Total(x) \in Nat /\ Total(y) \in Nat /\ Total(v) = Total(x) + Total(y)
  BY <1>1, TotalConcat DEF v
<1> QED
  BY <1>6, <1>7 DEF x, y, z

LEMMA MappedOne ==
  ASSUME NEW S, NEW f \in [S -> Nat], NEW e \in S
  PROVE  Total(Mapped(f, <<>>)) = 0 /\ Total(Mapped(f, <<e>>)) = f[e]
<1>1. Mapped(f, <<>>) = <<>>
  <2> DEFINE w == << >>
  <2>1. w \in Seq(S) /\ Len(w) = 0
    OBVIOUS
  <2> HIDE DEF w
  <2>2. IsMapped(Mapped(f, w), f, w)
    BY <2>1, MappedShape
  <2>3. Mapped(f, w) = <<>>
    BY <2>1, <2>2 DEF IsMapped
  <2> QED BY <2>3 DEF w
<1>2. Mapped(f, <<e>>) = <<f[e]>> /\ f[e] \in Nat
  <2> DEFINE w == <<e>>
  <2>1. w \in Seq(S) /\ Len(w) = 1 /\ w[1] = e
    OBVIOUS
  <2> HIDE DEF w
  <2>2. IsMapped(Mapped(f, w), f, w)
    BY <2>1, MappedShape
  <2>3. Mapped(f, w) = <<f[e]>>
    BY <2>1, <2>2 DEF IsMapped
  <2> QED BY <2>3 DEF w
<1> QED
  BY <1>1, <1>2, TotalEmpty, TotalOne

\* Cutting elements out of w takes what f makes of them off the sum.
LEMMA MappedCut ==
  ASSUME NEW S, NEW f \in [S -> Nat], NEW w \in Seq(S), NEW h \in Nat, NEW k \in Nat,
         h + k <= Len(w)
  PROVE  /\ Total(Mapped(f, w)) \in Nat
         /\ Total(Mapped(f, SubSeq(w, h + 1, h + k))) \in Nat
         /\ Total(Mapped(f, Without(w, h, k)))
              = Total(Mapped(f, w)) - Total(Mapped(f, SubSeq(w, h + 1, h + k)))
<1>0. /\ SubSeq(w, 1, h) \in Seq(S) /\ SubSeq(w, h + 1, h + k) \in Seq(S)
      /\ SubSeq(w, h + k + 1, Len(w)) \in Seq(S) /\ w = Glued(w, h, k)
  BY CutShape
<1> DEFINE a == SubSeq(w, 1, h)
           m == SubSeq(w, h + 1, h + k)
           b == SubSeq(w, h + k + 1, Len(w))
<1>1. /\ a \in Seq(S) /\ m \in Seq(S) /\ b \in Seq(S)
      /\ w = (a \o m) \o b /\ Without(w, h, k) = a \o b
  BY <1>0, Zenon DEF Glued, Without
<1> HIDE DEF a, m, b
<1>2. a \o m \in Seq(S)
  BY <1>1, ConcatShape
<1>3. /\ Total(Mapped(f, a)) \in Nat /\ Total(Mapped(f, m)) \in Nat
      /\ Total(Mapped(f, a \o m)) = Total(Mapped(f, a)) + Total(Mapped(f, m))
  BY <1>1, MappedConcat
<1>4. /\ Total(Mapped(f, b)) \in Nat
      /\ Total(Mapped(f, (a \o m) \o b)) = Total(Mapped(f, a \o m)) + Total(Mapped(f, b))
  BY <1>1, <1>2, MappedConcat
<1>5. Total(Mapped(f, a \o b)) = Total(Mapped(f, a)) + Total(Mapped(f, b))
  BY <1>1, MappedConcat
<1>6. /\ Total(Mapped(f, w)) = Total(Mapped(f, a)) + Total(Mapped(f, m)) + Total(Mapped(f, b))
      /\ Total(Mapped(f, Without(w, h, k))) = Total(Mapped(f, a)) + Total(Mapped(f, b))
  BY <1>1, <1>3, <1>4, <1>5
<1> QED
  BY <1>3, <1>4, <1>6 DEF m
-----------------------------------------------------------------------------
(* Copying the elements that qualify.                                      *)

\* g holds what is kept of the first i elements of w, for i up to k.
KeptOf(g, S, w, keep, k) ==
  /\ g \in [0 .. k -> Seq(S)]
  /\ g[0] = <<>>
  /\ \A i \in 1 .. k :
       g[i] = IF w[i] \in keep THEN Append(g[i - 1], w[i]) ELSE g[i - 1]

\* What is kept of the prefixes exists.
LEMMA KeptOfExist ==
  ASSUME NEW S, NEW w \in Seq(S), NEW keep
  PROVE  \A k \in Nat : k <= Len(w) => \E g : KeptOf(g, S, w, keep, k)
<1> DEFINE T == {k \in Nat : k <= Len(w) => \E g : KeptOf(g, S, w, keep, k)}
<1>1. 0 \in T
  <2>1. KeptOf([i \in 0 .. 0 |-> <<>>], S, w, keep, 0)
    <3>1. <<>> \in Seq(S)
      OBVIOUS
    <3> QED BY <3>1 DEF KeptOf
  <2> QED BY <2>1
<1>2. ASSUME NEW n \in T PROVE n + 1 \in T
  <2>1. SUFFICES ASSUME n + 1 <= Len(w) PROVE \E g : KeptOf(g, S, w, keep, n + 1)
    OBVIOUS
  <2>2. PICK g : KeptOf(g, S, w, keep, n)
    BY <2>1
  <2> DEFINE e == IF w[n + 1] \in keep THEN Append(g[n], w[n + 1]) ELSE g[n]
             h == [i \in 0 .. (n + 1) |-> IF i <= n THEN g[i] ELSE e]
  <2>3. e \in Seq(S)
    <3>1. w[n + 1] \in S /\ g[n] \in Seq(S)
      BY <2>1, <2>2, ElementOfSeq DEF KeptOf
    <3> QED BY <3>1, AppendShape
  <2>4. h[n + 1] = e /\ \A i \in 0 .. n : h[i] = g[i]
    OBVIOUS
  <2>5. h \in [0 .. (n + 1) -> Seq(S)]
    <3> HIDE DEF e
    <3> QED BY <2>2, <2>3 DEF KeptOf
  <2> HIDE DEF h
  <2>6. ASSUME NEW i \in 1 .. (n + 1)
        PROVE  h[i] = IF w[i] \in keep THEN Append(h[i - 1], w[i]) ELSE h[i - 1]
    <3>1. CASE i \in 1 .. n
      BY <2>2, <2>4, <3>1 DEF KeptOf
    <3>2. CASE i = n + 1
      BY <2>4, <3>2
    <3> QED BY <3>1, <3>2
  <2>7. h[0] = <<>>
    BY <2>2, <2>4 DEF KeptOf
  <2> QED BY <2>5, <2>6, <2>7 DEF KeptOf
<1>3. T = Nat
  <2>1. T \in SUBSET Nat
    OBVIOUS
  <2> HIDE DEF T
  <2> QED BY <1>1, <1>2, <2>1, EveryNat
<1> QED
  BY <1>3

\* Kept is the last of them.
LEMMA KeptOfLast ==
  ASSUME NEW S, NEW w \in Seq(S), NEW keep
  PROVE  \E g : KeptOf(g, S, w, keep, Len(w)) /\ Kept(w, keep) = g[Len(w)]
<1>0. Len(w) \in Nat /\ Len(w) <= Len(w)
  OBVIOUS
<1>1. PICK g : KeptOf(g, S, w, keep, Len(w))
  <2>1. \A k \in Nat : k <= Len(w) => \E g : KeptOf(g, S, w, keep, k)
    BY KeptOfExist
  <2> QED BY <1>0, <2>1
<1> DEFINE Next1(u, i) == IF i = 0 THEN <<>>
                          ELSE IF w[i] \in keep THEN Append(u[i - 1], w[i])
                          ELSE u[i - 1]
           F(u) == [i \in 0 .. Len(w) |-> Next1(u, i)]
           h == CHOOSE u : u = F(u)
<1>2. g = F(g)
  <2>1. g = [i \in 0 .. Len(w) |-> g[i]]
    BY <1>1 DEF KeptOf
  <2>2. \A i \in 0 .. Len(w) : g[i] = Next1(g, i)
    <3>1. \A i \in 0 .. Len(w) : i = 0 \/ i \in 1 .. Len(w)
      BY <1>0
    <3>2. g[0] = Next1(g, 0)
      BY <1>1 DEF KeptOf
    <3>3. \A i \in 1 .. Len(w) : g[i] = Next1(g, i)
      BY <1>0, <1>1 DEF KeptOf
    <3> HIDE DEF Next1
    <3> QED BY <3>1, <3>2, <3>3
  <2> HIDE DEF Next1
  <2> QED BY <2>1, <2>2, Zenon
<1>3. h = F(h)
  BY <1>2
<1>4. Kept(w, keep) = h[Len(w)]
  BY DEF Kept
<1> HIDE DEF h
<1>5. /\ h[0] = <<>>
      /\ \A i \in 1 .. Len(w) :
           h[i] = IF w[i] \in keep THEN Append(h[i - 1], w[i]) ELSE h[i - 1]
  <2>1. \A i \in 0 .. Len(w) : h[i] = Next1(h, i)
    <3> HIDE DEF Next1
    <3> QED BY <1>3
  <2>2. 0 \in 0 .. Len(w) /\ \A i \in 1 .. Len(w) : i \in 0 .. Len(w) /\ i # 0
    BY <1>0
  <2>3. h[0] = Next1(h, 0) /\ \A i \in 1 .. Len(w) : h[i] = Next1(h, i)
    <3> HIDE DEF Next1
    <3> QED BY <2>1, <2>2
  <2> QED BY <2>2, <2>3
<1>6. h = [i \in 0 .. Len(w) |-> h[i]]
  <2> HIDE DEF Next1
  <2> QED BY <1>3
<1> HIDE DEF F, Next1
<1> DEFINE T == {k \in Nat : k <= Len(w) => h[k] \in Seq(S)}
<1>7. T = Nat
  <2>1. T \in SUBSET Nat /\ 0 \in T
    <3>1. <<>> \in Seq(S)
      OBVIOUS
    <3> QED BY <1>5, <3>1
  <2>2. ASSUME NEW n \in T PROVE n + 1 \in T
    <3>1. SUFFICES ASSUME n + 1 <= Len(w) PROVE h[n + 1] \in Seq(S)
      OBVIOUS
    <3>2. h[n] \in Seq(S) /\ w[n + 1] \in S /\ n + 1 \in 1 .. Len(w)
      BY <1>0, <3>1, ElementOfSeq
    <3>3. h[n + 1] = IF w[n + 1] \in keep THEN Append(h[n], w[n + 1]) ELSE h[n]
      BY <1>5, <3>2
    <3> QED BY <3>2, <3>3, AppendShape
  <2> HIDE DEF T
  <2> QED BY <2>1, <2>2, EveryNat
<1>8. \A i \in 0 .. Len(w) : h[i] \in Seq(S)
  <2>1. ASSUME NEW i \in 0 .. Len(w) PROVE h[i] \in Seq(S)
    <3>1. i \in T /\ i <= Len(w)
      <4>1. i \in Nat /\ i <= Len(w)
        BY <1>0
      <4> HIDE DEF T
      <4> QED BY <1>7, <4>1
    <3> QED BY <3>1
  <2> QED BY <2>1
<1>9. KeptOf(h, S, w, keep, Len(w))
  BY <1>5, <1>6, <1>8 DEF KeptOf
<1> QED
  BY <1>4, <1>9

\* v is, in order, the elements at the positions up to k of w that are in keep.
IsKept(v, S, w, keep, k) ==
  /\ v \in Seq(S)
  /\ \E pos \in [1 .. Len(v) -> 1 .. k] :
       /\ \A i, j \in 1 .. Len(v) : i < j => pos[i] < pos[j]
       /\ \A i \in 1 .. Len(v) : v[i] = w[pos[i]] /\ w[pos[i]] \in keep
       /\ \A j \in 1 .. k : w[j] \in keep => \E i \in 1 .. Len(v) : pos[i] = j

\* One more element, kept or not.
LEMMA KeptNext ==
  ASSUME NEW S, NEW w \in Seq(S), NEW keep, NEW n \in Nat, n + 1 <= Len(w),
         NEW v, IsKept(v, S, w, keep, n)
  PROVE  IsKept(IF w[n + 1] \in keep THEN Append(v, w[n + 1]) ELSE v,
                S, w, keep, n + 1)
<1>1. /\ v \in Seq(S) /\ Len(v) \in Nat /\ w[n + 1] \in S
  BY ElementOfSeq DEF IsKept
<1>2. PICK pos \in [1 .. Len(v) -> 1 .. n] :
        /\ \A i, j \in 1 .. Len(v) : i < j => pos[i] < pos[j]
        /\ \A i \in 1 .. Len(v) : v[i] = w[pos[i]] /\ w[pos[i]] \in keep
        /\ \A j \in 1 .. n : w[j] \in keep => \E i \in 1 .. Len(v) : pos[i] = j
  BY DEF IsKept
<1>3. CASE w[n + 1] \notin keep
  <2>1. pos \in [1 .. Len(v) -> 1 .. (n + 1)]
    BY <1>2
  <2>2. \A j \in 1 .. (n + 1) : w[j] \in keep => \E i \in 1 .. Len(v) : pos[i] = j
    <3>1. \A j \in 1 .. (n + 1) : j \in 1 .. n \/ j = n + 1
      OBVIOUS
    <3> QED BY <1>2, <1>3, <3>1
  <2> QED BY <1>1, <1>2, <1>3, <2>1, <2>2 DEF IsKept
<1>4. CASE w[n + 1] \in keep
  <2> DEFINE u == Append(v, w[n + 1])
             m == Len(v) + 1
             q == [i \in 1 .. m |-> IF i = m THEN n + 1 ELSE pos[i]]
  <2>1. /\ u \in Seq(S) /\ Len(u) = m /\ u[m] = w[n + 1]
        /\ \A i \in 1 .. Len(v) : u[i] = v[i]
    BY <1>1, AppendShape
  <2>2. /\ m \in Nat /\ m \in 1 .. m
        /\ \A i \in 1 .. m : i = m \/ (i \in 1 .. Len(v) /\ i < m)
        /\ \A i \in 1 .. Len(v) : i \in 1 .. m /\ i # m /\ pos[i] \in 1 .. n
    <3>1. \A i \in 1 .. Len(v) : pos[i] \in 1 .. n
      BY <1>2
    <3>2. /\ m \in Nat /\ m \in 1 .. m
          /\ \A i \in 1 .. m : i = m \/ (i \in 1 .. Len(v) /\ i < m)
          /\ \A i \in 1 .. Len(v) : i \in 1 .. m /\ i # m
      <4> DEFINE l == Len(v)
      <4>1. l \in Nat /\ m = l + 1
        BY <1>1
      <4> HIDE DEF l, m
      <4>2. /\ m \in Nat /\ m \in 1 .. m
            /\ \A i \in 1 .. m : i = m \/ (i \in 1 .. l /\ i < m)
            /\ \A i \in 1 .. l : i \in 1 .. m /\ i # m
        BY <4>1
      <4> QED BY <4>2 DEF l
    <3> HIDE DEF m
    <3> QED BY <3>1, <3>2
  <2>3. /\ q[m] = n + 1 /\ \A i \in 1 .. Len(v) : q[i] = pos[i]
        /\ q \in [1 .. m -> 1 .. (n + 1)]
    <3>1. q[m] = n + 1
      BY <2>2
    <3>2. \A i \in 1 .. Len(v) : q[i] = pos[i]
      <4> HIDE DEF m
      <4> QED BY <2>2
    <3>3. \A i \in 1 .. m : q[i] \in 1 .. (n + 1)
      <4>1. \A x \in 1 .. n : x \in 1 .. (n + 1)
        OBVIOUS
      <4>2. n + 1 \in 1 .. (n + 1)
        OBVIOUS
      <4> HIDE DEF m, q
      <4> QED BY <2>2, <3>1, <3>2, <4>1, <4>2
    <3>4. q = [i \in 1 .. m |-> q[i]]
      OBVIOUS
    <3> HIDE DEF m, q
    <3> QED BY <3>1, <3>2, <3>3, <3>4
  <2> HIDE DEF q, u
  <2>4. ASSUME NEW i \in 1 .. m, NEW j \in 1 .. m, i < j PROVE q[i] < q[j]
    <3>0. i \in 1 .. Len(v)
      BY <1>1, <2>4
    <3>1. i \in 1 .. Len(v) /\ q[i] = pos[i] /\ pos[i] \in 1 .. n
      BY <1>2, <2>3, <3>0
    <3>2. CASE j = m
      BY <2>3, <3>1, <3>2
    <3>3. CASE j \in 1 .. Len(v)
      BY <1>2, <2>3, <2>4, <3>1, <3>3
    <3> QED BY <2>2, <3>2, <3>3
  <2>5. ASSUME NEW i \in 1 .. m PROVE u[i] = w[q[i]] /\ w[q[i]] \in keep
    <3>1. CASE i = m
      BY <1>4, <2>1, <2>3, <3>1
    <3>2. CASE i \in 1 .. Len(v)
      BY <1>2, <2>1, <2>3, <3>2
    <3> QED BY <2>2, <3>1, <3>2
  <2>6. ASSUME NEW j \in 1 .. (n + 1), w[j] \in keep PROVE \E i \in 1 .. m : q[i] = j
    <3>1. CASE j = n + 1
      BY <2>2, <2>3, <3>1
    <3>2. CASE j \in 1 .. n
      <4>1. PICK i \in 1 .. Len(v) : pos[i] = j
        BY <1>2, <2>6, <3>2
      <4> QED BY <2>2, <2>3, <4>1
    <3> QED BY <3>1, <3>2
  <2>7. IsKept(u, S, w, keep, n + 1)
    <3> HIDE DEF m
    <3> QED BY <2>1, <2>3, <2>4, <2>5, <2>6 DEF IsKept
  <2> QED BY <1>4, <2>7 DEF u
<1> QED
  BY <1>3, <1>4

\* Kept(w, keep) is the elements of w that are in keep, in their order.
LEMMA KeptShape ==
  ASSUME NEW S, NEW w \in Seq(S), NEW keep
  PROVE  IsKept(Kept(w, keep), S, w, keep, Len(w))
<1>0. Len(w) \in Nat
  OBVIOUS
<1>1. PICK g : KeptOf(g, S, w, keep, Len(w)) /\ Kept(w, keep) = g[Len(w)]
  BY KeptOfLast
<1> DEFINE T == {k \in Nat : k <= Len(w) => IsKept(g[k], S, w, keep, k)}
<1>2. T \in SUBSET Nat /\ 0 \in T
  <2>1. g[0] = <<>>
    BY <1>1 DEF KeptOf
  <2>2. <<>> \in Seq(S) /\ Len(<<>>) = 0 /\ 1 .. 0 = {}
    OBVIOUS
  <2>3. [i \in 1 .. 0 |-> i] \in [1 .. Len(<<>>) -> 1 .. 0]
    BY <2>2
  <2>4. IsKept(<<>>, S, w, keep, 0)
    BY <2>2, <2>3 DEF IsKept
  <2> QED BY <2>1, <2>4
<1>3. ASSUME NEW n \in T PROVE n + 1 \in T
  <2>1. SUFFICES ASSUME n + 1 <= Len(w) PROVE IsKept(g[n + 1], S, w, keep, n + 1)
    OBVIOUS
  <2>2. IsKept(g[n], S, w, keep, n) /\ n \in Nat
    BY <1>0, <2>1
  <2>3. g[n + 1] = IF w[n + 1] \in keep THEN Append(g[n], w[n + 1]) ELSE g[n]
    <3>1. n + 1 \in 1 .. Len(w) /\ (n + 1) - 1 = n
      BY <1>0, <2>1
    <3>2. g[n + 1] = IF w[n + 1] \in keep THEN Append(g[(n + 1) - 1], w[n + 1])
                     ELSE g[(n + 1) - 1]
      BY <1>1, <3>1 DEF KeptOf
    <3> QED BY <3>1, <3>2
  <2> HIDE DEF T
  <2> QED BY <2>1, <2>2, <2>3, KeptNext
<1>4. T = Nat
  <2> HIDE DEF T
  <2> QED BY <1>2, <1>3, EveryNat
<1>5. Len(w) \in T
  <2> HIDE DEF T
  <2> QED BY <1>0, <1>4
<1> QED
  BY <1>0, <1>1, <1>5

-----------------------------------------------------------------------------
(* The ring.                                                               *)

\* The slot k steps back from the head h of a ring of n slots.
Back(h, k, n) == (h - k + n) % n

\* An index below the capacity stays where it is.
LEMMA ModLow ==
  ASSUME NEW n \in Nat \ {0}, NEW x \in Nat, x < n
  PROVE  x % n = x
OBVIOUS

\* An index in the second lap wraps once.
LEMMA ModHigh ==
  ASSUME NEW n \in Nat \ {0}, NEW x \in Nat, n <= x, x < 2 * n
  PROVE  x % n = x - n
OBVIOUS

\* Walking back, case by case.
LEMMA BackCases ==
  ASSUME NEW n \in Nat \ {0}, NEW h \in 0 .. (n - 1), NEW k \in 1 .. n
  PROVE  /\ Back(h, k, n) = IF k <= h THEN h - k ELSE h - k + n
         /\ Back(h, k, n) \in 0 .. (n - 1)
<1>1. CASE k <= h
  <2>1. h - k + n \in Nat /\ n <= h - k + n /\ h - k + n < 2 * n
    BY <1>1
  <2>2. (h - k + n) % n = (h - k + n) - n
    BY <2>1, ModHigh
  <2> QED BY <1>1, <2>2 DEF Back
<1>2. CASE h < k
  <2>1. h - k + n \in Nat /\ h - k + n < n
    BY <1>2
  <2>2. (h - k + n) % n = h - k + n
    BY <2>1, ModLow
  <2> QED BY <1>2, <2>1, <2>2 DEF Back
<1> QED
  BY <1>1, <1>2

\* Only the full walk comes back to the head itself.
LEMMA BackNotHead ==
  ASSUME NEW n \in Nat \ {0}, NEW h \in 0 .. (n - 1), NEW k \in 1 .. (n - 1)
  PROVE  Back(h, k, n) # h
<1>1. k \in 1 .. n
  OBVIOUS
<1>2. Back(h, k, n) = IF k <= h THEN h - k ELSE h - k + n
  BY <1>1, BackCases
<1> QED
  BY <1>2

\* After a Push the head is one slot further: one step back is the slot just
\* written, k steps back are the k - 1 steps back of before.
LEMMA BackFromNext ==
  ASSUME NEW n \in Nat \ {0}, NEW h \in 0 .. (n - 1)
  PROVE  /\ (h + 1) % n \in 0 .. (n - 1)
         /\ Back((h + 1) % n, 1, n) = h
         /\ \A k \in 2 .. n : Back((h + 1) % n, k, n) = Back(h, k - 1, n)
<1> DEFINE g == (h + 1) % n
<1>1. g = IF h + 1 < n THEN h + 1 ELSE 0
  <2>1. CASE h + 1 < n
    BY <2>1, ModLow
  <2>2. CASE h + 1 = n
    <3>1. n \in Nat /\ n <= n /\ n < 2 * n
      OBVIOUS
    <3>2. n % n = n - n
      BY <3>1, ModHigh
    <3> QED BY <2>2, <3>2
  <2> QED BY <2>1, <2>2
<1>2. g \in 0 .. (n - 1)
  BY <1>1
<1> HIDE DEF g
<1>3. Back(g, 1, n) = h
  <2>1. Back(g, 1, n) = IF 1 <= g THEN g - 1 ELSE g - 1 + n
    BY <1>2, BackCases
  <2> QED BY <1>1, <2>1
<1>4. ASSUME NEW k \in 2 .. n PROVE Back(g, k, n) = Back(h, k - 1, n)
  <2>1. k \in 1 .. n /\ k - 1 \in 1 .. n
    OBVIOUS
  <2>2. Back(g, k, n) = IF k <= g THEN g - k ELSE g - k + n
    BY <1>2, <2>1, BackCases
  <2>3. Back(h, k - 1, n) = IF k - 1 <= h THEN h - (k - 1) ELSE h - (k - 1) + n
    BY <2>1, BackCases
  <2> QED BY <1>1, <2>2, <2>3
<1> QED
  BY <1>2, <1>3, <1>4 DEF g

\* The slot a reader of m entries reaches after i of them is the slot m - i
\* steps back.
LEMMA BackForward ==
  ASSUME NEW n \in Nat \ {0}, NEW h \in 0 .. (n - 1), NEW m \in 1 .. n,
         NEW i \in 0 .. (m - 1)
  PROVE  (((h - m + n) % n) + i) % n = Back(h, m - i, n)
<1> DEFINE f == (h - m + n) % n
<1>1. f = IF m <= h THEN h - m ELSE h - m + n
  BY BackCases DEF Back
<1>2. m - i \in 1 .. n
  OBVIOUS
<1>3. Back(h, m - i, n) = IF m - i <= h THEN h - (m - i) ELSE h - (m - i) + n
  BY <1>2, BackCases
<1> HIDE DEF f
<1>4. CASE f + i < n
  <2>1. f + i \in Nat
    BY <1>1
  <2>2. (f + i) % n = f + i
    BY <1>4, <2>1, ModLow
  <2> QED BY <1>1, <1>3, <1>4, <2>2 DEF f
<1>5. CASE n <= f + i
  <2>1. f + i \in Nat /\ f + i < 2 * n
    BY <1>1
  <2>2. (f + i) % n = (f + i) - n
    BY <1>5, <2>1, ModHigh
  <2> QED BY <1>1, <1>3, <1>5, <2>2 DEF f
<1>6. f \in Int
  BY <1>1
<1> QED
  BY <1>4, <1>5, <1>6
-----------------------------------------------------------------------------
\* Push keeps the ring sound.
LEMMA PushKeeps ==
  ASSUME NEW r, RingOK(r), NEW q, q = PushTo(r, r.last + 1)
  PROVE  RingOK(q)
<1> DEFINE n == r.len
           h == r.head
           l == r.last
           c == r.count
           b == r.buf
           g == (h + 1) % n
           d == [b EXCEPT ![h] = l + 1]
           e == IF c < n THEN c + 1 ELSE c
<1>1. /\ n \in Nat \ {0} /\ b \in [0 .. (n - 1) -> Nat] /\ h \in 0 .. (n - 1)
      /\ l \in Nat /\ c = IF l < n THEN l ELSE n
      /\ \A k \in 1 .. c : b[Back(h, k, n)] = l - k + 1
  BY DEF RingOK, Back
<1>2. /\ q.len = n /\ q.head = g /\ q.last = l + 1
      /\ q.count = e /\ q.buf = d
  BY DEF PushTo
<1> HIDE DEF n, h, l, c, b
<1>3. /\ g \in 0 .. (n - 1) /\ Back(g, 1, n) = h
      /\ \A k \in 2 .. n : Back(g, k, n) = Back(h, k - 1, n)
  BY <1>1, BackFromNext
<1>4. d \in [0 .. (n - 1) -> Nat] /\ d[h] = l + 1
      /\ \A i \in 0 .. (n - 1) : i # h => d[i] = b[i]
  BY <1>1
<1>5. e = IF l + 1 < n THEN l + 1 ELSE n
  BY <1>1
<1> HIDE DEF g, d, e
<1>6. ASSUME NEW k \in 1 .. e PROVE d[Back(g, k, n)] = (l + 1) - k + 1
  <2>1. CASE k = 1
    BY <1>1, <1>3, <1>4, <2>1
  <2>2. CASE k > 1
    <3>1. k \in 2 .. n /\ k - 1 \in 1 .. c /\ k - 1 \in 1 .. (n - 1) /\ k - 1 \in 1 .. n
      BY <1>1, <1>5, <2>2
    <3>2. Back(h, k - 1, n) # h /\ Back(h, k - 1, n) \in 0 .. (n - 1)
      BY <1>1, <3>1, BackCases, BackNotHead
    <3>3. d[Back(g, k, n)] = b[Back(h, k - 1, n)]
      BY <1>3, <1>4, <3>1, <3>2
    <3>4. b[Back(h, k - 1, n)] = l - (k - 1) + 1
      BY <1>1, <3>1
    <3>5. l - (k - 1) + 1 = (l + 1) - k + 1
      BY <1>1
    <3> QED BY <3>3, <3>4, <3>5
  <2> QED BY <1>5, <2>1, <2>2
<1>7. l + 1 \in Nat
  BY <1>1
<1>8. /\ q.len \in Nat \ {0} /\ q.buf \in [0 .. (q.len - 1) -> Nat]
      /\ q.head \in 0 .. (q.len - 1) /\ q.last \in Nat
      /\ q.count = IF q.last < q.len THEN q.last ELSE q.len
  BY <1>1, <1>2, <1>3, <1>4, <1>5, <1>7
<1>9. ASSUME NEW k \in 1 .. q.count
      PROVE  q.buf[(q.head - k + q.len) % q.len] = q.last - k + 1
  <2>1. d[Back(g, k, n)] = (l + 1) - k + 1
    BY <1>2, <1>6
  <2> QED BY <1>2, <2>1 DEF Back
<1> QED
  BY <1>8, <1>9 DEF RingOK

\* A new ring is sound.
LEMMA NewKeeps ==
  ASSUME NEW k \in Int, NEW r, r = NewRing(k) PROVE RingOK(r)
<1> DEFINE n == IF k < 1 THEN 1 ELSE k
<1>1. n \in Nat \ {0}
  OBVIOUS
<1>2. /\ r.len = n /\ r.head = 0 /\ r.count = 0 /\ r.last = 0
      /\ r.buf = [i \in 0 .. (n - 1) |-> 0]
  BY DEF NewRing
<1> HIDE DEF n
<1> QED BY <1>1, <1>2 DEF RingOK
-----------------------------------------------------------------------------
\* What a sound ring says of its samples: m steps back from the head, going
\* forward, are the samples from last - m + 1 on.
LEMMA ReadForward ==
  ASSUME NEW r, RingOK(r), NEW m \in 1 .. r.count, NEW i \in 0 .. (m - 1)
  PROVE  r.buf[(((r.head - m + r.len) % r.len) + i) % r.len]
           = r.last - m + 1 + i
<1> DEFINE n == r.len
           h == r.head
           l == r.last
           c == r.count
<1>1. /\ n \in Nat \ {0} /\ h \in 0 .. (n - 1)
      /\ l \in Nat /\ c = IF l < n THEN l ELSE n
      /\ \A k \in 1 .. c : r.buf[Back(h, k, n)] = l - k + 1
  BY DEF RingOK, Back
<1> HIDE DEF n, h, l, c
<1>2. m \in 1 .. c
  BY DEF c
<1>3. m \in 1 .. n /\ m - i \in 1 .. c
  BY <1>1, <1>2
<1>4. (((h - m + n) % n) + i) % n = Back(h, m - i, n)
  BY <1>1, <1>3, BackForward
<1>5. r.buf[Back(h, m - i, n)] = l - (m - i) + 1
  BY <1>1, <1>3
<1>6. l - (m - i) + 1 = l - m + 1 + i
  BY <1>1, <1>3
<1> QED
  BY <1>4, <1>5, <1>6 DEF n, h, l

\* Since answers what a sound ring owes, for every cursor and limit.
LEMMA SinceOwed ==
  ASSUME NEW r, RingOK(r), NEW after \in Nat, NEW limit \in Nat
  PROVE  SinceOf(r, after, limit) = Owed(r, after, limit)
<1> DEFINE n == r.len
           h == r.head
           l == r.last
           c == r.count
           start == StartOf(r, after)
           all == l - start + 1
           k == IF limit > 0 /\ all > limit THEN limit ELSE all
           oldest == OldestOf(r)
           first == (h - c + (start - oldest) + n) % n
           lo == IF after < l - n THEN l - n + 1 ELSE after + 1
           hi == IF limit > 0 /\ l - lo + 1 > limit THEN lo + limit - 1 ELSE l
<1>1. /\ n \in Nat \ {0} /\ h \in 0 .. (n - 1)
      /\ l \in Nat /\ c = IF l < n THEN l ELSE n
  BY DEF RingOK
<1>2. oldest = IF c = 0 THEN 0 ELSE l - c + 1
  BY DEF OldestOf
<1>3. start = IF oldest > after + 1 THEN oldest ELSE after + 1
  BY DEF StartOf
<1>4. SinceOf(r, after, limit) =
        IF c = 0 \/ start > l THEN <<>>
        ELSE [i \in 1 .. k |-> r.buf[(first + (i - 1)) % n]]
  BY DEF SinceOf
<1>5. Owed(r, after, limit) = [i \in 1 .. (hi - lo + 1) |-> lo + i - 1]
  BY DEF Owed, Run
<1>r. ASSUME NEW m \in 1 .. c, NEW i \in 0 .. (m - 1)
      PROVE  r.buf[(((h - m + n) % n) + i) % n] = l - m + 1 + i
  BY ReadForward
<1> HIDE DEF n, h, l, c, start, oldest, first, lo, hi, k, all
<1>6. CASE c = 0 \/ start > l
  <2>1. hi - lo + 1 <= 0 /\ hi \in Int /\ lo \in Int
    BY <1>1, <1>2, <1>3, <1>6 DEF lo, hi
  <2>2. 1 .. (hi - lo + 1) = {}
    BY <2>1
  <2>3. [i \in 1 .. (hi - lo + 1) |-> lo + i - 1] = <<>>
    BY <2>2
  <2> QED BY <1>4, <1>5, <1>6, <2>3
<1>7. CASE c # 0 /\ start <= l
  <2>1. /\ start = lo /\ lo \in Nat /\ oldest <= lo /\ lo <= l /\ oldest = l - c + 1
        /\ hi \in Nat /\ k = hi - lo + 1 /\ hi <= l
    BY <1>1, <1>2, <1>3, <1>7 DEF lo, hi, k, all
  <2> DEFINE m == l - lo + 1
  <2>2. m \in 1 .. c /\ l - m + 1 = lo /\ h - c + (start - oldest) + n = h - m + n
    BY <1>1, <2>1
  <2>3. first = (h - m + n) % n
    BY <2>2 DEF first
  <2> HIDE DEF m
  <2>4. ASSUME NEW i \in 1 .. k
        PROVE  r.buf[(first + (i - 1)) % n] = lo + i - 1
    <3>1. i - 1 \in 0 .. (m - 1)
      BY <1>1, <2>1, <2>2 DEF m
    <3>2. r.buf[(((h - m + n) % n) + (i - 1)) % n] = l - m + 1 + (i - 1)
      BY <1>r, <2>2, <3>1
    <3>3. l - m + 1 + (i - 1) = lo + i - 1
      BY <2>1, <2>2
    <3> QED BY <2>3, <3>2, <3>3
  <2>5. [i \in 1 .. k |-> r.buf[(first + (i - 1)) % n]]
          = [i \in 1 .. k |-> lo + i - 1]
    BY <2>4
  <2>6. SinceOf(r, after, limit)
          = [i \in 1 .. k |-> r.buf[(first + (i - 1)) % n]]
    <3>1. ~ (c = 0 \/ start > l)
      BY <1>1, <1>7, <2>1
    <3> QED BY <1>4, <3>1
  <2>7. 1 .. k = 1 .. (hi - lo + 1)
    BY <2>1
  <2>8. [i \in 1 .. k |-> lo + i - 1] = [i \in 1 .. (hi - lo + 1) |-> lo + i - 1]
    BY <2>7
  <2> QED BY <1>5, <2>5, <2>6, <2>8
<1>8. start \in Int
  BY <1>1, <1>2, <1>3
<1> QED
  BY <1>1, <1>6, <1>7, <1>8

\* Tail answers the newest samples.
LEMMA TailNewest ==
  ASSUME NEW r, RingOK(r), NEW w \in Nat
  PROVE  TailOf(r, w) =
           Run(r.last - (IF w < r.count THEN w ELSE r.count) + 1, r.last)
<1> DEFINE n == r.len
           h == r.head
           l == r.last
           c == r.count
           m == IF w < c THEN w ELSE c
           first == (h - m + n) % n
<1>1. /\ n \in Nat \ {0} /\ h \in 0 .. (n - 1)
      /\ l \in Nat /\ c = IF l < n THEN l ELSE n
  BY DEF RingOK
<1>2. TailOf(r, w) =
        IF m <= 0 THEN <<>>
        ELSE [i \in 1 .. m |-> r.buf[(first + (i - 1)) % n]]
  BY DEF TailOf
<1>r. ASSUME NEW q \in 1 .. c, NEW i \in 0 .. (q - 1)
      PROVE  r.buf[(((h - q + n) % n) + i) % n] = l - q + 1 + i
  BY ReadForward
<1>3. Run(l - m + 1, l) = [i \in 1 .. (l - (l - m + 1) + 1) |-> (l - m + 1) + i - 1]
  BY DEF Run
<1> HIDE DEF n, h, l, c
<1>4. m \in 0 .. c /\ l - (l - m + 1) + 1 = m /\ c \in Nat
  BY <1>1
<1> HIDE DEF m, first
<1>5. CASE m = 0
  <2>1. 1 .. m = {}
    BY <1>5
  <2>2. [i \in 1 .. m |-> (l - m + 1) + i - 1] = <<>>
    BY <2>1
  <2> QED BY <1>2, <1>3, <1>4, <1>5, <2>2 DEF m, l, c
<1>6. CASE m # 0
  <2>1. m \in 1 .. c /\ ~ (m <= 0)
    BY <1>4, <1>6
  <2>2. ASSUME NEW i \in 1 .. m
        PROVE  r.buf[(first + (i - 1)) % n] = (l - m + 1) + i - 1
    <3>1. i - 1 \in 0 .. (m - 1)
      BY <1>4
    <3>2. r.buf[(((h - m + n) % n) + (i - 1)) % n] = l - m + 1 + (i - 1)
      BY <1>r, <2>1, <3>1
    <3>3. l - m + 1 + (i - 1) = (l - m + 1) + i - 1
      BY <1>1, <1>4
    <3> QED BY <3>2, <3>3 DEF first
  <2>3. [i \in 1 .. m |-> r.buf[(first + (i - 1)) % n]]
          = [i \in 1 .. m |-> (l - m + 1) + i - 1]
    BY <2>2
  <2> QED BY <1>2, <1>3, <1>4, <2>1, <2>3 DEF m, l, c
<1> QED
  BY <1>5, <1>6

\* A gap is declared exactly when a sample after the cursor was overwritten.
LEMMA GapOwed ==
  ASSUME NEW r, RingOK(r), NEW after \in Nat
  PROVE  GapAfter(r, after) <=>
           after # 0 /\ \E s \in (after + 1) .. r.last : s <= r.last - r.len
<1> DEFINE n == r.len
           l == r.last
           c == r.count
<1>1. n \in Nat \ {0} /\ l \in Nat /\ c = IF l < n THEN l ELSE n
  BY DEF RingOK
<1>2. GapAfter(r, after) <=> c # 0 /\ after # 0 /\ after + 1 < l - c + 1
  BY DEF GapAfter, OldestOf
<1> HIDE DEF n, l, c
<1>3. c # 0 /\ after + 1 < l - c + 1 <=> after + 1 <= l - n
  BY <1>1
<1>4. ASSUME after + 1 <= l - n
      PROVE  \E s \in (after + 1) .. l : s <= l - n
  BY <1>1, <1>4
<1>5. ASSUME NEW s \in (after + 1) .. l, s <= l - n
      PROVE  after + 1 <= l - n
  BY <1>1, <1>5
<1> QED BY <1>2, <1>3, <1>4, <1>5 DEF n, l, c

\* Push moves the newest sample by one, and the oldest never back.
LEMMA PushMoves ==
  ASSUME NEW r, RingOK(r), NEW q, q = PushTo(r, r.last + 1)
  PROVE  q.last = r.last + 1 /\ OldestOf(r) <= OldestOf(q)
<1> DEFINE n == r.len
           l == r.last
           c == r.count
           e == IF c < n THEN c + 1 ELSE c
<1>1. n \in Nat \ {0} /\ l \in Nat /\ c = IF l < n THEN l ELSE n
  BY DEF RingOK
<1>2. q.last = l + 1 /\ q.count = e
  BY DEF PushTo
<1>3. OldestOf(r) = IF c = 0 THEN 0 ELSE l - c + 1
  BY DEF OldestOf
<1>4. OldestOf(q) = IF e = 0 THEN 0 ELSE (l + 1) - e + 1
  BY <1>2 DEF OldestOf
<1> HIDE DEF n, l, c
<1> QED BY <1>1, <1>2, <1>3, <1>4 DEF l

\* The oldest sample is a number, at or behind the newest.
LEMMA OldestIn ==
  ASSUME NEW r, RingOK(r) PROVE OldestOf(r) \in Nat /\ OldestOf(r) <= r.last
<1> DEFINE n == r.len
           l == r.last
           c == r.count
<1>1. n \in Nat \ {0} /\ l \in Nat /\ c = IF l < n THEN l ELSE n
  BY DEF RingOK
<1>2. OldestOf(r) = IF c = 0 THEN 0 ELSE l - c + 1
  BY DEF OldestOf
<1> HIDE DEF n, l, c
<1> QED BY <1>1, <1>2 DEF l

\* What Since answers: consecutive samples that follow the cursor, right
\* after it unless a gap is told, and then from the oldest held.
LEMMA SinceShape ==
  ASSUME NEW r, RingOK(r), NEW after \in Nat, NEW limit \in Nat \ {0},
         NEW ls, ls = SinceOf(r, after, limit)
  PROVE  /\ ls \in Seq(Nat)
         /\ \A i \in 1 .. Len(ls) :
              ls[i] = ls[1] + i - 1 /\ ls[i] > after /\ ls[i] <= r.last
         /\ ls # <<>> /\ after # 0 =>
              IF GapAfter(r, after) THEN ls[1] <= OldestOf(r)
              ELSE ls[1] = after + 1
<1> DEFINE n == r.len
           l == r.last
           c == r.count
           lo == IF after < l - n THEN l - n + 1 ELSE after + 1
           hi == IF limit > 0 /\ l - lo + 1 > limit THEN lo + limit - 1 ELSE l
           k == hi - lo + 1
           m == IF k > 0 THEN k ELSE 0
<1>1. n \in Nat \ {0} /\ l \in Nat /\ c = IF l < n THEN l ELSE n
  BY DEF RingOK
<1>2. OldestOf(r) = IF c = 0 THEN 0 ELSE l - c + 1
  BY DEF OldestOf
<1>3. GapAfter(r, after) <=> c # 0 /\ after # 0 /\ after + 1 < OldestOf(r)
  BY DEF GapAfter
<1>4. ls = [i \in 1 .. k |-> lo + i - 1]
  BY SinceOwed DEF Owed, Run
<1> HIDE DEF n, l, c
<1>5. /\ lo \in Nat /\ lo > after /\ hi \in Int /\ hi <= l /\ k \in Int
      /\ m \in Nat /\ 1 .. k = 1 .. m
  BY <1>1
<1>6. ASSUME k > 0, after # 0
      PROVE  IF GapAfter(r, after) THEN lo <= OldestOf(r) ELSE lo = after + 1
  BY <1>1, <1>2, <1>3, <1>6
<1>7. k = hi - lo + 1
  OBVIOUS
<1>8. m = IF k > 0 THEN k ELSE 0
  OBVIOUS
<1> HIDE DEF lo, hi, k, m
<1>9. ls = [i \in 1 .. m |-> lo + i - 1]
  BY <1>4, <1>5
<1>10. \A i \in 1 .. m : lo + i - 1 \in Nat
  BY <1>5
<1>11. ls \in Seq(Nat) /\ Len(ls) = m /\ \A i \in 1 .. m : ls[i] = lo + i - 1
  BY <1>5, <1>9, <1>10
<1>12. ASSUME NEW i \in 1 .. Len(ls)
       PROVE  ls[i] = ls[1] + i - 1 /\ ls[i] > after /\ ls[i] <= l
  <2>1. m = k /\ i \in 1 .. k /\ 1 \in 1 .. m /\ i \in 1 .. m
    BY <1>5, <1>8, <1>11
  <2>2. ls[i] = lo + i - 1 /\ ls[1] = lo + 1 - 1
    BY <1>11, <2>1
  <2> QED BY <1>1, <1>5, <1>7, <2>1, <2>2
<1>13. ASSUME ls # <<>>, after # 0
       PROVE  IF GapAfter(r, after) THEN ls[1] <= OldestOf(r)
              ELSE ls[1] = after + 1
  <2>1. m # 0
    BY <1>11, <1>13
  <2>2. k > 0 /\ ls[1] = lo
    BY <1>5, <1>8, <1>11, <2>1
  <2> QED BY <1>6, <1>13, <2>2
<1> QED BY <1>11, <1>12, <1>13 DEF l
-----------------------------------------------------------------------------
(* Runs of consecutive samples.                                            *)

\* Length and elements of a run, and of one that ends before it starts.
LEMMA RunShape ==
  ASSUME NEW lo \in Int, NEW hi \in Int
  PROVE  /\ lo <= hi + 1 =>
              /\ Len(Run(lo, hi)) = hi - lo + 1
              /\ Run(lo, hi) \in Seq(Int)
         /\ lo \in Nat /\ lo <= hi + 1 => Run(lo, hi) \in Seq(Nat)
         /\ \A i \in 1 .. (hi - lo + 1) : Run(lo, hi)[i] = lo + i - 1
         /\ hi < lo => Run(lo, hi) = <<>>
<1>1. \A i \in 1 .. (hi - lo + 1) : Run(lo, hi)[i] = lo + i - 1
  BY DEF Run
<1>2. CASE lo <= hi + 1
  <2>1. hi - lo + 1 \in Nat
    BY <1>2
  <2>2. \A i \in 1 .. (hi - lo + 1) :
          lo + i - 1 \in Int /\ (lo \in Nat => lo + i - 1 \in Nat)
    OBVIOUS
  <2>3. Len(Run(lo, hi)) = hi - lo + 1 /\ Run(lo, hi) \in Seq(Int)
    BY <2>1, <2>2 DEF Run
  <2>4. lo \in Nat => Run(lo, hi) \in Seq(Nat)
    BY <2>1, <2>2 DEF Run
  <2>5. hi < lo => Run(lo, hi) = <<>>
    <3>1. SUFFICES ASSUME hi < lo PROVE Len(Run(lo, hi)) = 0
      BY <2>3
    <3> QED BY <1>2, <2>3, <3>1
  <2> QED BY <1>1, <2>3, <2>4, <2>5
<1>3. CASE ~ (lo <= hi + 1)
  <2>1. 1 .. (hi - lo + 1) = {}
    BY <1>3
  <2>2. Run(lo, hi) = <<>>
    BY <2>1 DEF Run
  <2> QED BY <1>1, <1>3, <2>2
<1> QED
  BY <1>2, <1>3

\* A run one longer.
LEMMA RunAppend ==
  ASSUME NEW lo \in Int, NEW hi \in Int, lo <= hi + 1
  PROVE  Append(Run(lo, hi), hi + 1) = Run(lo, hi + 1)
<1> DEFINE u == Run(lo, hi)
           v == Run(lo, hi + 1)
           c == Append(u, hi + 1)
<1>1. /\ u \in Seq(Int) /\ Len(u) = hi - lo + 1
      /\ \A i \in 1 .. (hi - lo + 1) : u[i] = lo + i - 1
  BY RunShape
<1>2. /\ v \in Seq(Int) /\ Len(v) = (hi + 1) - lo + 1
      /\ \A i \in 1 .. ((hi + 1) - lo + 1) : v[i] = lo + i - 1
  <2>1. hi + 1 \in Int /\ lo <= (hi + 1) + 1
    OBVIOUS
  <2> QED BY <2>1, RunShape
<1> HIDE DEF u, v
<1>3. /\ c \in Seq(Int) /\ Len(c) = Len(u) + 1
      /\ \A i \in 1 .. Len(u) : c[i] = u[i]
      /\ c[Len(u) + 1] = hi + 1
  BY <1>1, AppendShape
<1> HIDE DEF c
<1>4. ASSUME NEW i \in 1 .. Len(c) PROVE c[i] = v[i]
  <2>1. CASE i \in 1 .. Len(u)
    BY <1>1, <1>2, <1>3, <2>1
  <2>2. CASE i = Len(u) + 1
    BY <1>1, <1>2, <1>3, <2>2
  <2> QED BY <1>1, <1>3, <2>1, <2>2
<1>5. Len(c) = Len(v)
  BY <1>1, <1>2, <1>3
<1>6. c = v
  BY <1>2, <1>3, <1>4, <1>5, SameSeq
<1> QED
  BY <1>6 DEF c, u, v

\* What is kept of a run between two bounds is a run.
LEMMA KeptRun ==
  ASSUME NEW lo \in Nat, NEW hi \in Nat, lo <= hi + 1, NEW a \in Nat, NEW b \in Nat
  PROVE  Kept(Run(lo, hi), a .. b)
           = Run(IF lo < a THEN a ELSE lo, IF hi < b THEN hi ELSE b)
<1> DEFINE w == Run(lo, hi)
           x == IF lo < a THEN a ELSE lo
           y(k) == IF lo + k - 1 < b THEN lo + k - 1 ELSE b
<1>1. /\ w \in Seq(Nat) /\ Len(w) = hi - lo + 1 /\ Len(w) \in Nat
      /\ \A i \in 1 .. Len(w) : w[i] = lo + i - 1
  <2>1. hi - lo + 1 \in Nat
    OBVIOUS
  <2>2. /\ w \in Seq(Nat) /\ Len(w) = hi - lo + 1
        /\ \A i \in 1 .. (hi - lo + 1) : w[i] = lo + i - 1
    BY RunShape
  <2> HIDE DEF w
  <2> QED BY <2>1, <2>2
<1> HIDE DEF w
<1>2. PICK g : KeptOf(g, Nat, w, a .. b, Len(w)) /\ Kept(w, a .. b) = g[Len(w)]
  BY <1>1, KeptOfLast
<1> DEFINE T == {k \in Nat : k <= Len(w) => g[k] = Run(x, y(k))}
<1>3. 0 \in T
  <2>1. g[0] = <<>>
    BY <1>2 DEF KeptOf
  <2>2. x \in Int /\ y(0) \in Int /\ y(0) < x
    OBVIOUS
  <2> HIDE DEF x, y
  <2>3. Run(x, y(0)) = <<>>
    BY <2>2, RunShape
  <2> QED BY <2>1, <2>3
<1>4. ASSUME NEW n \in T PROVE n + 1 \in T
  <2>1. SUFFICES ASSUME n + 1 <= Len(w) PROVE g[n + 1] = Run(x, y(n + 1))
    OBVIOUS
  <2>2. g[n] = Run(x, y(n)) /\ n \in Nat
    BY <1>1, <2>1
  <2>3. /\ n + 1 \in 1 .. Len(w) /\ (n + 1) - 1 = n /\ w[n + 1] = lo + n
    BY <1>1, <2>1
  <2>4. g[n + 1] = IF lo + n \in a .. b THEN Append(g[n], lo + n) ELSE g[n]
    <3>1. g[n + 1] = IF w[n + 1] \in a .. b THEN Append(g[(n + 1) - 1], w[n + 1])
                     ELSE g[(n + 1) - 1]
      BY <1>2, <2>3 DEF KeptOf
    <3> QED BY <2>3, <3>1
  <2>5. x \in Int /\ y(n) \in Int /\ y(n + 1) \in Int
    BY <2>2
  <2>6. CASE lo + n \in a .. b
    <3>1. y(n) = lo + n - 1 /\ y(n + 1) = lo + n /\ x <= lo + n
      BY <2>2, <2>6
    <3> HIDE DEF x, y
    <3>2. x <= (lo + n - 1) + 1 /\ (lo + n - 1) + 1 = lo + n /\ lo + n - 1 \in Int
      BY <2>2, <3>1
    <3>3. Append(Run(x, lo + n - 1), (lo + n - 1) + 1) = Run(x, (lo + n - 1) + 1)
      BY <2>5, <3>2, RunAppend
    <3> QED BY <2>2, <2>4, <2>6, <3>1, <3>2, <3>3
  <2>7. CASE lo + n < a
    <3>1. y(n) < x /\ y(n + 1) < x
      BY <2>2, <2>7
    <3> HIDE DEF x, y
    <3>2. Run(x, y(n)) = <<>> /\ Run(x, y(n + 1)) = <<>>
      BY <2>5, <3>1, RunShape
    <3>3. lo + n \notin a .. b
      BY <2>2, <2>7
    <3> QED BY <2>2, <2>4, <3>2, <3>3
  <2>8. CASE lo + n > b
    <3>1. y(n) = b /\ y(n + 1) = b
      BY <2>2, <2>8
    <3>2. lo + n \notin a .. b
      BY <2>2, <2>8
    <3> QED BY <2>2, <2>4, <3>1, <3>2
  <2> QED BY <2>2, <2>6, <2>7, <2>8
<1>5. T = Nat
  <2>1. T \in SUBSET Nat
    OBVIOUS
  <2> HIDE DEF T
  <2> QED BY <1>3, <1>4, <2>1, EveryNat
<1>6. Len(w) \in T
  <2> HIDE DEF T
  <2> QED BY <1>1, <1>5
<1>7. y(Len(w)) = IF hi < b THEN hi ELSE b
  BY <1>1
<1>8. g[Len(w)] = Run(x, y(Len(w)))
  BY <1>1, <1>6
<1> QED
  BY <1>2, <1>7, <1>8 DEF w
=============================================================================
