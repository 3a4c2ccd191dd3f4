---------------------------- MODULE CapturesProofs ----------------------------
(***************************************************************************)
(* Proofs about Captures for every value of its constants: any ring,       *)
(* window, budget, refractory time, set of conditions, number of markers   *)
(* kept, concurrent requests and pull limit.  The inductive invariant      *)
(* CaptureInv says, besides the types and the accounting, how far the ring *)
(* is behind the sampler (SamplerInv), that a pending capture of a         *)
(* condition is collected at the very sample that completes its window     *)
(* (PendingInv), and which markers the puller was sent (MarkerInv).        *)
(***************************************************************************)
EXTENDS Captures, DataLemmas

\* The history counts and the requests under way are what they look like.
CountsOK ==
  /\ attempts \in Nat /\ evicted \in Nat /\ deleted \in Nat /\ bytes \in Nat
  /\ got \in Seq(Nat)
  /\ caller \in [Callers -> [at : {"idle", "begun", "aimed", "fired"},
                             before : Nat, last : Nat, own : Nat]]

\* The ring is one sample behind while its conditions are evaluated, and
\* holds the newest sample everywhere else the sampler reads it.
SamplerInv ==
  /\ sampler = "observing" => seq = ring.last + 1
  /\ sampler \in {"waiting", "pushed"} => seq = ring.last

\* The window of the pending capture, and that it is not over yet.
PendingInv ==
  pending # <<>> =>
    /\ pending[1].first = IF pending[1].fire > Pre THEN pending[1].fire - Pre ELSE 1
    /\ pending[1].last = pending[1].fire + Post
    /\ pending[1].cause # Manual =>
         /\ sampler # "stopped" => seq <= pending[1].last
         /\ sampler = "waiting" => seq < pending[1].last

\* The ids of the markers ascend, the puller was sent no other ids, and of
\* the markers still listed only those up to its cursor.
MarkerInv ==
  /\ \A i, j \in 1 .. Len(markers) : i < j => markers[i].id < markers[j].id
  /\ \A i \in 1 .. Len(markers) : markers[i].id <= nextID
  /\ \A i \in 1 .. Len(got) : got[i] <= nextID
  /\ \A i \in 1 .. Len(markers), j \in 1 .. Len(got) :
       got[j] = markers[i].id => markers[i].seq <= cursor
  /\ upTo # 0 => cursor < upTo

\* The inductive invariant.
CaptureInv ==
  /\ TypeOK
  /\ CountsOK
  /\ SamplerInv
  /\ PendingInv
  /\ MarkerInv
  /\ Accounting
  /\ WindowExact
  /\ MarkerBeforeSample
-----------------------------------------------------------------------------
(* Byte sums.                                                              *)

\* The bytes of a run of sampled lines are a number.
LEMMA LinesNat ==
  ASSUME NEW w \in Seq(1 .. MaxSeq)
  PROVE  LinesOf(w) \in Nat
<1>1. LineBytes \in [1 .. MaxSeq -> Nat]
  BY CaptureAssumption
<1>2. LinesOf(w) = Total(Mapped(LineBytes, w))
  BY DEF LinesOf, Mapped
<1>3. Total(Mapped(LineBytes, w)) \in Nat
  BY <1>1, MappedConcat
<1> QED
  BY <1>2, <1>3

\* The bytes of each retained capture, as a function.
SizeOf == [c \in HeldRecord |-> c.bytes]

LEMMA SizeType == SizeOf \in [HeldRecord -> Nat]
BY DEF SizeOf, HeldRecord

\* The bytes of a sequence of captures are a sum of what SizeOf makes of it.
LEMMA BytesMapped ==
  ASSUME NEW cs \in Seq(HeldRecord)
  PROVE  BytesOf(cs) = Total(Mapped(SizeOf, cs))
<1>1. DOMAIN cs = 1 .. Len(cs) /\ \A i \in 1 .. Len(cs) : cs[i] \in HeldRecord
  BY LenProperties, ElementOfSeq
<1>2. \A i \in 1 .. Len(cs) : SizeOf[cs[i]] = cs[i].bytes
  BY <1>1 DEF SizeOf
<1>3. [i \in DOMAIN cs |-> cs[i].bytes] = Mapped(SizeOf, cs)
  BY <1>1, <1>2 DEF Mapped
<1> QED
  BY <1>3 DEF BytesOf

\* The bytes of a concatenation, and of captures with one more behind.
LEMMA BytesConcat ==
  ASSUME NEW a \in Seq(HeldRecord), NEW b \in Seq(HeldRecord)
  PROVE  /\ BytesOf(a) \in Nat /\ BytesOf(b) \in Nat
         /\ BytesOf(a \o b) = BytesOf(a) + BytesOf(b)
<1>1. a \o b \in Seq(HeldRecord)
  BY ConcatShape
<1>2. /\ BytesOf(a) = Total(Mapped(SizeOf, a)) /\ BytesOf(b) = Total(Mapped(SizeOf, b))
      /\ BytesOf(a \o b) = Total(Mapped(SizeOf, a \o b))
  BY <1>1, BytesMapped
<1>3. /\ Total(Mapped(SizeOf, a)) \in Nat /\ Total(Mapped(SizeOf, b)) \in Nat
      /\ Total(Mapped(SizeOf, a \o b))
           = Total(Mapped(SizeOf, a)) + Total(Mapped(SizeOf, b))
  BY SizeType, MappedConcat
<1> QED
  BY <1>2, <1>3

LEMMA BytesAppend ==
  ASSUME NEW a \in Seq(HeldRecord), NEW c \in HeldRecord
  PROVE  /\ BytesOf(a) \in Nat /\ c.bytes \in Nat
         /\ BytesOf(<<>>) = 0 /\ BytesOf(<<c>>) = c.bytes
         /\ BytesOf(Append(a, c)) = BytesOf(a) + c.bytes
<1>1. <<>> \in Seq(HeldRecord) /\ <<c>> \in Seq(HeldRecord) /\ Append(a, c) = a \o <<c>>
  OBVIOUS
<1>2. Total(Mapped(SizeOf, <<>>)) = 0 /\ Total(Mapped(SizeOf, <<c>>)) = SizeOf[c]
  BY SizeType, MappedOne
<1>3. SizeOf[c] = c.bytes /\ c.bytes \in Nat
  BY DEF SizeOf, HeldRecord
<1>4. BytesOf(<<c>>) = c.bytes
  <2>1. BytesOf(<<c>>) = Total(Mapped(SizeOf, <<c>>))
    BY <1>1, BytesMapped
  <2> QED BY <1>2, <1>3, <2>1
<1>5. BytesOf(<<>>) = 0
  <2>1. BytesOf(<<>>) = Total(Mapped(SizeOf, <<>>))
    BY <1>1, BytesMapped
  <2> QED BY <1>2, <2>1
<1>6. BytesOf(a) \in Nat /\ BytesOf(a \o <<c>>) = BytesOf(a) + BytesOf(<<c>>)
  BY <1>1, BytesConcat
<1> QED
  BY <1>1, <1>3, <1>4, <1>5, <1>6

\* The oldest k captures and the rest: bytes, lengths and elements.
LEMMA BytesFirst ==
  ASSUME NEW cs \in Seq(HeldRecord), NEW k \in 0 .. Len(cs)
  PROVE  /\ BytesOf(SubSeq(cs, 1, k)) \in Nat
         /\ BytesOf(SubSeq(cs, k + 1, Len(cs))) \in Nat
         /\ BytesOf(SubSeq(cs, k + 1, Len(cs)))
              = BytesOf(cs) - BytesOf(SubSeq(cs, 1, k))
         /\ SubSeq(cs, k + 1, Len(cs)) \in Seq(HeldRecord)
         /\ Len(SubSeq(cs, k + 1, Len(cs))) = Len(cs) - k
         /\ \A i \in 1 .. Len(SubSeq(cs, k + 1, Len(cs))) :
              k + i \in 1 .. Len(cs) /\ SubSeq(cs, k + 1, Len(cs))[i] = cs[k + i]
<1> DEFINE a == SubSeq(cs, 1, k)
           b == SubSeq(cs, k + 1, Len(cs))
<1>1. /\ a \in Seq(HeldRecord) /\ b \in Seq(HeldRecord)
      /\ Len(b) = Len(cs) - k /\ cs = a \o b
  BY SplitAt
<1>2. Len(cs) \in Nat
  OBVIOUS
<1>3. \A i \in 1 .. (Len(cs) - k) : b[i] = cs[k + i]
  BY <1>2, SubSeqProperties
<1> HIDE DEF a, b
<1>4. /\ BytesOf(a) \in Nat /\ BytesOf(b) \in Nat
      /\ BytesOf(a \o b) = BytesOf(a) + BytesOf(b)
  BY <1>1, BytesConcat
<1>5. BytesOf(b) = BytesOf(cs) - BytesOf(a)
  BY <1>1, <1>4
<1>6. \A i \in 1 .. Len(b) : k + i \in 1 .. Len(cs) /\ b[i] = cs[k + i]
  BY <1>1, <1>2, <1>3
<1> QED
  BY <1>1, <1>4, <1>5, <1>6 DEF a, b

\* Deleting the i-th capture takes its bytes off.
LEMMA BytesRemove ==
  ASSUME NEW cs \in Seq(HeldRecord), NEW i \in 1 .. Len(cs)
  PROVE  /\ RemoveAt(cs, i) \in Seq(HeldRecord)
         /\ Len(RemoveAt(cs, i)) = Len(cs) - 1
         /\ BytesOf(RemoveAt(cs, i)) = BytesOf(cs) - cs[i].bytes
         /\ BytesOf(RemoveAt(cs, i)) \in Nat /\ cs[i].bytes \in Nat
         /\ \A j \in 1 .. Len(RemoveAt(cs, i)) :
              \E l \in 1 .. Len(cs) : RemoveAt(cs, i)[j] = cs[l]
<1> DEFINE h == i - 1
           a == SubSeq(cs, 1, h)
           m == SubSeq(cs, h + 1, h + 1)
           b == SubSeq(cs, h + 1 + 1, Len(cs))
           v == RemoveAt(cs, i)
<1>0. Len(cs) \in Nat /\ h \in Nat /\ h + 1 <= Len(cs) /\ i = h + 1 /\ 1 \in Nat
  OBVIOUS
<1>1. /\ a \in Seq(HeldRecord) /\ b \in Seq(HeldRecord)
      /\ m \in Seq(HeldRecord) /\ Len(m) = 1
      /\ cs = Glued(cs, h, 1)
  <2> HIDE DEF h
  <2> QED BY <1>0, CutShape
<1>2. v = Without(cs, h, 1) /\ v = a \o b
  <2>1. i + 1 = h + 1 + 1 /\ i - 1 = h
    OBVIOUS
  <2> HIDE DEF h
  <2>2. v = a \o b
    BY <2>1 DEF RemoveAt
  <2>3. Without(cs, h, 1) = a \o b
    BY DEF Without
  <2> QED BY <2>2, <2>3
<1>3. cs = (a \o m) \o b
  BY <1>1, Zenon DEF Glued
<1>4. m = <<cs[i]>> /\ cs[i] \in HeldRecord
  <2>1. m[1] = cs[i]
    <3>1. \A j \in 1 .. 1 : m[j] = cs[h + j]
      <4> HIDE DEF h
      <4>1. \A l \in (h + 1) .. (h + 1) : cs[l] \in HeldRecord
        BY <1>0, ElementOfSeq
      <4>2. \A j \in 1 .. ((h + 1) - (h + 1) + 1) : m[j] = cs[(h + 1) + j - 1]
        BY <1>0, <4>1, SubSeqProperties
      <4> QED BY <1>0, <4>2
    <3> QED BY <1>0, <3>1
  <2>2. cs[i] \in HeldRecord
    BY ElementOfSeq
  <2> HIDE DEF m
  <2> QED BY <1>1, <2>1, <2>2
<1>5. /\ Without(cs, h, 1) \in Seq(HeldRecord)
      /\ Len(Without(cs, h, 1)) = Len(cs) - 1
      /\ \A j \in 1 .. h : Without(cs, h, 1)[j] = cs[j]
      /\ \A j \in (h + 1) .. (Len(cs) - 1) : Without(cs, h, 1)[j] = cs[j + 1]
  <2> HIDE DEF h
  <2> QED BY <1>0, WithoutShape
<1> HIDE DEF a, b, m, v, h
<1>6. \A j \in 1 .. Len(v) : \E l \in 1 .. Len(cs) : v[j] = cs[l]
  <2>1. ASSUME NEW j \in 1 .. Len(v) PROVE \E l \in 1 .. Len(cs) : v[j] = cs[l]
    <3>1. CASE j \in 1 .. h
      <4>1. j \in 1 .. Len(cs) /\ v[j] = cs[j]
        BY <1>0, <1>2, <1>5, <3>1
      <4> QED BY <4>1
    <3>2. CASE j \in (h + 1) .. (Len(cs) - 1)
      <4>1. j + 1 \in 1 .. Len(cs) /\ v[j] = cs[j + 1]
        BY <1>0, <1>2, <1>5, <3>2
      <4> QED BY <4>1
    <3> QED BY <1>0, <1>2, <1>5, <3>1, <3>2
  <2> QED BY <2>1
<1>7. a \o m \in Seq(HeldRecord)
  BY <1>1, ConcatShape
<1>8. /\ BytesOf(a) \in Nat /\ BytesOf(m) \in Nat
      /\ BytesOf(a \o m) = BytesOf(a) + BytesOf(m)
  BY <1>1, BytesConcat
<1>9. /\ BytesOf(b) \in Nat
      /\ BytesOf((a \o m) \o b) = BytesOf(a \o m) + BytesOf(b)
  BY <1>1, <1>7, BytesConcat
<1>10. BytesOf(a \o b) = BytesOf(a) + BytesOf(b)
  BY <1>1, BytesConcat
<1>11. BytesOf(m) = cs[i].bytes
  <2> DEFINE e == cs[i]
  <2>1. e \in HeldRecord /\ m = <<e>>
    BY <1>4
  <2> HIDE DEF e
  <2>2. BytesOf(<<e>>) = e.bytes
    BY <1>1, <2>1, BytesAppend
  <2> QED BY <2>1, <2>2 DEF e
<1>12. BytesOf(v) = BytesOf(cs) - cs[i].bytes /\ BytesOf(v) \in Nat
  <2>1. BytesOf(cs) = BytesOf((a \o m) \o b) /\ BytesOf(v) = BytesOf(a \o b)
    BY <1>2, <1>3
  <2>2. BytesOf(m) = BytesOf(cs) - BytesOf(v) /\ BytesOf(v) \in Nat
        /\ BytesOf(cs) \in Nat /\ BytesOf(m) \in Nat
    BY <1>8, <1>9, <1>10, <2>1
  <2> QED BY <1>11, <2>2
<1>13. v \in Seq(HeldRecord) /\ Len(v) = Len(cs) - 1
  BY <1>2, <1>5
<1>14. cs[i].bytes \in Nat
  BY <1>8, <1>11
<1> QED
  BY <1>6, <1>12, <1>13, <1>14 DEF v
-----------------------------------------------------------------------------
(* Collecting a window.                                                    *)

\* What the typing and the constants' assumptions say of the ring and the
\* window's size.
LEMMA WindowConstants ==
  ASSUME TypeOK
  PROVE  /\ Capacity \in Nat \ {0} /\ Pre \in Nat \ {0} /\ Post \in Nat \ {0}
         /\ MaxSeq \in Nat /\ Budget \in Nat \ {0}
         /\ RingOK(ring) /\ ring.len = Capacity /\ ring.last \in Nat
         /\ ring.count = IF ring.last < Capacity THEN ring.last ELSE Capacity
         /\ seq \in 0 .. MaxSeq
<1>1. /\ Capacity \in Nat \ {0} /\ Pre \in Nat \ {0} /\ Post \in Nat \ {0}
      /\ MaxSeq \in Nat /\ Budget \in Nat \ {0}
  BY CaptureAssumption
<1>2. RingOK(ring) /\ ring.len = Capacity /\ seq \in 0 .. MaxSeq
  BY DEF TypeOK
<1>3. /\ ring.last \in Nat
      /\ ring.count = IF ring.last < Capacity THEN ring.last ELSE Capacity
  BY <1>2 DEF RingOK
<1> QED
  BY <1>1, <1>2, <1>3

\* The window of a pending capture, read with the newest sample in the ring:
\* consecutive samples around the fire, all of them when the ring reaches
\* back far enough and the newest one completes the window.
LEMMA WindowShape ==
  ASSUME TypeOK, ring.last = seq, NEW p \in PendingRecord,
         p.first = IF p.fire > Pre THEN p.fire - Pre ELSE 1,
         p.last = p.fire + Post
  PROVE  /\ WindowOf(p) \in Seq(1 .. MaxSeq)
         /\ WindowOf(p) # <<>> =>
              /\ WindowOf(p) = Run(WindowOf(p)[1], Last(WindowOf(p)))
              /\ p.fire - Pre <= WindowOf(p)[1]
              /\ Last(WindowOf(p)) <= p.fire + Post
         /\ seq = p.last /\ p.fire > Pre /\ Capacity >= Pre + Post + 1 =>
              Len(WindowOf(p)) = Pre + Post + 1
<1>1. /\ Capacity \in Nat \ {0} /\ Pre \in Nat \ {0} /\ Post \in Nat \ {0}
      /\ MaxSeq \in Nat
      /\ RingOK(ring) /\ ring.len = Capacity /\ ring.last \in Nat
      /\ ring.count = IF ring.last < Capacity THEN ring.last ELSE Capacity
      /\ seq \in 0 .. MaxSeq
  BY WindowConstants
<1>2. p.fire \in Nat /\ p.first \in Nat /\ p.last \in Nat
  BY DEF PendingRecord
<1> DEFINE k == Pre + Post + 1
           n == IF k < ring.count THEN k ELSE ring.count
           l == ring.last
           lo == l - n + 1
           x == IF lo < p.first THEN p.first ELSE lo
           y == IF l < p.last THEN l ELSE p.last
           w == WindowOf(p)
<1>3. k \in Nat /\ n \in Nat /\ n <= l /\ lo \in Nat \ {0} /\ lo <= l + 1 /\ l \in Nat
  BY <1>1
<1>4. TailOf(ring, k) = Run(lo, l)
  <2> HIDE DEF k
  <2> QED BY <1>1, <1>3, TailNewest
<1>5. w = Run(x, y)
  <2>1. Kept(Run(lo, l), p.first .. p.last) = Run(x, y)
    <3> HIDE DEF lo, l
    <3> QED BY <1>2, <1>3, KeptRun
  <2> HIDE DEF x, y, lo, l
  <2> QED BY <1>4, <2>1 DEF WindowOf
<1>6. /\ x \in Nat \ {0} /\ y \in Nat /\ y <= MaxSeq
      /\ p.fire - Pre <= x /\ y <= p.fire + Post
      /\ l = p.last /\ p.fire > Pre /\ Capacity >= k => x = p.first /\ y = l
  <2>1. x \in Nat \ {0} /\ p.fire - Pre <= x
    BY <1>1, <1>2, <1>3
  <2>2. y \in Nat /\ y <= MaxSeq /\ y <= p.fire + Post
    BY <1>1, <1>2
  <2>3. ASSUME l = p.last, p.fire > Pre, Capacity >= k PROVE x = p.first /\ y = l
    <3>1. l = p.fire + Post /\ l >= k
      BY <1>1, <1>2, <2>3
    <3>2. ring.count >= k
      BY <1>1, <2>3, <3>1
    <3>3. n = k
      BY <1>1, <3>2
    <3>4. lo = p.fire - Pre
      BY <1>1, <1>2, <3>1, <3>3
    <3> QED BY <1>1, <1>2, <2>3, <3>4
  <2> QED BY <2>1, <2>2, <2>3
<1> HIDE DEF x, y, lo, n, w
<1>7. CASE y < x
  <2>1. w = <<>>
    BY <1>5, <1>6, <1>7, RunShape
  <2>2. w \in Seq(1 .. MaxSeq)
    BY <2>1
  <2>3. ~ (seq = p.last /\ p.fire > Pre /\ Capacity >= k)
    <3>1. SUFFICES ASSUME seq = p.last, p.fire > Pre, Capacity >= k PROVE FALSE
      OBVIOUS
    <3>2. x = p.first /\ y = p.last
      BY <1>6, <3>1
    <3> QED BY <1>1, <1>2, <1>7, <3>1, <3>2
  <2> QED BY <2>1, <2>2, <2>3 DEF w
<1>8. CASE x <= y
  <2>1. /\ Len(w) = y - x + 1 /\ w \in Seq(Nat)
        /\ \A i \in 1 .. (y - x + 1) : w[i] = x + i - 1
    <3>1. x \in Int /\ y \in Int /\ x \in Nat /\ x <= y + 1
      BY <1>6, <1>8
    <3> QED BY <1>5, <3>1, RunShape
  <2>2. w[1] = x /\ Last(w) = y
    <3>1. 1 \in 1 .. (y - x + 1) /\ y - x + 1 \in 1 .. (y - x + 1)
      BY <1>6, <1>8
    <3>2. w[1] = x + 1 - 1 /\ w[y - x + 1] = x + (y - x + 1) - 1
      BY <2>1, <3>1
    <3> QED BY <1>6, <2>1, <3>2 DEF Last
  <2>3. w \in Seq(1 .. MaxSeq)
    <3>1. \A i \in 1 .. Len(w) : w[i] \in 1 .. MaxSeq
      BY <1>1, <1>6, <1>8, <2>1
    <3> QED BY <2>1, <3>1, Retyped
  <2>4. w = Run(w[1], Last(w))
    BY <1>5, <2>2
  <2>5. seq = p.last /\ p.fire > Pre /\ Capacity >= k => Len(w) = k
    <3>1. SUFFICES ASSUME seq = p.last, p.fire > Pre, Capacity >= k PROVE Len(w) = k
      OBVIOUS
    <3>2. x = p.first /\ y = p.last
      BY <1>6, <3>1
    <3> QED BY <1>1, <1>2, <2>1, <3>1, <3>2
  <2> QED BY <1>6, <2>2, <2>3, <2>4, <2>5 DEF w
<1> QED
  BY <1>6, <1>7, <1>8

\* What WindowExact says of one retained capture, the sampler being at s.
Exact(c, s) ==
  /\ c.entries = Run(c.entries[1], Last(c.entries))
  /\ c.fire - Pre <= c.entries[1] /\ Last(c.entries) <= c.fire + Post
  /\ c.cause # Manual /\ ~ c.complete =>
       c.fire <= Pre \/ s = "stopped" \/ Capacity < Pre + Post + 1

\* WindowExact, position by position, here and in the next state.
LEMMA ExactHeld ==
  ASSUME held \in Seq(HeldRecord)
  PROVE  WindowExact <=> \A i \in 1 .. Len(held) : Exact(held[i], sampler)
<1>1. DOMAIN held = 1 .. Len(held)
  BY LenProperties
<1>2. Range(held) = {held[i] : i \in 1 .. Len(held)}
  BY <1>1 DEF Range
<1>3. WindowExact <=> \A c \in Range(held) : Exact(c, sampler)
  BY DEF WindowExact, Exact
<1> QED
  BY <1>2, <1>3

LEMMA ExactNext ==
  ASSUME held' \in Seq(HeldRecord),
         \A i \in 1 .. Len(held') : Exact(held'[i], sampler')
  PROVE  WindowExact'
<1>1. DOMAIN held' = 1 .. Len(held')
  BY LenProperties
<1>2. Range(held') = {held'[i] : i \in 1 .. Len(held')}
  BY <1>1 DEF Range
<1>3. (\A c \in Range(held') : Exact(c, sampler')) => WindowExact'
  BY DEF WindowExact, Exact
<1> QED
  BY <1>2, <1>3

\* A capture that is exact stays exact, unless the sampler starts again.
LEMMA ExactStays ==
  ASSUME NEW c, Exact(c, sampler), sampler = "stopped" => sampler' = "stopped"
  PROVE  Exact(c, sampler')
BY DEF Exact

\* Captures that stay, or go, stay exact.
LEMMA HeldStays ==
  ASSUME CaptureInv, sampler = "stopped" => sampler' = "stopped",
         held' \in Seq(HeldRecord),
         \A j \in 1 .. Len(held') : \E l \in 1 .. Len(held) : held'[j] = held[l]
  PROVE  WindowExact'
<1>1. \A i \in 1 .. Len(held) : Exact(held[i], sampler)
  BY ExactHeld DEF CaptureInv, TypeOK
<1>2. \A j \in 1 .. Len(held') : Exact(held'[j], sampler')
  <2>1. ASSUME NEW j \in 1 .. Len(held') PROVE Exact(held'[j], sampler')
    <3>1. PICK l \in 1 .. Len(held) : held'[j] = held[l]
      OBVIOUS
    <3> QED BY <1>1, <3>1, ExactStays
  <2> QED BY <2>1
<1> QED
  BY <1>2, ExactNext

\* What collect leaves: the pending capture is retained, exact and counted,
\* or refused and counted, and the bytes stay the truth and in the budget.
LEMMA CollectStep ==
  ASSUME CaptureInv, Collect, pending # <<>>, ring.last = seq,
         UNCHANGED <<seq, ring>>, sampler # "stopped",
         pending[1].cause # Manual /\ sampler' # "stopped" => seq = pending[1].last
  PROVE  /\ held' \in Seq(HeldRecord) /\ pending' = <<>>
         /\ refused' \in Nat /\ evicted' \in Nat /\ bytes' \in Nat
         /\ Accounting' /\ WindowExact'
<1> DEFINE p == pending[1]
           w == WindowOf(p)
           c == Retained(p, w)
<1>1. /\ pending \in Seq(PendingRecord) /\ Len(pending) = 1 /\ p \in PendingRecord
      /\ held \in Seq(HeldRecord) /\ Len(held) \in Nat
      /\ nextID \in Nat /\ suppressed \in Nat /\ refused \in Nat
      /\ attempts \in Nat /\ evicted \in Nat /\ deleted \in Nat /\ bytes \in Nat
  <2>1. /\ pending \in Seq(PendingRecord) /\ Len(pending) <= 1
        /\ held \in Seq(HeldRecord)
        /\ nextID \in Nat /\ suppressed \in Nat /\ refused \in Nat
        /\ attempts \in Nat /\ evicted \in Nat /\ deleted \in Nat /\ bytes \in Nat
    BY DEF CaptureInv, TypeOK, CountsOK
  <2>2. Len(pending) = 1 /\ Len(held) \in Nat
    <3>1. Len(pending) \in Nat /\ (Len(pending) = 0 => pending = <<>>)
      BY <2>1
    <3>2. Len(held) \in Nat
      BY <2>1, LenProperties
    <3>3. Len(pending) # 0
      BY <3>1
    <3>4. Len(pending) <= 1
      BY <2>1
    <3>5. Len(pending) = 1
      <4> DEFINE l == Len(pending)
      <4>1. l \in Nat /\ l # 0 /\ l <= 1
        BY <3>1, <3>3, <3>4
      <4> HIDE DEF l
      <4>2. l = 1
        BY <4>1
      <4> QED BY <4>2 DEF l
    <3> QED BY <3>2, <3>5
  <2>3. p \in PendingRecord
    BY <2>1, <2>2, ElementOfSeq
  <2> QED BY <2>1, <2>2, <2>3
<1>2. /\ bytes = BytesOf(held) /\ bytes <= Budget
      /\ attempts = nextID + suppressed
      /\ nextID = 1 + Len(held) + refused + evicted + deleted
  BY <1>1 DEF CaptureInv, Accounting, BudgetExact
<1>3. Budget \in Nat /\ Pre + Post + 1 \in Nat
  BY WindowConstants DEF CaptureInv
<1>4. /\ pending' = <<>> /\ Len(pending') = 0
      /\ UNCHANGED <<nextID, suppressed, attempts, deleted>>
  BY DEF Collect
<1>5. /\ p.first = IF p.fire > Pre THEN p.fire - Pre ELSE 1
      /\ p.last = p.fire + Post
  BY DEF CaptureInv, PendingInv
<1>6. /\ w \in Seq(1 .. MaxSeq)
      /\ w # <<>> =>
           /\ w = Run(w[1], Last(w))
           /\ p.fire - Pre <= w[1]
           /\ Last(w) <= p.fire + Post
      /\ seq = p.last /\ p.fire > Pre /\ Capacity >= Pre + Post + 1 =>
           Len(w) = Pre + Post + 1
  <2>1. TypeOK
    BY DEF CaptureInv
  <2> HIDE DEF p
  <2> QED BY <1>1, <1>5, <2>1, WindowShape
<1>7. \/ /\ refused' = refused + 1
         /\ UNCHANGED <<held, bytes, evicted>>
      \/ w # <<>> /\ MakeRoomAndKeep(c)
  BY DEF Collect
<1> HIDE DEF w
<1>8. c \in HeldRecord /\ c.bytes \in Nat
  <2>1. LinesOf(w) \in Nat
    BY <1>6, LinesNat
  <2>2. w \in Seq(Nat)
    <3>1. \A i \in 1 .. Len(w) : w[i] \in Nat
      <4>1. \A i \in 1 .. Len(w) : w[i] \in 1 .. MaxSeq
        BY <1>6, ElementOfSeq
      <4> QED BY <4>1
    <3> QED BY <1>6, <3>1, Retyped
  <2>3. p.id \in Nat /\ p.cause \in Causes /\ p.fire \in Nat
    BY <1>1 DEF PendingRecord
  <2> HIDE DEF p
  <2> QED BY <2>1, <2>2, <2>3 DEF Retained, HeldRecord
<1>9. w # <<>> => Exact(c, sampler')
  <2>1. SUFFICES ASSUME w # <<>> PROVE Exact(c, sampler')
    OBVIOUS
  <2>2. /\ c.entries = w /\ c.fire = p.fire /\ c.cause = p.cause
        /\ c.complete = (Len(w) = Pre + Post + 1)
    BY DEF Retained
  <2>3. ASSUME p.cause # Manual, ~ (Len(w) = Pre + Post + 1)
        PROVE  p.fire <= Pre \/ sampler' = "stopped" \/ Capacity < Pre + Post + 1
    <3>1. p.fire \in Nat /\ Pre \in Nat /\ Post \in Nat /\ Capacity \in Nat
      BY <1>1, WindowConstants DEF CaptureInv, PendingRecord
    <3> QED BY <1>6, <2>3, <3>1
  <2> HIDE DEF c, p
  <2> QED BY <1>6, <2>1, <2>2, <2>3 DEF Exact
<1>10. sampler = "stopped" => sampler' = "stopped"
  OBVIOUS
<1>11. CASE /\ refused' = refused + 1
            /\ UNCHANGED <<held, bytes, evicted>>
  <2>1. \A j \in 1 .. Len(held') : \E l \in 1 .. Len(held) : held'[j] = held[l]
    BY <1>11
  <2>2. WindowExact'
    BY <1>1, <1>10, <1>11, <2>1, HeldStays
  <2>3. Accounting'
    BY <1>1, <1>2, <1>4, <1>11 DEF Accounting, BudgetExact
  <2> QED BY <1>1, <1>4, <1>11, <2>2, <2>3
<1>12. CASE w # <<>> /\ MakeRoomAndKeep(c)
  <2> HIDE DEF c, p
  <2>1. PICK k \in 0 .. Len(held) :
          /\ \/ /\ bytes - BytesOf(SubSeq(held, 1, k)) + c.bytes <= Budget
                /\ held' = Append(SubSeq(held, k + 1, Len(held)), c)
                /\ bytes' = bytes - BytesOf(SubSeq(held, 1, k)) + c.bytes
                /\ UNCHANGED refused
             \/ /\ held' = SubSeq(held, k + 1, Len(held))
                /\ bytes' = bytes - BytesOf(SubSeq(held, 1, k))
                /\ refused' = refused + 1
          /\ evicted' = evicted + k
    BY <1>12 DEF MakeRoomAndKeep
  <2> DEFINE b == SubSeq(held, k + 1, Len(held))
             gone == BytesOf(SubSeq(held, 1, k))
  <2>2. /\ gone \in Nat /\ BytesOf(b) \in Nat /\ BytesOf(b) = BytesOf(held) - gone
        /\ b \in Seq(HeldRecord) /\ Len(b) = Len(held) - k
        /\ \A i \in 1 .. Len(b) : k + i \in 1 .. Len(held) /\ b[i] = held[k + i]
    BY <1>1, BytesFirst
  <2>3. /\ \/ /\ bytes - gone + c.bytes <= Budget
              /\ held' = Append(b, c) /\ bytes' = bytes - gone + c.bytes
              /\ UNCHANGED refused
           \/ /\ held' = b /\ bytes' = bytes - gone /\ refused' = refused + 1
        /\ evicted' = evicted + k
    BY <2>1
  <2> HIDE DEF b, gone
  <2>4. k \in Nat /\ k <= Len(held) /\ Len(b) \in Nat
    BY <1>1, <2>2
  <2>5. CASE /\ bytes - gone + c.bytes <= Budget
             /\ held' = Append(b, c) /\ bytes' = bytes - gone + c.bytes
             /\ UNCHANGED refused
    <3>1. BytesOf(Append(b, c)) = BytesOf(b) + c.bytes
      BY <1>8, <2>2, BytesAppend
    <3>2. /\ Append(b, c) \in Seq(HeldRecord) /\ Len(Append(b, c)) = Len(b) + 1
          /\ \A i \in 1 .. Len(b) : Append(b, c)[i] = b[i]
          /\ Append(b, c)[Len(b) + 1] = c
      BY <1>8, <2>2, AppendShape
    <3>3. Accounting'
      <4>1. bytes' = BytesOf(held') /\ bytes' <= Budget
        BY <1>2, <1>8, <2>2, <2>5, <3>1
      <4>2. nextID = 0 + Len(held') + refused + (evicted + k) + deleted
        BY <1>1, <1>2, <2>2, <2>4, <2>5, <3>2
      <4> QED BY <1>2, <1>4, <2>3, <2>5, <4>1, <4>2 DEF Accounting, BudgetExact
    <3>4. ASSUME NEW i \in 1 .. Len(held') PROVE Exact(held'[i], sampler')
      <4>1. CASE i \in 1 .. Len(b)
        <5>1. k + i \in 1 .. Len(held) /\ held'[i] = held[k + i]
          BY <2>2, <2>5, <3>2, <4>1
        <5>2. Exact(held[k + i], sampler)
          BY <5>1, ExactHeld DEF CaptureInv, TypeOK
        <5> QED BY <1>10, <5>1, <5>2, ExactStays
      <4>2. CASE i = Len(b) + 1
        BY <1>9, <1>12, <2>5, <3>2, <4>2
      <4> QED BY <2>4, <2>5, <3>2, <4>1, <4>2
    <3>5. WindowExact'
      BY <2>5, <3>2, <3>4, ExactNext
    <3>6. bytes' \in Nat /\ refused' \in Nat /\ evicted' \in Nat
      <4>1. bytes' = BytesOf(b) + c.bytes
        BY <1>1, <1>2, <1>8, <2>2, <2>5
      <4>2. refused' \in Nat /\ evicted' \in Nat
        BY <1>1, <2>3, <2>4, <2>5
      <4> QED BY <1>8, <2>2, <4>1, <4>2
    <3> QED BY <1>4, <2>5, <3>2, <3>3, <3>5, <3>6
  <2>6. CASE held' = b /\ bytes' = bytes - gone /\ refused' = refused + 1
    <3>1. Accounting'
      <4>1. bytes' = BytesOf(held') /\ bytes' <= Budget
        BY <1>1, <1>2, <1>3, <2>2, <2>6
      <4>2. nextID = 0 + Len(held') + (refused + 1) + (evicted + k) + deleted
        BY <1>1, <1>2, <2>2, <2>4, <2>6
      <4> QED BY <1>2, <1>4, <2>3, <2>6, <4>1, <4>2 DEF Accounting, BudgetExact
    <3>2. \A j \in 1 .. Len(held') : \E l \in 1 .. Len(held) : held'[j] = held[l]
      BY <2>2, <2>6
    <3>3. WindowExact'
      BY <1>10, <2>2, <2>6, <3>2, HeldStays
    <3>4. bytes' \in Nat /\ refused' \in Nat /\ evicted' \in Nat
      BY <1>1, <1>2, <2>2, <2>3, <2>4, <2>6
    <3> QED BY <1>4, <2>2, <2>6, <3>1, <3>3, <3>4
  <2> QED BY <2>3, <2>5, <2>6
<1> QED
  BY <1>7, <1>11, <1>12
-----------------------------------------------------------------------------
(* Markers.                                                                *)

MarkerRecord == [id : Nat, cause : Causes, seq : Nat]

\* The puller was sent the marker m.
Sent(m) == \E j \in 1 .. Len(got) : got[j] = m.id

\* MarkerBeforeSample, position by position, here and in the next state.
LEMMA MarkersIndexed ==
  ASSUME markers \in Seq(MarkerRecord), got \in Seq(Nat)
  PROVE  MarkerBeforeSample <=>
           /\ \A j, l \in 1 .. Len(got) : got[j] = got[l] => j = l
           /\ \A i \in 1 .. Len(markers) :
                markers[i].cause # Manual /\ markers[i].seq <= cursor => Sent(markers[i])
<1>1. DOMAIN markers = 1 .. Len(markers) /\ DOMAIN got = 1 .. Len(got)
  BY LenProperties
<1>2. /\ Range(markers) = {markers[i] : i \in 1 .. Len(markers)}
      /\ Range(got) = {got[j] : j \in 1 .. Len(got)}
  BY <1>1 DEF Range
<1>3. \A m : m.id \in Range(got) <=> Sent(m)
  BY <1>2 DEF Sent
<1>4. IsInjective(got) <=> \A j, l \in 1 .. Len(got) : got[j] = got[l] => j = l
  BY <1>1 DEF IsInjective
<1> QED
  BY <1>2, <1>3, <1>4 DEF MarkerBeforeSample

LEMMA MarkersNext ==
  ASSUME markers' \in Seq(MarkerRecord), got' \in Seq(Nat),
         \A j, l \in 1 .. Len(got') : got'[j] = got'[l] => j = l,
         \A i \in 1 .. Len(markers') :
           markers'[i].cause # Manual /\ markers'[i].seq <= cursor'
             => \E j \in 1 .. Len(got') : got'[j] = markers'[i].id
  PROVE  MarkerBeforeSample'
<1>1. DOMAIN markers' = 1 .. Len(markers') /\ DOMAIN got' = 1 .. Len(got')
  BY LenProperties
<1>2. /\ Range(markers') = {markers'[i] : i \in 1 .. Len(markers')}
      /\ Range(got') = {got'[j] : j \in 1 .. Len(got')}
  BY <1>1 DEF Range
<1>3. IsInjective(got')
  BY <1>1 DEF IsInjective
<1>4. \A m \in Range(markers') :
        m.cause # Manual /\ m.seq <= cursor' => m.id \in Range(got')
  BY <1>2
<1> QED
  BY <1>3, <1>4 DEF MarkerBeforeSample

\* The markers a fire leaves are the newest of the old ones and the new one.
LEMMA NewestShape ==
  ASSUME NEW S, NEW ms \in Seq(S)
  PROVE  \E d \in 0 .. Len(ms) :
           /\ Newest(ms) \in Seq(S)
           /\ Len(Newest(ms)) = Len(ms) - d /\ Len(Newest(ms)) <= MaxMarkers
           /\ \A i \in 1 .. Len(Newest(ms)) : Newest(ms)[i] = ms[d + i]
<1>1. MaxMarkers \in Nat \ {0} /\ Len(ms) \in Nat
  BY CaptureAssumption, LenProperties
<1> DEFINE d == IF Len(ms) > MaxMarkers THEN Len(ms) - MaxMarkers ELSE 0
           v == SubSeq(ms, d + 1, Len(ms))
<1>2. d \in 0 .. Len(ms) /\ Len(ms) - d <= MaxMarkers
  BY <1>1
<1>3. Newest(ms) = v
  <2>1. d + 1 = IF Len(ms) > MaxMarkers THEN Len(ms) - MaxMarkers + 1 ELSE 1
    BY <1>1
  <2> HIDE DEF d
  <2> QED BY <2>1 DEF Newest
<1> HIDE DEF d
<1>4. /\ v \in Seq(S) /\ Len(v) = Len(ms) - d
      /\ \A i \in 1 .. (Len(ms) - d) : v[i] = ms[d + i]
  <2>1. v \in Seq(S) /\ Len(v) = Len(ms) - d
    BY <1>2, SplitAt
  <2>2. \A i \in 1 .. (Len(ms) - d) : v[i] = ms[d + i]
    BY <1>1, <1>2, SubSeqProperties
  <2> QED BY <2>1, <2>2
<1> HIDE DEF v
<1> QED
  BY <1>2, <1>3, <1>4

\* fire, called by the sampler for the sample it is about to push, or by a
\* request for a sample that was in the ring: what it touches stays right.
LEMMA FireStep ==
  ASSUME CaptureInv, NEW cause \in Causes, NEW s \in Nat, Fire(cause, s),
         cause # Manual => sampler = "observing" /\ s = seq,
         UNCHANGED <<ring, sampler, seq, heldVars, pullVars>>
  PROVE  /\ lastFire' \in [Causes -> Nat \cup {None}]
         /\ pending' \in Seq(PendingRecord) /\ Len(pending') <= 1
         /\ nextID' \in Nat /\ suppressed' \in Nat /\ attempts' \in Nat
         /\ markers' \in Seq(MarkerRecord) /\ Len(markers') <= MaxMarkers
         /\ PendingInv' /\ MarkerInv' /\ MarkerBeforeSample' /\ Accounting'
<1>1. /\ lastFire \in [Causes -> Nat \cup {None}]
      /\ pending \in Seq(PendingRecord) /\ Len(pending) <= 1
      /\ nextID \in Nat /\ suppressed \in Nat /\ attempts \in Nat
      /\ markers \in Seq(MarkerRecord) /\ Len(markers) <= MaxMarkers
      /\ Len(markers) \in Nat
      /\ got \in Seq(Nat) /\ cursor \in 0 .. ring.last /\ seq \in Nat
  <2>1. /\ lastFire \in [Causes -> Nat \cup {None}]
        /\ pending \in Seq(PendingRecord) /\ Len(pending) <= 1
        /\ nextID \in Nat /\ suppressed \in Nat /\ attempts \in Nat
        /\ markers \in Seq(MarkerRecord) /\ Len(markers) <= MaxMarkers
        /\ got \in Seq(Nat) /\ cursor \in 0 .. ring.last
    BY DEF CaptureInv, TypeOK, CountsOK, MarkerRecord
  <2>2. seq \in Nat
    BY WindowConstants DEF CaptureInv
  <2> QED BY <2>1, <2>2, LenProperties
<1>2. /\ UNCHANGED <<held, bytes, refused, evicted, deleted, cursor, upTo, got>>
      /\ attempts' = attempts + 1
  BY DEF Fire, heldVars, pullVars
<1>3. CASE /\ suppressed' = suppressed + 1
           /\ UNCHANGED <<lastFire, pending, nextID, markers>>
  <2>1. PendingInv'
    BY <1>3 DEF CaptureInv, PendingInv
  <2>2. MarkerInv' /\ MarkerBeforeSample'
    BY <1>2, <1>3 DEF CaptureInv, MarkerInv, MarkerBeforeSample
  <2>3. Accounting'
    BY <1>1, <1>2, <1>3 DEF CaptureInv, Accounting, BudgetExact
  <2> QED BY <1>1, <1>2, <1>3, <2>1, <2>2, <2>3
<1>4. CASE /\ pending = <<>>
           /\ lastFire' = [lastFire EXCEPT ![cause] = s]
           /\ nextID' = nextID + 1
           /\ pending' = <<[id |-> nextID + 1, cause |-> cause, fire |-> s,
                            first |-> IF s > Pre THEN s - Pre ELSE 1,
                            last |-> s + Post]>>
           /\ markers' = Newest(Append(markers,
                           [id |-> nextID + 1, cause |-> cause, seq |-> s]))
           /\ UNCHANGED suppressed
  <2> DEFINE p == [id |-> nextID + 1, cause |-> cause, fire |-> s,
                   first |-> IF s > Pre THEN s - Pre ELSE 1, last |-> s + Post]
             e == [id |-> nextID + 1, cause |-> cause, seq |-> s]
             ms == Append(markers, e)
  <2>1. Pre \in Nat /\ Post \in Nat \ {0}
    BY CaptureAssumption
  <2>2. /\ p \in PendingRecord /\ p.cause = cause /\ p.fire = s
        /\ p.first = (IF s > Pre THEN s - Pre ELSE 1) /\ p.last = s + Post
    <3>1. /\ nextID + 1 \in Nat /\ s + Post \in Nat
          /\ (IF s > Pre THEN s - Pre ELSE 1) \in Nat
      BY <1>1, <2>1
    <3> QED BY <3>1 DEF PendingRecord
  <2>3. e \in MarkerRecord /\ e.id = nextID + 1 /\ e.cause = cause /\ e.seq = s
    BY <1>1 DEF MarkerRecord
  <2>4. pending' = <<p>> /\ markers' = Newest(ms)
    BY <1>4
  <2> HIDE DEF p, e
  <2>5. /\ pending' \in Seq(PendingRecord) /\ Len(pending') = 1 /\ pending'[1] = p
    BY <2>2, <2>4
  <2>6. /\ ms \in Seq(MarkerRecord) /\ Len(ms) = Len(markers) + 1
        /\ \A i \in 1 .. Len(markers) : ms[i] = markers[i]
        /\ ms[Len(markers) + 1] = e
    BY <1>1, <2>3, AppendShape
  <2> HIDE DEF ms
  <2>7. PICK d \in 0 .. Len(ms) :
          /\ markers' \in Seq(MarkerRecord)
          /\ Len(markers') = Len(ms) - d /\ Len(markers') <= MaxMarkers
          /\ \A i \in 1 .. Len(markers') : markers'[i] = ms[d + i]
    BY <2>4, <2>6, NewestShape
  <2>8. \A i \in 1 .. Len(markers') :
          /\ d + i \in 1 .. Len(ms)
          /\ \/ d + i \in 1 .. Len(markers) /\ markers'[i] = markers[d + i]
             \/ d + i = Len(markers) + 1 /\ markers'[i] = e
    BY <1>1, <2>6, <2>7
  <2>9. PendingInv'
    <3>1. ASSUME cause # Manual PROVE seq <= s + Post /\ sampler = "observing"
      BY <1>1, <2>1, <3>1
    <3> QED BY <2>2, <2>5, <3>1 DEF PendingInv
  <2>10. \A i \in 1 .. Len(ms) : ms[i].id \in Nat /\ ms[i].id <= nextID + 1
    <3>1. \A i \in 1 .. Len(markers) : markers[i] \in MarkerRecord
      BY <1>1, ElementOfSeq
    <3>2. \A i \in 1 .. Len(markers) :
            markers[i].id \in Nat /\ markers[i].id <= nextID
      BY <3>1 DEF MarkerRecord, CaptureInv, MarkerInv
    <3>3. \A i \in 1 .. Len(ms) : i \in 1 .. Len(markers) \/ i = Len(markers) + 1
      BY <1>1, <2>6
    <3>4. ASSUME NEW i \in 1 .. Len(ms)
          PROVE  ms[i].id \in Nat /\ ms[i].id <= nextID + 1
      <4>1. CASE i \in 1 .. Len(markers)
        <5>1. ms[i].id \in Nat /\ ms[i].id <= nextID
          BY <2>6, <3>2, <4>1
        <5> QED BY <1>1, <5>1
      <4>2. CASE i = Len(markers) + 1
        <5>1. ms[i].id = nextID + 1
          BY <2>3, <2>6, <4>2
        <5> QED BY <1>1, <5>1
      <4> QED BY <3>3, <4>1, <4>2
    <3> QED BY <3>4
  <2>11. \A i, j \in 1 .. Len(ms) : i < j => ms[i].id < ms[j].id
    <3>1. ASSUME NEW i \in 1 .. Len(ms), NEW j \in 1 .. Len(ms), i < j
          PROVE  ms[i].id < ms[j].id
      <4>1. i \in 1 .. Len(markers) /\ ms[i] = markers[i]
        BY <1>1, <2>6, <3>1
      <4>2. CASE j \in 1 .. Len(markers)
        BY <2>6, <3>1, <4>1, <4>2 DEF CaptureInv, MarkerInv
      <4>3. CASE j = Len(markers) + 1
        <5>1. ms[i].id <= nextID /\ ms[i].id \in Nat
          BY <2>10, <4>1 DEF CaptureInv, MarkerInv
        <5>2. ms[j].id = nextID + 1
          BY <2>3, <2>6, <4>3
        <5> QED BY <1>1, <5>1, <5>2
      <4> QED BY <1>1, <2>6, <4>2, <4>3
    <3> QED BY <3>1
  <2>12. MarkerInv'
    <3>1. ASSUME NEW i \in 1 .. Len(markers'), NEW j \in 1 .. Len(markers'), i < j
          PROVE  markers'[i].id < markers'[j].id
      <4>1. d + i \in 1 .. Len(ms) /\ d + j \in 1 .. Len(ms) /\ d + i < d + j
        BY <2>7, <2>8, <3>1
      <4> QED BY <2>7, <2>11, <4>1
    <3>2. \A i \in 1 .. Len(markers') : markers'[i].id <= nextID'
      BY <1>4, <2>7, <2>8, <2>10
    <3>3. \A j \in 1 .. Len(got) : got[j] \in Nat /\ got[j] <= nextID
      BY <1>1, ElementOfSeq DEF CaptureInv, MarkerInv
    <3>4. \A j \in 1 .. Len(got') : got'[j] <= nextID'
      BY <1>1, <1>2, <1>4, <3>3
    <3>5. ASSUME NEW i \in 1 .. Len(markers'), NEW j \in 1 .. Len(got'),
                 got'[j] = markers'[i].id
          PROVE  markers'[i].seq <= cursor'
      <4>1. got[j] = markers'[i].id /\ got[j] \in Nat /\ got[j] <= nextID
        BY <1>2, <3>3, <3>5
      <4>2. markers'[i] # e
        BY <1>1, <2>3, <4>1
      <4>3. d + i \in 1 .. Len(markers) /\ markers'[i] = markers[d + i]
        BY <2>8, <4>2
      <4> QED BY <1>2, <4>1, <4>3 DEF CaptureInv, MarkerInv
    <3>6. upTo' # 0 => cursor' < upTo'
      BY <1>2 DEF CaptureInv, MarkerInv
    <3> QED BY <3>1, <3>2, <3>4, <3>5, <3>6 DEF MarkerInv
  <2>13. MarkerBeforeSample'
    <3>1. /\ \A j, l \in 1 .. Len(got) : got[j] = got[l] => j = l
          /\ \A i \in 1 .. Len(markers) :
               markers[i].cause # Manual /\ markers[i].seq <= cursor
                 => \E j \in 1 .. Len(got) : got[j] = markers[i].id
      BY <1>1, MarkersIndexed DEF CaptureInv, Sent
    <3>2. ASSUME NEW i \in 1 .. Len(markers'),
                 markers'[i].cause # Manual, markers'[i].seq <= cursor'
          PROVE  \E j \in 1 .. Len(got') : got'[j] = markers'[i].id
      <4>1. markers'[i] # e
        <5>1. SUFFICES ASSUME markers'[i] = e PROVE FALSE
          OBVIOUS
        <5>2. cause # Manual /\ s <= cursor
          BY <1>2, <2>3, <3>2, <5>1
        <5>3. s = ring.last + 1 /\ ring.last \in Nat
          BY <5>2, WindowConstants DEF CaptureInv, SamplerInv
        <5> QED BY <1>1, <5>2, <5>3
      <4>2. d + i \in 1 .. Len(markers) /\ markers'[i] = markers[d + i]
        BY <2>8, <4>1
      <4> QED BY <1>2, <3>1, <3>2, <4>2
    <3>3. got' \in Seq(Nat) /\ \A j, l \in 1 .. Len(got') : got'[j] = got'[l] => j = l
      BY <1>1, <1>2, <3>1
    <3> QED BY <2>7, <3>2, <3>3, MarkersNext
  <2>14. Accounting'
    <3>1. Len(pending) = 0
      BY <1>4
    <3>2. /\ attempts = nextID + suppressed
          /\ nextID = 0 + Len(held) + refused + evicted + deleted
          /\ BudgetExact
      BY <3>1 DEF CaptureInv, Accounting
    <3>3. /\ Len(held) \in Nat /\ refused \in Nat /\ evicted \in Nat /\ deleted \in Nat
      BY LenProperties DEF CaptureInv, TypeOK, CountsOK
    <3>4. nextID + 1 = 1 + Len(held) + refused + evicted + deleted
      BY <3>2, <3>3
    <3>5. BudgetExact'
      BY <1>2, <3>2 DEF BudgetExact
    <3> QED BY <1>1, <1>2, <1>4, <2>5, <3>2, <3>4, <3>5 DEF Accounting
  <2>15. lastFire' \in [Causes -> Nat \cup {None}]
    BY <1>1, <1>4
  <2> QED
    BY <1>1, <1>2, <1>4, <2>5, <2>7, <2>9, <2>12, <2>13, <2>14, <2>15
<1> QED
  BY <1>3, <1>4 DEF Fire
-----------------------------------------------------------------------------
(* The steps.                                                              *)

\* What a step that leaves the markers, or the counts, alone keeps.
LEMMA MarkersStay ==
  ASSUME CaptureInv, UNCHANGED <<markers, nextID, got, cursor>>,
         upTo' # 0 => cursor < upTo'
  PROVE  MarkerInv' /\ MarkerBeforeSample'
BY DEF CaptureInv, MarkerInv, MarkerBeforeSample

LEMMA CountsStay ==
  ASSUME CaptureInv, UNCHANGED <<attempts, nextID, suppressed, pending, held,
                                 bytes, refused, evicted, deleted>>
  PROVE  Accounting'
BY DEF CaptureInv, Accounting, BudgetExact

\* The constants' assumptions that the steps need, and the ring's end.
LEMMA StepFacts ==
  ASSUME CaptureInv
  PROVE  /\ TypeOK /\ CountsOK /\ SamplerInv /\ PendingInv
         /\ MaxSeq \in Nat /\ ring.last \in Nat /\ seq \in 0 .. MaxSeq
         /\ held \in Seq(HeldRecord)
         /\ upTo # 0 => cursor < upTo
         /\ \A j \in 1 .. Len(held) : \E l \in 1 .. Len(held) : held[j] = held[l]
<1>1. /\ TypeOK /\ CountsOK /\ SamplerInv /\ PendingInv
      /\ held \in Seq(HeldRecord)
      /\ upTo # 0 => cursor < upTo
  BY DEF CaptureInv, TypeOK, MarkerInv
<1> QED
  BY <1>1, WindowConstants

LEMMA TickStep ==
  ASSUME CaptureInv, Tick
  PROVE  CaptureInv'
<1>1. /\ sampler = "waiting" /\ seq < MaxSeq /\ seq' = seq + 1
      /\ sampler' = "observing"
      /\ UNCHANGED <<policy, ring, captureVars, heldVars, callerVars, pullVars>>
  BY DEF Tick
<1>2. todo' \in Seq(Range(Conditions))
  <2>1. PICK hits \in SUBSET Range(Conditions) : todo' = Kept(Conditions, hits)
    BY DEF Tick
  <2>2. Conditions \in Seq(Range(Conditions))
    BY CaptureAssumption
  <2>3. IsKept(Kept(Conditions, hits), Range(Conditions), Conditions, hits, Len(Conditions))
    BY <2>2, KeptShape
  <2> QED BY <2>1, <2>3 DEF IsKept
<1>3. seq' \in 0 .. MaxSeq
  BY <1>1, StepFacts
<1>4. TypeOK'
  BY <1>1, <1>2, <1>3, StepFacts DEF TypeOK, captureVars, heldVars, pullVars
<1>5. CountsOK'
  BY <1>1, StepFacts DEF CountsOK, captureVars, heldVars, callerVars, pullVars
<1>6. SamplerInv'
  BY <1>1, StepFacts DEF SamplerInv
<1>7. PendingInv'
  <2>1. UNCHANGED pending
    BY <1>1 DEF captureVars
  <2>2. ASSUME pending # <<>>, pending[1].cause # Manual PROVE seq' <= pending[1].last
    <3>1. seq < pending[1].last
      BY <1>1, <2>2, StepFacts DEF PendingInv
    <3>2. pending[1].last \in Nat
      <4>1. 1 \in 1 .. Len(pending) /\ pending \in Seq(PendingRecord)
        BY <2>2, StepFacts DEF TypeOK
      <4>2. pending[1] \in PendingRecord
        BY <4>1, ElementOfSeq
      <4> QED BY <4>2 DEF PendingRecord
    <3> QED BY <1>1, <3>1, <3>2, StepFacts
  <2> QED BY <1>1, <2>1, <2>2, StepFacts DEF PendingInv
<1>8. MarkerInv' /\ MarkerBeforeSample'
  BY <1>1, StepFacts, MarkersStay DEF captureVars, pullVars
<1>9. Accounting'
  BY <1>1, CountsStay DEF captureVars, heldVars
<1>10. WindowExact'
  BY <1>1, StepFacts, HeldStays DEF heldVars
<1> QED
  BY <1>4, <1>5, <1>6, <1>7, <1>8, <1>9, <1>10 DEF CaptureInv

LEMMA ObserveHitStep ==
  ASSUME CaptureInv, ObserveHit
  PROVE  CaptureInv'
<1>1. /\ sampler = "observing" /\ todo # <<>> /\ Fire(Head(todo), seq)
      /\ todo' = Tail(todo)
      /\ UNCHANGED <<policy, ring, sampler, seq, heldVars, callerVars, pullVars>>
  BY DEF ObserveHit
<1>2. Head(todo) \in Causes /\ Tail(todo) \in Seq(Range(Conditions)) /\ seq \in Nat
  <2>1. todo \in Seq(Range(Conditions))
    BY StepFacts DEF TypeOK
  <2>2. Head(todo) = todo[1] /\ todo[1] \in Range(Conditions)
        /\ Tail(todo) \in Seq(Range(Conditions))
    BY <1>1, <2>1, TailShape
  <2> QED BY <2>2, StepFacts DEF Causes
<1> DEFINE cause == Head(todo)
<1>3. cause \in Causes /\ Fire(cause, seq)
  BY <1>1, <1>2
<1> HIDE DEF cause
<1>4. /\ lastFire' \in [Causes -> Nat \cup {None}]
      /\ pending' \in Seq(PendingRecord) /\ Len(pending') <= 1
      /\ nextID' \in Nat /\ suppressed' \in Nat /\ attempts' \in Nat
      /\ markers' \in Seq(MarkerRecord) /\ Len(markers') <= MaxMarkers
      /\ PendingInv' /\ MarkerInv' /\ MarkerBeforeSample' /\ Accounting'
  BY <1>1, <1>2, <1>3, FireStep
<1>5. TypeOK'
  BY <1>1, <1>2, <1>4, StepFacts DEF TypeOK, heldVars, pullVars, MarkerRecord
<1>6. CountsOK'
  BY <1>1, <1>4, StepFacts DEF CountsOK, heldVars, callerVars, pullVars
<1>7. SamplerInv'
  BY <1>1, StepFacts DEF SamplerInv
<1>8. WindowExact'
  BY <1>1, StepFacts, HeldStays DEF heldVars
<1> QED
  BY <1>4, <1>5, <1>6, <1>7, <1>8 DEF CaptureInv

LEMMA PushSampleStep ==
  ASSUME CaptureInv, PushSample
  PROVE  CaptureInv'
<1>1. /\ sampler = "observing" /\ ring' = PushTo(ring, seq) /\ sampler' = "pushed"
      /\ UNCHANGED <<policy, seq, todo, captureVars, heldVars, callerVars, pullVars>>
  BY DEF PushSample
<1>2. seq = ring.last + 1 /\ RingOK(ring)
  BY <1>1, StepFacts DEF SamplerInv, TypeOK
<1>3. RingOK(ring') /\ ring'.last = seq /\ ring'.len = ring.len
  <2>1. RingOK(ring')
    BY <1>1, <1>2, PushKeeps
  <2>2. ring'.last = seq /\ ring'.len = ring.len
    BY <1>1 DEF PushTo
  <2> QED BY <2>1, <2>2
<1>4. cursor \in 0 .. ring'.last /\ upTo \in 0 .. ring'.last
  <2>1. cursor \in 0 .. ring.last /\ upTo \in 0 .. ring.last
    BY StepFacts DEF TypeOK
  <2> QED BY <1>2, <1>3, <2>1, StepFacts
<1>5. TypeOK'
  BY <1>1, <1>3, <1>4, StepFacts DEF TypeOK, captureVars, heldVars, pullVars
<1>6. CountsOK'
  BY <1>1, StepFacts DEF CountsOK, captureVars, heldVars, callerVars, pullVars
<1>7. SamplerInv'
  BY <1>1, <1>3 DEF SamplerInv
<1>8. PendingInv'
  BY <1>1, StepFacts DEF PendingInv, captureVars
<1>9. MarkerInv' /\ MarkerBeforeSample'
  BY <1>1, StepFacts, MarkersStay DEF captureVars, pullVars
<1>10. Accounting'
  BY <1>1, CountsStay DEF captureVars, heldVars
<1>11. WindowExact'
  BY <1>1, StepFacts, HeldStays DEF heldVars
<1> QED
  BY <1>5, <1>6, <1>7, <1>8, <1>9, <1>10, <1>11 DEF CaptureInv

\* AfterPush and Finalize, with or without a capture to collect, and a
\* sampler that fails.
LEMMA SettleStep ==
  ASSUME CaptureInv, AfterPush \/ StopSampler \/ SamplerFails
  PROVE  CaptureInv'
<1>1. /\ UNCHANGED <<policy, ring, seq, todo, callerVars, pullVars>>
      /\ sampler # "stopped" /\ sampler' \in {"waiting", "stopped"}
      /\ sampler' = "waiting" => sampler = "pushed"
  BY DEF AfterPush, StopSampler, SamplerFails
<1>2. SamplerInv'
  BY <1>1, StepFacts DEF SamplerInv
<1>3. CASE /\ UNCHANGED <<captureVars, heldVars>>
           /\ sampler' = "waiting" => pending = <<>> \/ seq < pending[1].last
  <2>1. TypeOK'
    BY <1>1, <1>3, StepFacts DEF TypeOK, captureVars, heldVars, pullVars
  <2>2. CountsOK'
    BY <1>1, <1>3, StepFacts DEF CountsOK, captureVars, heldVars, callerVars, pullVars
  <2>3. PendingInv'
    BY <1>1, <1>3, StepFacts DEF PendingInv, captureVars
  <2>4. MarkerInv' /\ MarkerBeforeSample'
    BY <1>1, <1>3, StepFacts, MarkersStay DEF captureVars, pullVars
  <2>5. Accounting'
    BY <1>3, CountsStay DEF captureVars, heldVars
  <2>6. WindowExact'
    BY <1>1, <1>3, StepFacts, HeldStays DEF heldVars
  <2> QED BY <1>2, <2>1, <2>2, <2>3, <2>4, <2>5, <2>6 DEF CaptureInv
<1>4. CASE /\ Collect /\ pending # <<>> /\ sampler \in {"waiting", "pushed"}
           /\ sampler' = "waiting" => ~ (seq < pending[1].last)
  <2>1. ring.last = seq
    BY <1>4, StepFacts DEF SamplerInv
  <2>2. pending[1].cause # Manual /\ sampler' # "stopped" => seq = pending[1].last
    <3>1. SUFFICES ASSUME pending[1].cause # Manual, sampler' # "stopped"
                   PROVE  seq = pending[1].last
      OBVIOUS
    <3>2. seq <= pending[1].last /\ ~ (seq < pending[1].last)
      BY <1>1, <1>4, <3>1, StepFacts DEF PendingInv
    <3>3. pending[1].last \in Nat
      <4>1. 1 \in 1 .. Len(pending) /\ pending \in Seq(PendingRecord)
        BY <1>4, StepFacts DEF TypeOK
      <4>2. pending[1] \in PendingRecord
        BY <4>1, ElementOfSeq
      <4> QED BY <4>2 DEF PendingRecord
    <3> QED BY <3>2, <3>3, StepFacts
  <2>3. /\ held' \in Seq(HeldRecord) /\ pending' = <<>>
        /\ refused' \in Nat /\ evicted' \in Nat /\ bytes' \in Nat
        /\ Accounting' /\ WindowExact'
    BY <1>1, <1>4, <2>1, <2>2, CollectStep
  <2>4. UNCHANGED <<lastFire, nextID, suppressed, markers, attempts, deleted>>
    BY <1>4 DEF Collect
  <2>5. pending' \in Seq(PendingRecord) /\ Len(pending') <= 1
    BY <2>3
  <2>6. TypeOK'
    BY <1>1, <2>3, <2>4, <2>5, StepFacts DEF TypeOK, pullVars
  <2>7. CountsOK'
    BY <1>1, <2>3, <2>4, StepFacts DEF CountsOK, callerVars, pullVars
  <2>8. PendingInv'
    BY <2>3 DEF PendingInv
  <2>9. MarkerInv' /\ MarkerBeforeSample'
    BY <1>1, <2>4, StepFacts, MarkersStay DEF pullVars
  <2> QED BY <1>2, <2>3, <2>6, <2>7, <2>8, <2>9 DEF CaptureInv
<1>5. CASE AfterPush
  <2>1. sampler' = "waiting" /\ sampler = "pushed"
    BY <1>5 DEF AfterPush
  <2> QED BY <1>3, <1>4, <1>5, <2>1 DEF AfterPush
<1>6. CASE StopSampler
  <2>1. sampler' = "stopped" /\ sampler = "waiting"
    BY <1>6 DEF StopSampler
  <2> QED BY <1>3, <1>4, <1>6, <2>1 DEF StopSampler
<1>7. CASE SamplerFails
  BY <1>3, <1>7 DEF SamplerFails
<1> QED
  BY <1>5, <1>6, <1>7

\* A request that begins, aims or is answered touches only the requests.
LEMMA CallerStep ==
  ASSUME CaptureInv, NEW c \in Callers, BeginFire(c) \/ ReadLast(c) \/ Reply(c)
  PROVE  CaptureInv'
<1>1. UNCHANGED <<policy, samplerVars, captureVars, heldVars, pullVars>>
  BY DEF BeginFire, ReadLast, Reply
<1>2. /\ caller \in [Callers -> [at : {"idle", "begun", "aimed", "fired"},
                                 before : Nat, last : Nat, own : Nat]]
      /\ nextID \in Nat /\ ring.last \in Nat
  BY StepFacts DEF CountsOK, TypeOK
<1>3. caller' \in [Callers -> [at : {"idle", "begun", "aimed", "fired"},
                               before : Nat, last : Nat, own : Nat]]
  <2>1. CASE BeginFire(c)
    BY <1>2, <2>1 DEF BeginFire, Idle
  <2>2. CASE ReadLast(c)
    BY <1>2, <2>2 DEF ReadLast
  <2>3. CASE Reply(c)
    BY <1>2, <2>3 DEF Reply, Idle
  <2> QED BY <2>1, <2>2, <2>3
<1>4. TypeOK'
  BY <1>1, StepFacts DEF TypeOK, samplerVars, captureVars, heldVars, pullVars
<1>5. CountsOK'
  BY <1>1, <1>3, StepFacts DEF CountsOK, captureVars, heldVars, pullVars
<1>6. SamplerInv' /\ PendingInv'
  BY <1>1, StepFacts DEF SamplerInv, PendingInv, samplerVars, captureVars
<1>7. MarkerInv' /\ MarkerBeforeSample'
  BY <1>1, StepFacts, MarkersStay DEF captureVars, pullVars
<1>8. Accounting'
  BY <1>1, CountsStay DEF captureVars, heldVars
<1>9. WindowExact'
  BY <1>1, StepFacts, HeldStays DEF heldVars, samplerVars
<1> QED
  BY <1>4, <1>5, <1>6, <1>7, <1>8, <1>9 DEF CaptureInv

LEMMA FireManualStep ==
  ASSUME CaptureInv, NEW c \in Callers, FireManual(c)
  PROVE  CaptureInv'
<1> DEFINE s == caller[c].last
<1>1. /\ Fire(Manual, s)
      /\ caller' = [caller EXCEPT ![c].at = "fired",
                                  ![c].own = IF nextID' # nextID THEN nextID' ELSE 0]
      /\ UNCHANGED <<policy, samplerVars, heldVars, replies, pullVars>>
  BY DEF FireManual
<1>2. /\ caller \in [Callers -> [at : {"idle", "begun", "aimed", "fired"},
                                 before : Nat, last : Nat, own : Nat]]
      /\ Manual \in Causes
  BY StepFacts DEF CountsOK, Causes
<1>3. s \in Nat
  BY <1>2
<1>4. UNCHANGED <<ring, sampler, seq, todo>>
  BY <1>1 DEF samplerVars
<1> HIDE DEF s
<1>5. /\ lastFire' \in [Causes -> Nat \cup {None}]
      /\ pending' \in Seq(PendingRecord) /\ Len(pending') <= 1
      /\ nextID' \in Nat /\ suppressed' \in Nat /\ attempts' \in Nat
      /\ markers' \in Seq(MarkerRecord) /\ Len(markers') <= MaxMarkers
      /\ PendingInv' /\ MarkerInv' /\ MarkerBeforeSample' /\ Accounting'
  BY <1>1, <1>2, <1>3, <1>4, FireStep
<1>6. caller' \in [Callers -> [at : {"idle", "begun", "aimed", "fired"},
                               before : Nat, last : Nat, own : Nat]]
  BY <1>1, <1>2, <1>5
<1>7. TypeOK'
  BY <1>1, <1>4, <1>5, StepFacts DEF TypeOK, heldVars, pullVars, MarkerRecord
<1>8. CountsOK'
  BY <1>1, <1>5, <1>6, StepFacts DEF CountsOK, heldVars, pullVars
<1>9. SamplerInv'
  BY <1>4, StepFacts DEF SamplerInv
<1>10. WindowExact'
  BY <1>1, <1>4, StepFacts, HeldStays DEF heldVars
<1> QED
  BY <1>5, <1>7, <1>8, <1>9, <1>10 DEF CaptureInv

\* A delete takes one capture and its bytes, whatever the sampler is at.
LEMMA DeleteStep ==
  ASSUME CaptureInv, NEW i \in DOMAIN held, Delete(i)
  PROVE  CaptureInv'
<1>1. /\ held' = RemoveAt(held, i)
      /\ bytes' = bytes - held[i].bytes
      /\ deleted' = deleted + 1
      /\ UNCHANGED <<policy, samplerVars, captureVars, refused, evicted,
                     callerVars, pullVars>>
  BY DEF Delete
<1>2. /\ held \in Seq(HeldRecord) /\ i \in 1 .. Len(held) /\ Len(held) \in Nat
      /\ deleted \in Nat /\ refused \in Nat /\ evicted \in Nat
      /\ pending \in Seq(PendingRecord) /\ Len(pending) \in Nat
  BY StepFacts, LenProperties DEF TypeOK, CountsOK
<1>3. /\ held' \in Seq(HeldRecord) /\ Len(held') = Len(held) - 1
      /\ BytesOf(held') = BytesOf(held) - held[i].bytes
      /\ BytesOf(held') \in Nat /\ held[i].bytes \in Nat
      /\ \A j \in 1 .. Len(held') : \E l \in 1 .. Len(held) : held'[j] = held[l]
  <2>1. /\ RemoveAt(held, i) \in Seq(HeldRecord)
        /\ Len(RemoveAt(held, i)) = Len(held) - 1
        /\ BytesOf(RemoveAt(held, i)) = BytesOf(held) - held[i].bytes
        /\ BytesOf(RemoveAt(held, i)) \in Nat /\ held[i].bytes \in Nat
        /\ \A j \in 1 .. Len(RemoveAt(held, i)) :
             \E l \in 1 .. Len(held) : RemoveAt(held, i)[j] = held[l]
    BY <1>2, BytesRemove
  <2> QED BY <1>1, <2>1
<1>4. /\ bytes = BytesOf(held) /\ bytes <= Budget
      /\ attempts = nextID + suppressed
      /\ nextID = Len(pending) + Len(held) + refused + evicted + deleted
  BY DEF CaptureInv, Accounting, BudgetExact
<1>5. bytes' = BytesOf(held') /\ bytes' <= Budget /\ bytes' \in Nat
  <2>1. bytes' = BytesOf(held')
    BY <1>1, <1>3, <1>4
  <2>2. BytesOf(held) \in Nat /\ Budget \in Nat
    BY <1>4, WindowConstants DEF CaptureInv, CountsOK
  <2> QED BY <1>1, <1>3, <1>4, <2>1, <2>2
<1>6. Accounting'
  <2>1. nextID = Len(pending) + Len(held') + refused + evicted + (deleted + 1)
    BY <1>2, <1>3, <1>4
  <2>2. UNCHANGED <<attempts, nextID, suppressed, pending, refused, evicted>>
    BY <1>1 DEF captureVars
  <2> QED BY <1>1, <1>4, <1>5, <2>1, <2>2 DEF Accounting, BudgetExact
<1>7. WindowExact'
  BY <1>1, <1>3, HeldStays DEF samplerVars
<1>8. TypeOK'
  BY <1>1, <1>3, StepFacts DEF TypeOK, samplerVars, captureVars, pullVars
<1>9. CountsOK'
  BY <1>1, <1>2, <1>5, StepFacts DEF CountsOK, captureVars, callerVars, pullVars
<1>10. SamplerInv' /\ PendingInv'
  BY <1>1, StepFacts DEF SamplerInv, PendingInv, samplerVars, captureVars
<1>11. MarkerInv' /\ MarkerBeforeSample'
  BY <1>1, StepFacts, MarkersStay DEF captureVars, pullVars
<1> QED
  BY <1>6, <1>7, <1>8, <1>9, <1>10, <1>11 DEF CaptureInv

\* What the puller reads ends behind its cursor, at a sample of the ring.
LEMMA SinceEnds ==
  ASSUME CaptureInv, SinceOf(ring, cursor, Limit) # <<>>
  PROVE  /\ Last(SinceOf(ring, cursor, Limit)) \in 0 .. ring.last
         /\ cursor < Last(SinceOf(ring, cursor, Limit))
<1>1. /\ RingOK(ring) /\ ring.last \in Nat /\ ring.len \in Nat \ {0}
      /\ cursor \in Nat /\ cursor <= ring.last
      /\ Limit \in Nat
  <2>1. RingOK(ring) /\ ring.last \in Nat /\ cursor \in 0 .. ring.last
    BY StepFacts DEF TypeOK
  <2>2. Limit \in Nat
    BY CaptureAssumption
  <2>3. ring.len \in Nat \ {0}
    BY <2>1 DEF RingOK
  <2> QED BY <2>1, <2>2, <2>3
<1> DEFINE l == ring.last
           lo == IF cursor < l - ring.len THEN l - ring.len + 1 ELSE cursor + 1
           hi == IF Limit > 0 /\ l - lo + 1 > Limit THEN lo + Limit - 1 ELSE l
           w == SinceOf(ring, cursor, Limit)
<1>2. w = Run(lo, hi)
  <2>1. Run(lo, hi) = Owed(ring, cursor, Limit)
    BY DEF Owed
  <2> QED BY <1>1, <2>1, SinceOwed
<1>3. lo \in Nat /\ cursor < lo /\ hi \in Int /\ hi <= l /\ l \in Nat
  BY <1>1
<1>4. w # <<>>
  OBVIOUS
<1> HIDE DEF lo, hi, w
<1>5. lo <= hi
  BY <1>2, <1>3, <1>4, RunShape
<1>6. /\ Len(w) = hi - lo + 1
      /\ \A i \in 1 .. (hi - lo + 1) : w[i] = lo + i - 1
  <2>1. lo <= hi + 1 /\ lo \in Int
    BY <1>3, <1>5
  <2> QED BY <1>2, <1>3, <2>1, RunShape
<1>7. Last(w) = hi
  <2>1. hi - lo + 1 \in 1 .. (hi - lo + 1)
    BY <1>3, <1>5
  <2>2. w[hi - lo + 1] = lo + (hi - lo + 1) - 1
    BY <1>6, <2>1
  <2> QED BY <1>3, <1>6, <2>2 DEF Last
<1>8. hi \in 0 .. l /\ cursor < hi
  BY <1>1, <1>3, <1>5
<1> QED
  BY <1>7, <1>8 DEF w

LEMMA PullSinceStep ==
  ASSUME CaptureInv, PullSince
  PROVE  CaptureInv'
<1>1. /\ upTo' = Last(SinceOf(ring, cursor, Limit))
      /\ SinceOf(ring, cursor, Limit) # <<>>
      /\ UNCHANGED <<policy, samplerVars, captureVars, heldVars, callerVars,
                     cursor, got>>
  BY DEF PullSince
<1>2. upTo' \in 0 .. ring.last /\ cursor < upTo'
  BY <1>1, SinceEnds
<1>3. TypeOK'
  BY <1>1, <1>2, StepFacts DEF TypeOK, samplerVars, captureVars, heldVars
<1>4. CountsOK'
  BY <1>1, StepFacts DEF CountsOK, captureVars, heldVars, callerVars
<1>5. SamplerInv' /\ PendingInv'
  BY <1>1, StepFacts DEF SamplerInv, PendingInv, samplerVars, captureVars
<1>6. MarkerInv' /\ MarkerBeforeSample'
  BY <1>1, <1>2, MarkersStay DEF captureVars
<1>7. Accounting'
  BY <1>1, CountsStay DEF captureVars, heldVars
<1>8. WindowExact'
  BY <1>1, StepFacts, HeldStays DEF heldVars, samplerVars
<1> QED
  BY <1>3, <1>4, <1>5, <1>6, <1>7, <1>8 DEF CaptureInv

\* The n ids are those of the markers at the ascending positions pos, which
\* are the positions of all the markers in (after, through].
AreBetween(ids, n, pos, after, through) ==
  /\ pos \in [1 .. n -> 1 .. Len(markers)]
  /\ \A i, j \in 1 .. n : i < j => pos[i] < pos[j]
  /\ \A i \in 1 .. n :
       /\ ids[i] = markers[pos[i]].id
       /\ after < markers[pos[i]].seq /\ markers[pos[i]].seq <= through
  /\ \A j \in 1 .. Len(markers) :
       after < markers[j].seq /\ markers[j].seq <= through
         => \E i \in 1 .. n : pos[i] = j

\* What the puller is sent with a batch: the markers in it, none of another.
LEMMA BatchMarkers ==
  ASSUME CaptureInv, NEW after \in Nat, NEW through \in Nat,
         NEW w, w = MarkersBetween(after, through),
         NEW ids, ids = [i \in DOMAIN w |-> w[i].id]
  PROVE  /\ ids \in Seq(Nat)
         /\ \E pos : AreBetween(ids, Len(ids), pos, after, through)
<1> DEFINE keep == {m \in Range(markers) : after < m.seq /\ m.seq <= through}
<1>1. markers \in Seq(MarkerRecord) /\ DOMAIN markers = 1 .. Len(markers)
  BY StepFacts, LenProperties DEF TypeOK, MarkerRecord
<1>2. \A j \in 1 .. Len(markers) :
        markers[j] \in keep <=> after < markers[j].seq /\ markers[j].seq <= through
  <2>1. \A j \in 1 .. Len(markers) : markers[j] \in Range(markers)
    BY <1>1 DEF Range
  <2> QED BY <2>1
<1>3. w = Kept(markers, keep)
  BY DEF MarkersBetween
<1> HIDE DEF keep
<1>4. IsKept(w, MarkerRecord, markers, keep, Len(markers))
  BY <1>1, <1>3, KeptShape
<1>5. w \in Seq(MarkerRecord)
  BY <1>4 DEF IsKept
<1>6. PICK pos \in [1 .. Len(w) -> 1 .. Len(markers)] :
        /\ \A i, j \in 1 .. Len(w) : i < j => pos[i] < pos[j]
        /\ \A i \in 1 .. Len(w) : w[i] = markers[pos[i]] /\ markers[pos[i]] \in keep
        /\ \A j \in 1 .. Len(markers) :
             markers[j] \in keep => \E i \in 1 .. Len(w) : pos[i] = j
  BY <1>4 DEF IsKept
<1>7. /\ Len(w) \in Nat /\ DOMAIN w = 1 .. Len(w)
      /\ \A i \in 1 .. Len(w) : w[i] \in MarkerRecord
  BY <1>5, LenProperties, ElementOfSeq
<1>8. \A i \in 1 .. Len(w) : w[i].id \in Nat
  BY <1>7 DEF MarkerRecord
<1>9. /\ ids \in Seq(Nat) /\ Len(ids) = Len(w)
      /\ \A i \in 1 .. Len(w) : ids[i] = w[i].id
  <2>1. ids = [i \in 1 .. Len(w) |-> w[i].id]
    BY <1>7
  <2>2. ids \in Seq(Nat) /\ Len(ids) = Len(w)
    BY <1>7, <1>8, <2>1
  <2> QED BY <2>1, <2>2
<1>10. \A i \in 1 .. Len(w) : pos[i] \in 1 .. Len(markers)
  BY <1>6
<1>11. \A i \in 1 .. Len(w) :
         /\ ids[i] = markers[pos[i]].id
         /\ after < markers[pos[i]].seq /\ markers[pos[i]].seq <= through
  BY <1>2, <1>6, <1>9, <1>10
<1>12. \A j \in 1 .. Len(markers) :
         after < markers[j].seq /\ markers[j].seq <= through
           => \E i \in 1 .. Len(w) : pos[i] = j
  BY <1>2, <1>6
<1>13. AreBetween(ids, Len(w), pos, after, through)
  BY <1>6, <1>11, <1>12 DEF AreBetween
<1>14. AreBetween(ids, Len(ids), pos, after, through)
  BY <1>9, <1>13
<1> QED
  BY <1>9, <1>14

LEMMA PullMarkersStep ==
  ASSUME CaptureInv, PullMarkers
  PROVE  CaptureInv'
<1> DEFINE w == MarkersBetween(cursor, upTo)
           ids == [i \in DOMAIN w |-> w[i].id]
<1>1. /\ upTo # 0 /\ got' = got \o ids /\ cursor' = upTo /\ upTo' = 0
      /\ UNCHANGED <<policy, samplerVars, captureVars, heldVars, callerVars>>
  BY DEF PullMarkers
<1>2. UNCHANGED <<ring, sampler, seq, todo, pending, markers, nextID>>
  BY <1>1 DEF samplerVars, captureVars
<1>3. /\ cursor \in 0 .. ring.last /\ upTo \in 0 .. ring.last /\ ring.last \in Nat
      /\ cursor < upTo
      /\ markers \in Seq(MarkerRecord) /\ got \in Seq(Nat)
      /\ nextID \in Nat
  BY <1>1, StepFacts DEF TypeOK, CountsOK, MarkerRecord
<1>4. cursor \in Nat /\ upTo \in Nat
  BY <1>3
<1>5. \A i \in 1 .. Len(markers) :
        /\ markers[i].id \in Nat /\ markers[i].id <= nextID
        /\ markers[i].seq \in Nat
  <2>1. \A i \in 1 .. Len(markers) : markers[i] \in MarkerRecord
    BY <1>3, ElementOfSeq
  <2> QED BY <2>1 DEF MarkerRecord, CaptureInv, MarkerInv
<1>6. \A i, j \in 1 .. Len(markers) : markers[i].id = markers[j].id => i = j
  <2>1. ASSUME NEW i \in 1 .. Len(markers), NEW j \in 1 .. Len(markers),
               markers[i].id = markers[j].id
        PROVE  i = j
    <3>1. markers[i].id \in Nat /\ markers[j].id \in Nat
      BY <1>5
    <3>2. ~ (i < j) /\ ~ (j < i)
      BY <2>1, <3>1 DEF CaptureInv, MarkerInv
    <3>3. i \in Int /\ j \in Int
      OBVIOUS
    <3> QED BY <3>2, <3>3
  <2> QED BY <2>1
<1>7. /\ \A j, l \in 1 .. Len(got) : got[j] = got[l] => j = l
      /\ \A i \in 1 .. Len(markers) :
           markers[i].cause # Manual /\ markers[i].seq <= cursor
             => \E j \in 1 .. Len(got) : got[j] = markers[i].id
      /\ \A j \in 1 .. Len(got) : got[j] <= nextID
      /\ \A i \in 1 .. Len(markers), j \in 1 .. Len(got) :
           got[j] = markers[i].id => markers[i].seq <= cursor
  BY <1>3, MarkersIndexed DEF CaptureInv, MarkerInv, Sent
<1>8. /\ ids \in Seq(Nat)
      /\ \E pos : AreBetween(ids, Len(ids), pos, cursor, upTo)
  BY <1>4, BatchMarkers
<1> HIDE DEF w, ids
<1>9. PICK pos \in [1 .. Len(ids) -> 1 .. Len(markers)] :
        /\ \A i, j \in 1 .. Len(ids) : i < j => pos[i] < pos[j]
        /\ \A i \in 1 .. Len(ids) :
             /\ ids[i] = markers[pos[i]].id
             /\ cursor < markers[pos[i]].seq /\ markers[pos[i]].seq <= upTo
        /\ \A j \in 1 .. Len(markers) :
             cursor < markers[j].seq /\ markers[j].seq <= upTo
               => \E i \in 1 .. Len(ids) : pos[i] = j
  BY <1>8 DEF AreBetween
<1> DEFINE n == Len(got)
           k == Len(ids)
<1>10. \A i \in 1 .. k : pos[i] \in 1 .. Len(markers)
  BY <1>9
<1>11. n \in Nat /\ k \in Nat
  BY <1>3, <1>8, LenProperties
<1>12. /\ got' \in Seq(Nat) /\ Len(got') = n + k
       /\ \A i \in 1 .. n : got'[i] = got[i]
       /\ \A i \in (n + 1) .. (n + k) : got'[i] = ids[i - n]
  BY <1>1, <1>3, <1>8, ConcatShape
<1>13. \A i, j \in 1 .. k : ids[i] = ids[j] => i = j
  <2>1. ASSUME NEW i \in 1 .. k, NEW j \in 1 .. k, ids[i] = ids[j] PROVE i = j
    <3>1. pos[i] = pos[j]
      BY <1>6, <1>9, <1>10, <2>1
    <3>2. pos[i] \in Int
      BY <1>10
    <3>3. ~ (i < j) /\ ~ (j < i)
      BY <1>9, <3>1, <3>2
    <3>4. i \in Int /\ j \in Int
      OBVIOUS
    <3> QED BY <3>3, <3>4
  <2> QED BY <2>1
<1>14. \A i \in 1 .. k, j \in 1 .. n : got[j] # ids[i]
  <2>1. ASSUME NEW i \in 1 .. k, NEW j \in 1 .. n, got[j] = ids[i] PROVE FALSE
    <3>1. pos[i] \in 1 .. Len(markers) /\ ids[i] = markers[pos[i]].id
          /\ cursor < markers[pos[i]].seq
      BY <1>9, <1>10
    <3>2. markers[pos[i]].seq <= cursor /\ markers[pos[i]].seq \in Nat
      BY <1>5, <1>7, <2>1, <3>1
    <3> QED BY <1>4, <3>1, <3>2
  <2> QED BY <2>1
<1>15. \A j \in 1 .. (n + k) :
         \/ j \in 1 .. n /\ got'[j] = got[j]
         \/ j - n \in 1 .. k /\ got'[j] = ids[j - n]
  <2>1. \A j \in 1 .. (n + k) :
          j \in 1 .. n \/ (j \in (n + 1) .. (n + k) /\ j - n \in 1 .. k)
    BY <1>11
  <2> QED BY <1>12, <2>1
<1>16. \A j, l \in 1 .. (n + k) : got'[j] = got'[l] => j = l
  <2>1. ASSUME NEW j \in 1 .. (n + k), NEW l \in 1 .. (n + k), got'[j] = got'[l]
        PROVE  j = l
    <3>1. CASE j \in 1 .. n /\ got'[j] = got[j] /\ l \in 1 .. n /\ got'[l] = got[l]
      BY <1>7, <2>1, <3>1
    <3>2. CASE j - n \in 1 .. k /\ got'[j] = ids[j - n]
               /\ l - n \in 1 .. k /\ got'[l] = ids[l - n]
      <4>1. j - n = l - n
        BY <1>13, <2>1, <3>2
      <4> QED BY <1>11, <4>1
    <3>3. CASE j \in 1 .. n /\ got'[j] = got[j] /\ l - n \in 1 .. k /\ got'[l] = ids[l - n]
      BY <1>14, <2>1, <3>3
    <3>4. CASE l \in 1 .. n /\ got'[l] = got[l] /\ j - n \in 1 .. k /\ got'[j] = ids[j - n]
      BY <1>14, <2>1, <3>4
    <3> QED BY <1>15, <3>1, <3>2, <3>3, <3>4
  <2> QED BY <2>1
<1>17. \A j \in 1 .. (n + k) : got'[j] <= nextID
  <2>1. \A i \in 1 .. k : ids[i] <= nextID
    BY <1>5, <1>9, <1>10
  <2> QED BY <1>7, <1>15, <2>1
<1>18. \A i \in 1 .. Len(markers), j \in 1 .. (n + k) :
         got'[j] = markers[i].id => markers[i].seq <= upTo
  <2>1. ASSUME NEW i \in 1 .. Len(markers), NEW j \in 1 .. (n + k),
               got'[j] = markers[i].id
        PROVE  markers[i].seq <= upTo
    <3>1. CASE j \in 1 .. n /\ got'[j] = got[j]
      <4>1. markers[i].seq <= cursor /\ markers[i].seq \in Nat
        BY <1>5, <1>7, <2>1, <3>1
      <4> QED BY <1>3, <1>4, <4>1
    <3>2. CASE j - n \in 1 .. k /\ got'[j] = ids[j - n]
      <4>1. markers[pos[j - n]].id = markers[i].id /\ pos[j - n] \in 1 .. Len(markers)
        BY <1>9, <1>10, <2>1, <3>2
      <4>2. pos[j - n] = i
        BY <1>6, <4>1
      <4> QED BY <1>9, <3>2, <4>2
    <3> QED BY <1>15, <3>1, <3>2
  <2> QED BY <2>1
<1>19. ASSUME NEW i \in 1 .. Len(markers),
              markers[i].cause # Manual, markers[i].seq <= upTo
       PROVE  \E j \in 1 .. (n + k) : got'[j] = markers[i].id
  <2>1. CASE markers[i].seq <= cursor
    <3>1. PICK j \in 1 .. n : got[j] = markers[i].id
      BY <1>7, <1>19, <2>1
    <3>2. j \in 1 .. (n + k)
      BY <1>11
    <3> QED BY <1>12, <3>1, <3>2
  <2>2. CASE ~ (markers[i].seq <= cursor)
    <3>1. cursor < markers[i].seq
      BY <1>4, <1>5, <2>2
    <3>2. PICK l \in 1 .. k : pos[l] = i
      BY <1>9, <1>19, <3>1
    <3>3. n + l \in (n + 1) .. (n + k) /\ n + l \in 1 .. (n + k) /\ (n + l) - n = l
      BY <1>11
    <3>4. got'[n + l] = ids[l]
      BY <1>12, <3>3
    <3> QED BY <1>9, <3>2, <3>3, <3>4
  <2> QED BY <2>1, <2>2
<1> HIDE DEF n, k
<1>20. MarkerBeforeSample'
  BY <1>1, <1>2, <1>3, <1>12, <1>16, <1>19, MarkersNext
<1>21. MarkerInv'
  BY <1>1, <1>2, <1>12, <1>17, <1>18, StepFacts DEF MarkerInv, CaptureInv
<1>22. TypeOK'
  BY <1>1, <1>3, StepFacts DEF TypeOK, samplerVars, captureVars, heldVars
<1>23. CountsOK'
  BY <1>1, <1>12, StepFacts DEF CountsOK, captureVars, heldVars, callerVars
<1>24. SamplerInv' /\ PendingInv'
  BY <1>2, StepFacts DEF SamplerInv, PendingInv
<1>25. Accounting'
  BY <1>1, CountsStay DEF captureVars, heldVars
<1>26. WindowExact'
  BY <1>1, <1>2, StepFacts, HeldStays DEF heldVars
<1> QED
  BY <1>20, <1>21, <1>22, <1>23, <1>24, <1>25, <1>26 DEF CaptureInv
-----------------------------------------------------------------------------
(* The theorems.                                                           *)

LEMMA CaptureInit == Init => CaptureInv
<1>1. SUFFICES ASSUME Init PROVE CaptureInv
  OBVIOUS
<1>2. Capacity \in Nat \ {0} /\ MaxMarkers \in Nat \ {0} /\ MaxSeq \in Nat
      /\ Budget \in Nat
  BY CaptureAssumption
<1>3. RingOK(ring) /\ ring.len = Capacity /\ ring.last = 0
  <2>1. ring = NewRing(Capacity)
    BY <1>1 DEF Init
  <2>2. RingOK(ring)
    BY <1>2, <2>1, NewKeeps
  <2>3. ring.len = Capacity /\ ring.last = 0
    BY <1>2, <2>1 DEF NewRing
  <2> QED BY <2>2, <2>3
<1>4. /\ policy \in Policies /\ sampler = "waiting" /\ seq = 0 /\ todo = <<>>
      /\ lastFire = [c \in Causes |-> None]
      /\ pending = <<>> /\ held = <<>> /\ bytes = 0
      /\ nextID = 0 /\ suppressed = 0 /\ refused = 0 /\ markers = <<>>
      /\ caller = [c \in Callers |-> Idle]
      /\ cursor = 0 /\ upTo = 0
      /\ attempts = 0 /\ evicted = 0 /\ deleted = 0 /\ got = <<>>
  BY <1>1 DEF Init
<1>5. BytesOf(held) = 0
  <2>1. BytesOf(<<>>) = 0
    <3>1. <<>> \in Seq(HeldRecord)
      OBVIOUS
    <3>2. BytesOf(<<>>) = Total(Mapped(SizeOf, <<>>))
      BY <3>1, BytesMapped
    <3>3. Total(Mapped(SizeOf, <<>>)) = 0
      <4>1. [id |-> 0, cause |-> Manual, fire |-> 0, entries |-> <<>>, bytes |-> 0,
             complete |-> TRUE] \in HeldRecord
        BY DEF HeldRecord, Causes
      <4> QED BY <4>1, SizeType, MappedOne
    <3> QED BY <3>2, <3>3
  <2> QED BY <1>4, <2>1
<1>6. TypeOK
  <2>1. cursor \in 0 .. ring.last /\ upTo \in 0 .. ring.last /\ seq \in 0 .. MaxSeq
    BY <1>2, <1>3, <1>4
  <2>2. lastFire \in [Causes -> Nat \cup {None}]
    BY <1>4
  <2>3. /\ pending \in Seq(PendingRecord) /\ Len(pending) <= 1
        /\ held \in Seq(HeldRecord) /\ todo \in Seq(Range(Conditions))
        /\ markers \in Seq([id : Nat, cause : Causes, seq : Nat])
        /\ Len(markers) <= MaxMarkers
    BY <1>2, <1>4
  <2> QED BY <1>3, <1>4, <2>1, <2>2, <2>3 DEF TypeOK
<1>7. CountsOK
  BY <1>4 DEF CountsOK, Idle
<1>8. SamplerInv /\ PendingInv /\ MarkerInv
  BY <1>3, <1>4 DEF SamplerInv, PendingInv, MarkerInv
<1>9. Accounting
  BY <1>2, <1>4, <1>5 DEF Accounting, BudgetExact
<1>10. WindowExact
  BY <1>4 DEF WindowExact, Range
<1>11. MarkerBeforeSample
  BY <1>4 DEF MarkerBeforeSample, IsInjective, Range
<1> QED
  BY <1>6, <1>7, <1>8, <1>9, <1>10, <1>11 DEF CaptureInv

LEMMA CaptureStep == CaptureInv /\ [Next]_vars => CaptureInv'
<1>1. SUFFICES ASSUME CaptureInv, [Next]_vars PROVE CaptureInv'
  OBVIOUS
<1>2. CASE Tick
  BY <1>1, <1>2, TickStep
<1>3. CASE ObserveHit
  BY <1>1, <1>3, ObserveHitStep
<1>4. CASE PushSample
  BY <1>1, <1>4, PushSampleStep
<1>5. CASE AfterPush \/ StopSampler \/ SamplerFails
  BY <1>1, <1>5, SettleStep
<1>6. CASE \E c \in Callers : BeginFire(c) \/ ReadLast(c) \/ Reply(c)
  BY <1>1, <1>6, CallerStep
<1>7. CASE \E c \in Callers : FireManual(c)
  BY <1>1, <1>7, FireManualStep
<1>8. CASE \E i \in DOMAIN held : Delete(i)
  BY <1>1, <1>8, DeleteStep
<1>9. CASE PullSince
  BY <1>1, <1>9, PullSinceStep
<1>10. CASE PullMarkers
  BY <1>1, <1>10, PullMarkersStep
<1>11. CASE UNCHANGED vars
  <2>1. UNCHANGED <<policy, captureVars, heldVars, samplerVars, callerVars, pullVars>>
    BY <1>11 DEF vars
  <2>2. TypeOK'
    BY <1>1, <2>1, StepFacts DEF TypeOK, samplerVars, captureVars, heldVars, pullVars
  <2>3. CountsOK'
    BY <1>1, <2>1, StepFacts DEF CountsOK, captureVars, heldVars, callerVars, pullVars
  <2>4. SamplerInv' /\ PendingInv'
    BY <1>1, <2>1, StepFacts DEF SamplerInv, PendingInv, samplerVars, captureVars
  <2>5. MarkerInv' /\ MarkerBeforeSample'
    BY <1>1, <2>1, StepFacts, MarkersStay DEF captureVars, pullVars
  <2>6. Accounting'
    BY <1>1, <2>1, CountsStay DEF captureVars, heldVars
  <2>7. WindowExact'
    BY <1>1, <2>1, StepFacts, HeldStays DEF heldVars, samplerVars
  <2> QED BY <2>2, <2>3, <2>4, <2>5, <2>6, <2>7 DEF CaptureInv
<1> QED
  BY <1>1, <1>2, <1>3, <1>4, <1>5, <1>6, <1>7, <1>8, <1>9, <1>10, <1>11 DEF Next

LEMMA CaptureInduction == Spec => []CaptureInv
<1>1. Init => CaptureInv
  BY CaptureInit
<1>2. CaptureInv /\ [Next]_vars => CaptureInv'
  BY CaptureStep
<1> QED
  BY <1>1, <1>2, PTL DEF Spec

\* The fields of the captures, and of the ring they copy from, keep their
\* ranges: at most one capture is pending, at most MaxMarkers are listed
\* (capture.go, fire), and no puller is ahead of the ring.
THEOREM CaptureTypes == Spec => []TypeOK
<1>1. CaptureInv => TypeOK
  BY DEF CaptureInv
<1> QED
  BY <1>1, CaptureInduction, PTL

\* Every fire is counted once, every armed capture is somewhere, and the
\* pinned bytes are counted exactly and never exceed the budget, after any
\* collections, evictions and deletions (capture.go, collect, Delete).
THEOREM CapturesCounted == Spec => []Accounting
<1>1. CaptureInv => Accounting
  BY DEF CaptureInv
<1> QED
  BY <1>1, CaptureInduction, PTL

\* Every retained capture is a run of consecutive samples around its fire,
\* and a condition's capture is whole unless the agent was too young, stopped
\* first, or its ring is smaller than the window (capture.go, AfterPush).
THEOREM CapturesExact == Spec => []WindowExact
<1>1. CaptureInv => WindowExact
  BY DEF CaptureInv
<1> QED
  BY <1>1, CaptureInduction, PTL

\* The puller is sent each marker at most once, and has been sent every
\* condition's marker still listed at or before its cursor, whatever the
\* sampler and the requests do between its two reads (capture.go,
\* MarkersBetween; sampler.go, Run).
THEOREM MarkersInTime == Spec => []MarkerBeforeSample
<1>1. CaptureInv => MarkerBeforeSample
  BY DEF CaptureInv
<1> QED
  BY <1>1, CaptureInduction, PTL
=============================================================================
