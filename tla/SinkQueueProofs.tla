--------------------------- MODULE SinkQueueProofs ---------------------------
(***************************************************************************)
(* Proofs about SinkQueue for every value of its constants: any event      *)
(* sizes, byte budget, backoff and number of events, and all four          *)
(* disciplines.  The inductive invariant QueueInv says, besides the types, *)
(* where the batch in flight is (FlightInv), that every batch is accounted *)
(* for (Conservation) and that the ids of the held batches ascend from the *)
(* newest one the destination applied.  One lemma per action shows that    *)
(* its step is good (StepOK): it keeps QueueInv, never takes the           *)
(* destination back in time, enforces the budget, and is a step or a       *)
(* stutter of SinkPromise.  The byte count (BytesExact) is proved on top   *)
(* of QueueInv, from what DataLemmas says of sums over sequences.          *)
(***************************************************************************)
EXTENDS SinkQueue, DataLemmas

-----------------------------------------------------------------------------
\* What the sink would hold were q its queue.
HeldOf(q) == IF disc = "stdout" THEN inflight \o q ELSE q

\* The batches of s have ascending ids between lo and hi.
Ordered(s, lo, hi) ==
  /\ \A i, j \in 1 .. Len(s) : i < j => s[i].id < s[j].id
  /\ \A i \in 1 .. Len(s) : lo <= s[i].id /\ s[i].id <= hi

\* Where the batch in flight is, and that a failure is yet to be counted.
FlightInv ==
  /\ flusher = "posting" => Len(inflight) = 1
  /\ flusher # "posting" => inflight = <<>>
  /\ flusher = "posting" /\ disc # "stdout" =>
       queue # <<>> /\ queue[1] = inflight[1]
  /\ flusher = "failing" => errors < MaxErrors

\* The inductive invariant.
QueueInv ==
  /\ TypeOK
  /\ FlightInv
  /\ Conservation
  /\ Ordered(Held, seen, made)

\* Every element of a sequence of batches is a batch with an id.
LEMMA BatchIds ==
  ASSUME NEW w \in Seq(Batch)
  PROVE  \A i \in 1 .. Len(w) : w[i] \in Batch /\ w[i].id \in Nat
<1>1. \A i \in 1 .. Len(w) : w[i] \in Batch
  BY ElementOfSeq
<1>2. \A b \in Batch : b.id \in Nat
  BY DEF Batch
<1> QED
  BY <1>1, <1>2

\* Eviction keeps the ids ascending and within their bounds.
LEMMA OrderedWithout ==
  ASSUME NEW w \in Seq(Batch), NEW h \in Nat, NEW k \in Nat, h + k <= Len(w),
         NEW lo \in Nat, NEW hi \in Nat, Ordered(w, lo, hi)
  PROVE  Ordered(Without(w, h, k), lo, hi)
<1> DEFINE v == Without(w, h, k)
<1>1. /\ v \in Seq(Batch) /\ Len(v) = Len(w) - k
      /\ \A i \in 1 .. h : v[i] = w[i]
      /\ \A i \in (h + 1) .. (Len(w) - k) : v[i] = w[i + k]
  BY WithoutShape
<1> HIDE DEF v
<1>2. \A i \in 1 .. Len(v) :
        \E m \in 1 .. Len(w) : v[i] = w[m] /\ m = IF i <= h THEN i ELSE i + k
  BY <1>1
<1>3. \A i \in 1 .. Len(w) : w[i].id \in Nat
  BY BatchIds
<1>4. ASSUME NEW i \in 1 .. Len(v), NEW j \in 1 .. Len(v), i < j
      PROVE  v[i].id < v[j].id
  <2>1. PICK m \in 1 .. Len(w) : v[i] = w[m] /\ m = IF i <= h THEN i ELSE i + k
    BY <1>2
  <2>2. PICK n \in 1 .. Len(w) : v[j] = w[n] /\ n = IF j <= h THEN j ELSE j + k
    BY <1>2
  <2>3. m < n
    BY <1>1, <1>4, <2>1, <2>2
  <2> QED
    BY <2>1, <2>2, <2>3 DEF Ordered
<1>5. ASSUME NEW i \in 1 .. Len(v) PROVE lo <= v[i].id /\ v[i].id <= hi
  BY <1>2 DEF Ordered
<1>6. Ordered(v, lo, hi)
  BY <1>4, <1>5 DEF Ordered
<1> QED
  BY <1>6 DEF v

\* Appending the next batch keeps the ids ascending.
LEMMA OrderedAppend ==
  ASSUME NEW w \in Seq(Batch), NEW b \in Batch, NEW lo \in Nat, NEW hi \in Nat,
         Ordered(w, lo, hi), lo <= hi, b.id = hi + 1
  PROVE  Ordered(Append(w, b), lo, hi + 1)
<1> DEFINE v == Append(w, b)
<1>1. /\ v \in Seq(Batch) /\ Len(v) = Len(w) + 1
      /\ \A i \in 1 .. Len(w) : v[i] = w[i]
      /\ v[Len(w) + 1] = b
  BY AppendShape
<1> HIDE DEF v
<1>2. \A i \in 1 .. Len(w) : w[i].id \in Nat
  BY BatchIds
<1>3. ASSUME NEW i \in 1 .. Len(v), NEW j \in 1 .. Len(v), i < j
      PROVE  v[i].id < v[j].id
  <2>1. CASE j <= Len(w)
    BY <1>1, <1>2, <1>3, <2>1 DEF Ordered
  <2>2. CASE j = Len(w) + 1
    <3>1. i \in 1 .. Len(w)
      BY <1>1, <1>3, <2>2
    <3>2. w[i].id <= hi
      BY <3>1 DEF Ordered
    <3> QED BY <1>1, <1>2, <2>2, <3>1, <3>2
  <2> QED BY <1>1, <2>1, <2>2
<1>4. ASSUME NEW i \in 1 .. Len(v) PROVE lo <= v[i].id /\ v[i].id <= hi + 1
  <2>1. CASE i <= Len(w)
    <3>1. i \in 1 .. Len(w) BY <1>1, <2>1
    <3>2. lo <= w[i].id /\ w[i].id <= hi BY <3>1 DEF Ordered
    <3> QED BY <1>1, <1>2, <3>1, <3>2
  <2>2. CASE i = Len(w) + 1
    BY <1>1, <2>2
  <2> QED BY <1>1, <2>1, <2>2
<1>5. Ordered(v, lo, hi + 1)
  BY <1>3, <1>4 DEF Ordered
<1> QED
  BY <1>5 DEF v

\* Removing the head leaves ids above the head's.
LEMMA OrderedTail ==
  ASSUME NEW w \in Seq(Batch), w # <<>>, NEW lo \in Nat, NEW hi \in Nat,
         Ordered(w, lo, hi)
  PROVE  Ordered(Tail(w), w[1].id, hi)
<1> DEFINE v == Tail(w)
<1>1. /\ v \in Seq(Batch) /\ Len(v) = Len(w) - 1 /\ Len(w) \in Nat \ {0}
      /\ \A i \in 1 .. (Len(w) - 1) : v[i] = w[i + 1]
  BY TailShape
<1> HIDE DEF v
<1>2. \A i \in 1 .. Len(w) : w[i].id \in Nat
  BY BatchIds
<1>3. ASSUME NEW i \in 1 .. Len(v), NEW j \in 1 .. Len(v), i < j
      PROVE  v[i].id < v[j].id
  <2>1. i + 1 \in 1 .. Len(w) /\ j + 1 \in 1 .. Len(w) /\ i + 1 < j + 1
    BY <1>1, <1>3
  <2>2. w[i + 1].id < w[j + 1].id
    BY <2>1 DEF Ordered
  <2> QED BY <1>1, <2>2
<1>4. ASSUME NEW i \in 1 .. Len(v) PROVE w[1].id <= v[i].id /\ v[i].id <= hi
  <2>1. i + 1 \in 1 .. Len(w) /\ 1 \in 1 .. Len(w) /\ 1 < i + 1
    BY <1>1
  <2>2. w[1].id < w[i + 1].id /\ w[i + 1].id <= hi
    BY <2>1 DEF Ordered
  <2> QED BY <1>1, <1>2, <2>1, <2>2
<1>5. Ordered(v, w[1].id, hi)
  BY <1>3, <1>4 DEF Ordered
<1> QED
  BY <1>5 DEF v
-----------------------------------------------------------------------------
\* The eviction loop (push, rotate, rotateLocked) in terms of what the sink
\* holds: it cuts k batches behind the protected ones, counts them, keeps the
\* newest and the batch in flight, and ends within the budget or with nothing
\* left to evict.
LEMMA EvictHeld ==
  ASSUME QueueInv, NEW q \in Seq(Batch), NEW total, EvictInto(q, total),
         UNCHANGED <<disc, inflight>>,
         inflight # <<>> /\ disc # "stdout" =>
           disc = "shared" /\ q # <<>> /\ q[1] = inflight[1]
  PROVE  \E h \in 0 .. 1, k \in Nat :
           /\ h + k <= Len(HeldOf(q))
           /\ k > 0 => h + k < Len(HeldOf(q))
           /\ Held' = Without(HeldOf(q), h, k)
           /\ shed' = shed \cup Slice(HeldOf(q), h + 1, h + k)
           /\ dropped' = dropped + k
           /\ queue' \in Seq(Batch) /\ Len(queue') = Len(q) - k
           /\ inflight # <<>> /\ disc # "stdout" =>
                queue' # <<>> /\ queue'[1] = inflight[1]
           /\ queued' <= MaxQ \/ Len(Held') <= 1 + Len(inflight)
<1> DEFINE p == Protected(q)
           rest(k) == total - Bytes(SubSeq(q, p + 1, p + k))
<1>1. PICK k \in 0 .. Len(q) :
        /\ k = 0 \/ k <= Evictable(q)
        /\ rest(k) <= MaxQ \/ k >= Evictable(q)
        /\ queue' = SubSeq(q, 1, p) \o SubSeq(q, p + k + 1, Len(q))
        /\ queued' = rest(k)
        /\ dropped' = dropped + k
        /\ shed' = shed \cup Slice(q, p + 1, p + k)
  BY DEF EvictInto, Slice
<1>2. /\ inflight \in Seq(Batch) /\ Len(inflight) \in 0 .. 1 /\ Len(q) \in Nat
      /\ inflight # <<>> => Len(inflight) = 1
  <2>1. inflight \in Seq(Batch) /\ Len(inflight) <= 1
    BY DEF QueueInv, TypeOK
  <2>2. inflight # <<>> => Len(inflight) = 1
    BY DEF QueueInv, FlightInv
  <2> QED BY <2>1, <2>2, LenProperties
<1>3. /\ p \in 0 .. 1
      /\ p = 1 <=> inflight # <<>> /\ disc # "stdout"
      /\ p <= Len(q)
  BY <1>2 DEF Protected
<1>4. queue' = Without(q, p, k)
  BY <1>1 DEF Without
<1>5. queued' <= MaxQ \/ k >= Len(q) - 1 - p
  BY <1>1 DEF Evictable
<1>6. k \in Nat /\ p + k <= Len(q) /\ (k > 0 => p + k < Len(q))
  <2>1. k = 0 \/ k <= Len(q) - 1 - p
    BY <1>1 DEF Evictable
  <2>2. k \in Nat /\ k <= Len(q) /\ Len(q) \in Nat /\ p \in 0 .. 1 /\ p <= Len(q)
    BY <1>1, <1>2, <1>3
  <2> HIDE DEF p
  <2> QED BY <2>1, <2>2
<1> HIDE DEF p, rest
<1>7. /\ queue' \in Seq(Batch) /\ Len(queue') = Len(q) - k
      /\ \A i \in 1 .. p : queue'[i] = q[i]
  <2>1. p \in Nat /\ k \in Nat /\ p + k <= Len(q)
    BY <1>3, <1>6
  <2> QED BY <1>4, <2>1, WithoutShape, ZenonT(60)
<1>8. inflight # <<>> /\ disc # "stdout" => queue' # <<>> /\ queue'[1] = inflight[1]
  BY <1>2, <1>3, <1>6, <1>7
<1>9. CASE disc # "stdout"
  <2>1. HeldOf(q) = q /\ Held' = queue'
    BY <1>9 DEF HeldOf, Held
  <2>2. queued' <= MaxQ \/ Len(Held') <= 1 + Len(inflight)
    BY <1>2, <1>3, <1>5, <1>6, <1>7, <2>1
  <2> QED
    BY <1>1, <1>3, <1>4, <1>6, <1>7, <1>8, <2>1, <2>2 DEF p
<1>10. CASE disc = "stdout"
  <2>1. HeldOf(q) = inflight \o q /\ Held' = inflight \o queue' /\ p = 0
    BY <1>3, <1>10 DEF HeldOf, Held
  <2>0. k \in Nat /\ k <= Len(q) /\ inflight \in Seq(Batch)
    BY <1>2, <1>6, <2>1
  <2>w. inflight \o Without(q, 0, k) = Without(inflight \o q, Len(inflight), k)
    BY <2>0, WithoutBehind
  <2>v. Slice(q, 1, k) = Slice(inflight \o q, Len(inflight) + 1, Len(inflight) + k)
    BY <2>0, WithoutBehind
  <2>2. Held' = Without(HeldOf(q), Len(inflight), k)
    BY <1>4, <2>1, <2>w
  <2>3. Slice(q, 1, k) = Slice(HeldOf(q), Len(inflight) + 1, Len(inflight) + k)
    BY <2>1, <2>v
  <2>4. /\ Len(HeldOf(q)) = Len(inflight) + Len(q)
        /\ Len(Held') = Len(inflight) + Len(queue')
    <3>1. Len(inflight \o q) = Len(inflight) + Len(q)
      BY <2>0, ConcatShape
    <3>2. Len(inflight \o queue') = Len(inflight) + Len(queue')
      BY <1>7, <2>0, ConcatShape
    <3> QED BY <2>1, <3>1, <3>2
  <2>5. queued' <= MaxQ \/ Len(Held') <= 1 + Len(inflight)
    BY <1>2, <1>5, <1>6, <1>7, <2>1, <2>4
  <2>6. shed' = shed \cup Slice(q, 1, k)
    <3>1. p = 0 /\ 0 + 1 = 1 /\ 0 + k = k
      BY <1>6, <2>1
    <3> QED BY <1>1, <3>1
  <2>7. /\ Len(inflight) + k <= Len(HeldOf(q))
        /\ k > 0 => Len(inflight) + k < Len(HeldOf(q))
    BY <1>2, <1>6, <2>1, <2>4
  <2>8. shed' = shed \cup Slice(HeldOf(q), Len(inflight) + 1, Len(inflight) + k)
    BY <2>3, <2>6
  <2>9. Len(inflight) \in 0 .. 1 /\ k \in Nat
    BY <1>2, <1>6
  <2> QED
    BY <2>9, <1>1, <1>7, <1>8, <2>2, <2>5, <2>7, <2>8
<1> QED
  BY <1>9, <1>10
-----------------------------------------------------------------------------
\* A batch appended to the queue is appended to what the sink holds.
LEMMA HeldAppend ==
  ASSUME QueueInv, NEW b \in Batch
  PROVE  HeldOf(Append(queue, b)) = Append(Held, b)
<1>1. queue \in Seq(Batch) /\ inflight \in Seq(Batch)
  BY DEF QueueInv, TypeOK
<1>2. inflight \o Append(queue, b) = Append(inflight \o queue, b)
  BY <1>1
<1> QED
  BY <1>2 DEF HeldOf, Held

\* What the sink holds is a sequence of batches.
LEMMA HeldType ==
  ASSUME QueueInv
  PROVE  /\ Held \in Seq(Batch) /\ Len(Held) \in Nat
         /\ queue \in Seq(Batch) /\ inflight \in Seq(Batch)
<1>1. queue \in Seq(Batch) /\ inflight \in Seq(Batch)
  BY DEF QueueInv, TypeOK
<1> QED
  BY <1>1 DEF Held

\* The evicted elements are batches.
LEMMA SliceType ==
  ASSUME NEW w \in Seq(Batch), NEW h \in Nat, NEW k \in Nat, h + k <= Len(w)
  PROVE  Slice(w, h + 1, h + k) \subseteq Batch
<1>1. \A i \in (h + 1) .. (h + k) : i \in 1 .. Len(w)
  OBVIOUS
<1> QED
  BY <1>1, BatchIds DEF Slice

\* push, and rotate of a non-empty batch: the invariant's parts that speak of
\* the queue are kept, the budget is enforced and the step is an Accept.
LEMMA Pushed ==
  ASSUME QueueInv, NEW n \in Nat, PushAndEvict(n),
         UNCHANGED <<disc, inflight, written, refused, delivered, seen>>,
         inflight # <<>> /\ disc # "stdout" => disc = "shared"
  PROVE  /\ queue' \in Seq(Batch) /\ dropped' \in Nat /\ made' \in Nat
         /\ shed' \subseteq Batch /\ seen' \in 0 .. made'
         /\ inflight # <<>> /\ disc # "stdout" =>
              queue' # <<>> /\ queue'[1] = inflight[1]
         /\ Conservation' /\ Ordered(Held, seen, made)'
         /\ queued' <= MaxQ \/ Len(Held') <= 1 + Len(inflight)
         /\ Promise!Accept
<1> DEFINE b == [id |-> made + 1, size |-> n]
           w == Append(Held, b)
           q == Append(queue, b)
<1>1. /\ made \in Nat /\ dropped \in Nat /\ written \in Nat /\ refused \in Nat
      /\ seen \in Nat /\ seen <= made /\ shed \subseteq Batch
  <2>1. /\ made \in Nat /\ dropped \in Nat /\ written \in Nat /\ refused \in Nat
        /\ seen \in 0 .. made /\ shed \subseteq Batch
    BY DEF QueueInv, TypeOK
  <2> QED BY <2>1
<1>2. b \in Batch /\ b.id = made + 1
  BY <1>1 DEF Batch
<1>3. EvictInto(q, queued + n) /\ made' = made + 1
  BY DEF PushAndEvict
<1>4. /\ Held \in Seq(Batch) /\ Len(Held) \in Nat
      /\ queue \in Seq(Batch) /\ inflight \in Seq(Batch)
  BY HeldType
<1> HIDE DEF b
<1>5. /\ q \in Seq(Batch) /\ q # <<>> /\ (queue # <<>> => q[1] = queue[1])
      /\ w \in Seq(Batch) /\ Len(w) = Len(Held) + 1 /\ w[Len(w)] = b
  <2>1. /\ q \in Seq(Batch) /\ Len(q) = Len(queue) + 1
        /\ \A i \in 1 .. Len(queue) : q[i] = queue[i]
    BY <1>2, <1>4, AppendShape
  <2> HIDE DEF q
  <2>2. q # <<>>
    BY <1>4, <2>1
  <2>4. queue # <<>> => q[1] = queue[1]
    <3>1. ASSUME queue # <<>> PROVE 1 \in 1 .. Len(queue)
      BY <1>4, <3>1
    <3> QED BY <2>1, <3>1
  <2>3. w \in Seq(Batch) /\ Len(w) = Len(Held) + 1 /\ w[Len(Held) + 1] = b
    BY <1>2, <1>4, AppendShape
  <2> QED BY <2>1, <2>2, <2>3, <2>4
<1>6. HeldOf(q) = w
  BY <1>2, HeldAppend
<1>7. inflight # <<>> /\ disc # "stdout" =>
        disc = "shared" /\ q # <<>> /\ q[1] = inflight[1]
  BY <1>5 DEF QueueInv, FlightInv
<1> HIDE DEF q, w
<1>8. PICK h \in 0 .. 1, k \in Nat :
        /\ h + k <= Len(w)
        /\ k > 0 => h + k < Len(w)
        /\ Held' = Without(w, h, k)
        /\ shed' = shed \cup Slice(w, h + 1, h + k)
        /\ dropped' = dropped + k
        /\ queue' \in Seq(Batch) /\ Len(queue') = Len(q) - k
        /\ inflight # <<>> /\ disc # "stdout" =>
             queue' # <<>> /\ queue'[1] = inflight[1]
        /\ queued' <= MaxQ \/ Len(Held') <= 1 + Len(inflight)
  BY <1>3, <1>5, <1>6, <1>7, EvictHeld
<1>9. h \in Nat /\ h + k <= Len(w)
  BY <1>8
<1>10. /\ Held' \in Seq(Batch) /\ Len(Held') = Len(w) - k
       /\ \A i \in (h + 1) .. (Len(w) - k) : Held'[i] = w[i + k]
       /\ k = 0 => Held' = w
  <2>1. /\ Without(w, h, k) \in Seq(Batch) /\ Len(Without(w, h, k)) = Len(w) - k
        /\ \A i \in (h + 1) .. (Len(w) - k) : Without(w, h, k)[i] = w[i + k]
    <3>1. w \in Seq(Batch) /\ h \in Nat /\ k \in Nat /\ h + k <= Len(w)
      BY <1>5, <1>9
    <3> QED BY <3>1, WithoutShape, ZenonT(60)
  <2>2. k = 0 => Without(w, h, k) = w
    BY <1>5, <1>9, WithoutNone
  <2> QED BY <1>8, <2>1, <2>2
<1>a. /\ Len(w) \in Nat /\ Len(Held) \in Nat /\ Len(w) = Len(Held) + 1
      /\ h \in Nat /\ k \in Nat /\ (k > 0 => h + k < Len(w))
  BY <1>4, <1>5, <1>8
<1>11. Conservation'
  <2>1. Len(Held') = Len(Held) + 1 - k
    BY <1>5, <1>10
  <2>2. written + dropped + Len(Held) = made + refused
    BY DEF QueueInv, Conservation
  <2>3. written + (dropped + k) + (Len(Held) + 1 - k) = (made + 1) + refused
    BY <1>1, <1>4, <2>2
  <2> QED BY <1>3, <1>8, <2>1, <2>3 DEF Conservation
<1>12. Ordered(Held, seen, made)'
  <2>1. Ordered(w, seen, made + 1)
    BY <1>1, <1>2, <1>4, OrderedAppend DEF QueueInv, w
  <2>2. Ordered(Without(w, h, k), seen, made + 1)
    BY <1>1, <1>5, <1>9, <2>1, OrderedWithout
  <2> QED BY <1>3, <1>8, <2>2 DEF Ordered
<1>13. Held' # <<>> /\ Held'[Len(Held')] = b
  <2>1. CASE k = 0
    BY <1>4, <1>5, <1>10, <2>1
  <2>2. CASE k > 0
    <3>1. /\ Len(w) - k \in (h + 1) .. (Len(w) - k) /\ (Len(w) - k) + k = Len(w)
          /\ Len(w) - k > 0
      BY <1>a, <2>2
    <3> QED BY <1>5, <1>10, <3>1, SMTT(30)
  <2> QED BY <2>1, <2>2
<1>14. shed' \subseteq Batch
  <2>1. Slice(w, h + 1, h + k) \subseteq Batch
    BY <1>5, <1>9, SliceType
  <2> QED BY <1>1, <1>8, <2>1
<1>15. Promise!Accept
  <2>1. Append(Held, Held'[Len(Held')]) = w
    BY <1>13 DEF w
  <2>2. \E h1 \in 0 .. 1, k1 \in 0 .. Len(Held) :
          /\ h1 + k1 <= Len(Held)
          /\ Held' = Without(w, h1, k1)
          /\ shed' = shed \cup Slice(w, h1 + 1, h1 + k1)
    <3>1. CASE k = 0
      <4>1. Held' = Without(w, 0, 0)
        BY <1>5, <1>10, <3>1, WithoutNone
      <4>2. Slice(w, h + 1, h + k) = {} /\ Slice(w, 0 + 1, 0 + 0) = {}
        BY <1>9, <3>1 DEF Slice
      <4>3. shed' = shed \cup Slice(w, 0 + 1, 0 + 0)
        BY <1>8, <4>2
      <4>4. 0 \in 0 .. 1 /\ 0 \in 0 .. Len(Held) /\ 0 + 0 <= Len(Held)
        BY <1>4
      <4> QED BY <4>1, <4>3, <4>4
    <3>2. CASE k > 0
      <4>1. h + k <= Len(Held) /\ k \in 0 .. Len(Held)
        BY <1>a, <3>2
      <4> QED BY <1>8, <4>1
    <3> QED BY <3>1, <3>2
  <2>3. \E h1 \in 0 .. 1, k1 \in 0 .. Len(Held) :
          /\ h1 + k1 <= Len(Held)
          /\ Promise!Shed(w, h1, k1)
    BY <2>2 DEF Promise!Shed, Promise!Without, Without, Slice
  <2>4. Held' # <<>> /\ Held'[Len(Held')].id = made + 1 /\ made' = made + 1
    BY <1>2, <1>3, <1>13
  <2> QED
    BY <2>1, <2>3, <2>4 DEF Promise!Accept
<1> QED
  <2>1. seen' \in 0 .. made' /\ made' \in Nat /\ dropped' \in Nat
    BY <1>1, <1>3, <1>8
  <2> QED BY <1>8, <1>11, <1>12, <1>14, <1>15, <2>1
-----------------------------------------------------------------------------
\* Elasticsearch.rotateLocked called from Write: an Accept that evicts nothing.
LEMMA Appended ==
  ASSUME QueueInv, NEW n \in Nat, PushOnly(n), disc = "elastic",
         UNCHANGED <<disc, inflight, written, refused, delivered, seen>>
  PROVE  /\ queue' \in Seq(Batch) /\ made' \in Nat /\ seen' \in 0 .. made'
         /\ queue # <<>> => queue' # <<>> /\ queue'[1] = queue[1]
         /\ Conservation' /\ Ordered(Held, seen, made)'
         /\ Promise!Accept
<1> DEFINE b == [id |-> made + 1, size |-> n]
<1>1. /\ made \in Nat /\ dropped \in Nat /\ written \in Nat /\ refused \in Nat
      /\ seen \in Nat /\ seen <= made
  <2>1. /\ made \in Nat /\ dropped \in Nat /\ written \in Nat /\ refused \in Nat
        /\ seen \in 0 .. made
    BY DEF QueueInv, TypeOK
  <2> QED BY <2>1
<1>2. b \in Batch /\ b.id = made + 1
  BY <1>1 DEF Batch
<1>3. queue' = Append(queue, b) /\ made' = made + 1 /\ UNCHANGED <<dropped, shed>>
  BY DEF PushOnly
<1>4. /\ Held = queue /\ Held' = queue' /\ queue \in Seq(Batch)
      /\ Len(queue) \in Nat
  BY HeldType DEF Held
<1> HIDE DEF b
<1>5. /\ queue' \in Seq(Batch) /\ Len(queue') = Len(queue) + 1
      /\ queue'[Len(queue) + 1] = b
      /\ \A i \in 1 .. Len(queue) : queue'[i] = queue[i]
  BY <1>2, <1>3, <1>4, AppendShape
<1>6. queue # <<>> => queue' # <<>> /\ queue'[1] = queue[1]
  BY <1>4, <1>5
<1>7. Conservation'
  <2>1. written + dropped + Len(Held) = made + refused
    BY DEF QueueInv, Conservation
  <2> QED BY <1>1, <1>3, <1>4, <1>5, <2>1 DEF Conservation
<1>8. Ordered(Held, seen, made)'
  <2>1. Ordered(Append(Held, b), seen, made + 1)
    BY <1>1, <1>2, <1>4, OrderedAppend DEF QueueInv
  <2> QED BY <1>3, <1>4, <2>1 DEF Ordered
<1>9. Promise!Accept
  <2>1. queue' # <<>> /\ queue'[Len(queue')] = b
    BY <1>4, <1>5
  <2>2. Held' = Without(Append(Held, b), 0, 0)
    <3>1. Append(Held, b) \in Seq(Batch) /\ 0 <= Len(Append(Held, b))
      BY <1>2, <1>4
    <3> QED BY <1>3, <1>4, <3>1, WithoutNone
  <2>3. shed' = shed \cup {Append(Held, b)[i] : i \in (0 + 1) .. (0 + 0)}
    BY <1>3
  <2>4. Promise!Shed(Append(Held, b), 0, 0)
    BY <2>2, <2>3 DEF Promise!Shed, Promise!Without, Without
  <2>5. \E h \in 0 .. 1, k \in 0 .. Len(Held) :
          h + k <= Len(Held) /\ Promise!Shed(Append(Held, b), h, k)
    <3>1. 0 \in 0 .. 1 /\ 0 \in 0 .. Len(Held) /\ 0 + 0 <= Len(Held)
      BY <1>4
    <3> QED BY <2>4, <3>1
  <2> QED
    BY <1>2, <1>3, <1>4, <2>1, <2>5 DEF Promise!Accept
<1> QED
  BY <1>1, <1>3, <1>5, <1>6, <1>7, <1>8, <1>9

\* Elasticsearch.rotate with nothing to rotate: a Trim, or no step at all.
LEMMA Trimmed ==
  ASSUME QueueInv, EvictInto(queue, queued), disc = "elastic", inflight = <<>>,
         UNCHANGED <<disc, inflight, written, refused, delivered, seen, made>>
  PROVE  /\ queue' \in Seq(Batch) /\ dropped' \in Nat /\ shed' \subseteq Batch
         /\ Conservation' /\ Ordered(Held, seen, made)'
         /\ Promise!Trim \/ UNCHANGED <<made, Held, delivered, shed>>
<1>1. /\ made \in Nat /\ dropped \in Nat /\ written \in Nat /\ refused \in Nat
      /\ seen \in Nat /\ shed \subseteq Batch
  <2>1. /\ made \in Nat /\ dropped \in Nat /\ written \in Nat /\ refused \in Nat
        /\ seen \in 0 .. made /\ shed \subseteq Batch
    BY DEF QueueInv, TypeOK
  <2> QED BY <2>1
<1>2. /\ Held = queue /\ HeldOf(queue) = queue /\ Held \in Seq(Batch)
      /\ Len(Held) \in Nat
  BY HeldType DEF Held, HeldOf
<1>3. PICK h \in 0 .. 1, k \in Nat :
        /\ h + k <= Len(Held)
        /\ k > 0 => h + k < Len(Held)
        /\ Held' = Without(Held, h, k)
        /\ shed' = shed \cup Slice(Held, h + 1, h + k)
        /\ dropped' = dropped + k
        /\ queue' \in Seq(Batch)
  BY <1>2, EvictHeld
<1>4. h \in Nat /\ k \in Nat /\ h + k <= Len(Held) /\ Len(Held) \in Nat
  BY <1>2, <1>3
<1>5. Len(Held') = Len(Held) - k
  BY <1>2, <1>3, <1>4, WithoutShape
<1>6. Conservation'
  <2>1. written + dropped + Len(Held) = made + refused
    BY DEF QueueInv, Conservation
  <2> QED BY <1>1, <1>3, <1>4, <1>5, <2>1 DEF Conservation
<1>7. Ordered(Held, seen, made)'
  <2>1. Ordered(Without(Held, h, k), seen, made)
    BY <1>1, <1>2, <1>4, OrderedWithout DEF QueueInv
  <2> QED BY <1>3, <2>1 DEF Ordered
<1>8. Promise!Trim \/ UNCHANGED <<made, Held, delivered, shed>>
  <2>1. CASE k = 0
    <3>1. Held' = Held
      BY <1>2, <1>3, <1>4, <2>1, WithoutNone
    <3>2. shed' = shed
      BY <1>3, <1>4, <2>1 DEF Slice
    <3> QED BY <3>1, <3>2
  <2>2. CASE k > 0
    <3>1. k \in 1 .. Len(Held) /\ h + k < Len(Held)
      BY <1>3, <1>4, <2>2
    <3>2. Promise!Shed(Held, h, k)
      BY <1>3 DEF Promise!Shed, Promise!Without, Without, Slice
    <3> QED BY <3>1, <3>2 DEF Promise!Trim
  <2> QED BY <1>4, <2>1, <2>2
<1>9. shed' \subseteq Batch
  <2>1. Slice(Held, h + 1, h + k) \subseteq Batch
    BY <1>2, <1>4, SliceType
  <2> QED BY <1>1, <1>3, <2>1
<1> QED
  BY <1>1, <1>3, <1>6, <1>7, <1>8, <1>9

\* A step that leaves the held batches and the counters alone is a stutter.
LEMMA HeldUnchanged ==
  ASSUME QueueInv, UNCHANGED <<Held, made, written, dropped, refused, seen,
                               delivered, shed>>
  PROVE  /\ Conservation' /\ Ordered(Held, seen, made)'
         /\ UNCHANGED Promise!promiseVars
BY DEF QueueInv, Conservation, Ordered, Promise!promiseVars

\* The step enforces the byte budget.
BudgetStep ==
  made' # made /\ (disc = "elastic" => flusher' # flusher)
    => queued' <= MaxQ \/ Len(Held') <= 1 + Len(inflight)

\* A good step.
StepOK ==
  /\ QueueInv'
  /\ seen' >= seen
  /\ Promise!PromiseNext \/ UNCHANGED Promise!promiseVars
  /\ BudgetStep
-----------------------------------------------------------------------------
\* The newest batch applied is a number.
LEMMA SeenType ==
  ASSUME QueueInv
  PROVE  seen \in Nat /\ seen >= seen
<1>1. seen \in 0 .. made /\ made \in Nat
  BY DEF QueueInv, TypeOK
<1> QED
  BY <1>1

\* Write is a good step.
LEMMA WriteStep ==
  ASSUME QueueInv, NEW n \in Sizes, Write(n)
  PROVE  StepOK
<1>0. n \in Nat /\ cur + n \in Nat /\ events' \in 0 .. MaxEvents
  <2>1. n \in Nat /\ MaxEvents \in Nat
    BY SinkAssumption
  <2>2. cur \in Nat /\ events \in 0 .. MaxEvents
    BY DEF QueueInv, TypeOK
  <2>3. events' = events + 1 /\ events < MaxEvents
    BY DEF Write
  <2> QED BY <2>1, <2>2, <2>3
<1>1. UNCHANGED <<disc, inflight, backoff, written, errors, flusher, final,
                  closer, refused, delivered, seen>>
  BY DEF Write
<1>2. CASE disc = "elastic" /\ PushOnly(cur + n) /\ cur' = 0
  <2>1. /\ queue' \in Seq(Batch) /\ made' \in Nat /\ seen' \in 0 .. made'
        /\ queue # <<>> => queue' # <<>> /\ queue'[1] = queue[1]
        /\ Conservation' /\ Ordered(Held, seen, made)'
        /\ Promise!Accept
    BY <1>0, <1>1, <1>2, Appended
  <2>2. dropped' = dropped /\ shed' = shed
    BY <1>2 DEF PushOnly
  <2>3. TypeOK'
    BY <1>0, <1>1, <1>2, <2>1, <2>2 DEF QueueInv, TypeOK
  <2>4. FlightInv'
    BY <1>1, <2>1 DEF QueueInv, FlightInv
  <2>5. seen' >= seen
    BY <1>1, SeenType
  <2> QED
    BY <1>1, <1>2, <2>1, <2>3, <2>4, <2>5
       DEF StepOK, QueueInv, BudgetStep, Promise!PromiseNext
<1>3. CASE disc = "stdout" /\ PushAndEvict(cur + n) /\ cur' = 0
  <2>1. /\ queue' \in Seq(Batch) /\ dropped' \in Nat /\ made' \in Nat
        /\ shed' \subseteq Batch /\ seen' \in 0 .. made'
        /\ Conservation' /\ Ordered(Held, seen, made)'
        /\ queued' <= MaxQ \/ Len(Held') <= 1 + Len(inflight)
        /\ Promise!Accept
    BY <1>0, <1>1, <1>3, Pushed
  <2>3. TypeOK'
    BY <1>0, <1>1, <1>3, <2>1 DEF QueueInv, TypeOK
  <2>4. FlightInv'
    BY <1>1, <1>3, <2>1 DEF QueueInv, FlightInv
  <2>5. seen' >= seen
    BY <1>1, SeenType
  <2> QED
    BY <2>1, <2>3, <2>4, <2>5
       DEF StepOK, QueueInv, BudgetStep, Promise!PromiseNext
<1>4. CASE cur' = cur + n /\ UNCHANGED <<queue, queued, dropped, made, shed>>
  <2>1. UNCHANGED <<Held, made, written, dropped, refused, seen, delivered, shed>>
    BY <1>1, <1>4 DEF Held
  <2>2. /\ Conservation' /\ Ordered(Held, seen, made)'
        /\ UNCHANGED Promise!promiseVars
    BY <2>1, HeldUnchanged
  <2>3. TypeOK'
    BY <1>0, <1>1, <1>4 DEF QueueInv, TypeOK
  <2>4. FlightInv'
    BY <1>1, <1>4 DEF QueueInv, FlightInv
  <2>5. seen' >= seen
    BY <1>1, SeenType
  <2> QED
    BY <1>4, <2>2, <2>3, <2>4, <2>5 DEF StepOK, QueueInv, BudgetStep
<1> QED
  BY <1>2, <1>3, <1>4 DEF Write

\* push from another goroutine is a good step.
LEMMA PushStep ==
  ASSUME QueueInv, NEW n \in Sizes, Push(n)
  PROVE  StepOK
<1>0. n \in Nat /\ events' \in 0 .. MaxEvents
  <2>1. n \in Nat /\ MaxEvents \in Nat
    BY SinkAssumption
  <2>2. events \in 0 .. MaxEvents
    BY DEF QueueInv, TypeOK
  <2>3. events' = events + 1 /\ events < MaxEvents
    BY DEF Push
  <2> QED BY <2>1, <2>2, <2>3
<1>1. /\ UNCHANGED <<disc, cur, inflight, backoff, written, errors, flusher,
                     final, closer, refused, delivered, seen>>
      /\ disc = "shared" /\ PushAndEvict(n)
  BY DEF Push
<1>2. /\ queue' \in Seq(Batch) /\ dropped' \in Nat /\ made' \in Nat
      /\ shed' \subseteq Batch /\ seen' \in 0 .. made'
      /\ inflight # <<>> /\ disc # "stdout" =>
           queue' # <<>> /\ queue'[1] = inflight[1]
      /\ Conservation' /\ Ordered(Held, seen, made)'
      /\ queued' <= MaxQ \/ Len(Held') <= 1 + Len(inflight)
      /\ Promise!Accept
  BY <1>0, <1>1, Pushed
<1>3. TypeOK'
  BY <1>0, <1>1, <1>2 DEF QueueInv, TypeOK
<1>4. FlightInv'
  BY <1>1, <1>2 DEF QueueInv, FlightInv
<1>5. seen' >= seen
  BY <1>1, SeenType
<1> QED
  BY <1>2, <1>3, <1>4, <1>5
     DEF StepOK, QueueInv, BudgetStep, Promise!PromiseNext

\* rotate, at a tick or at the stop, is a good step.
LEMMA RotateStep ==
  ASSUME QueueInv, Rotate, flusher = "waiting", flusher' = "looping",
         final' \in BOOLEAN,
         UNCHANGED <<disc, inflight, backoff, written, errors, closer, events,
                     refused, delivered, seen>>
  PROVE  StepOK
<1>0. inflight = <<>> /\ cur \in Nat
  BY DEF QueueInv, TypeOK, FlightInv
<1>1. FlightInv'
  BY <1>0 DEF FlightInv
<1>2. seen' >= seen
  BY SeenType
<1>3. CASE PushAndEvict(cur) /\ cur' = 0
  <2>1. /\ queue' \in Seq(Batch) /\ dropped' \in Nat /\ made' \in Nat
        /\ shed' \subseteq Batch /\ seen' \in 0 .. made'
        /\ Conservation' /\ Ordered(Held, seen, made)'
        /\ queued' <= MaxQ \/ Len(Held') <= 1 + Len(inflight)
        /\ Promise!Accept
    BY <1>0, <1>3, Pushed
  <2>2. TypeOK'
    BY <1>3, <2>1 DEF QueueInv, TypeOK
  <2> QED
    BY <1>1, <1>2, <2>1, <2>2
       DEF StepOK, QueueInv, BudgetStep, Promise!PromiseNext
<1>4. CASE disc = "elastic" /\ EvictInto(queue, queued) /\ UNCHANGED <<cur, made>>
  <2>1. /\ queue' \in Seq(Batch) /\ dropped' \in Nat /\ shed' \subseteq Batch
        /\ Conservation' /\ Ordered(Held, seen, made)'
        /\ Promise!Trim \/ UNCHANGED <<made, Held, delivered, shed>>
    BY <1>0, <1>4, Trimmed
  <2>2. TypeOK'
    BY <1>4, <2>1 DEF QueueInv, TypeOK
  <2> QED
    BY <1>1, <1>2, <1>4, <2>1, <2>2
       DEF StepOK, QueueInv, BudgetStep, Promise!PromiseNext, Promise!promiseVars
<1>5. CASE UNCHANGED <<cur, queue, queued, dropped, made, shed>>
  <2>1. UNCHANGED <<Held, made, written, dropped, refused, seen, delivered, shed>>
    BY <1>5 DEF Held
  <2>2. /\ Conservation' /\ Ordered(Held, seen, made)'
        /\ UNCHANGED Promise!promiseVars
    BY <2>1, HeldUnchanged
  <2>3. TypeOK'
    BY <1>5 DEF QueueInv, TypeOK
  <2> QED
    BY <1>1, <1>2, <1>5, <2>2, <2>3 DEF StepOK, QueueInv, BudgetStep
<1> QED
  BY <1>3, <1>4, <1>5 DEF Rotate
-----------------------------------------------------------------------------
\* The early return of the delivery loop, Close and its return are good steps.
LEMMA IdleStep ==
  ASSUME QueueInv, Idle \/ Close \/ CloseReturns
  PROVE  StepOK
<1>1. UNCHANGED <<disc, cur, queue, queued, inflight, stats, final, events, history>>
  BY DEF Idle, Close, CloseReturns
<1>2. UNCHANGED <<Held, made, written, dropped, refused, seen, delivered, shed>>
  BY <1>1 DEF Held, stats, history
<1>3. /\ Conservation' /\ Ordered(Held, seen, made)'
      /\ UNCHANGED Promise!promiseVars
  BY <1>2, HeldUnchanged
<1>4. /\ backoff' \in 0 .. BackoffCap
      /\ flusher' \in {"waiting", "looping", "posting", "failing", "done"}
      /\ closer' \in {"open", "closing", "closed", "gave up"}
      /\ flusher' = "posting" <=> flusher = "posting"
      /\ flusher' = "failing" <=> flusher = "failing"
  <2>1. /\ backoff \in 0 .. BackoffCap /\ BackoffCap \in Nat
        /\ flusher \in {"waiting", "looping", "posting", "failing", "done"}
        /\ closer \in {"open", "closing", "closed", "gave up"}
    BY SinkAssumption DEF QueueInv, TypeOK
  <2>2. CASE Idle
    <3>1. backoff' = IF backoff > 0 THEN backoff - 1 ELSE 0
      BY <2>2 DEF Idle
    <3>2. backoff' \in 0 .. BackoffCap
      <4>1. BackoffCap \in Nat /\ backoff \in 0 .. BackoffCap
        BY <2>1
      <4>2. CASE backoff > 0
        BY <3>1, <4>1, <4>2
      <4>3. CASE ~ (backoff > 0)
        BY <3>1, <4>1, <4>3
      <4> QED BY <4>2, <4>3
    <3>3. /\ flusher = "looping" /\ flusher' \in {"waiting", "done"}
          /\ closer' = closer
      BY <2>2 DEF Idle, Return
    <3> QED BY <2>1, <3>2, <3>3
  <2>3. CASE Close
    BY <2>1, <2>3 DEF Close
  <2>4. CASE CloseReturns
    BY <2>1, <2>4 DEF CloseReturns
  <2> QED BY <2>2, <2>3, <2>4
<1>5. TypeOK'
  BY <1>1, <1>4 DEF QueueInv, TypeOK, stats, history
<1>6. FlightInv'
  BY <1>1, <1>4 DEF QueueInv, FlightInv, stats
<1>7. seen' >= seen
  BY <1>2, SeenType
<1> QED
  BY <1>2, <1>3, <1>5, <1>6, <1>7 DEF StepOK, QueueInv, BudgetStep

\* Picking the head and releasing the mutex is a good step.
LEMMA StartPostStep ==
  ASSUME QueueInv, StartPost
  PROVE  StepOK
<1>1. /\ flusher = "looping" /\ flusher' = "posting" /\ queue # <<>>
      /\ inflight' = <<Head(queue)>>
      /\ queue' = IF disc = "stdout" THEN Tail(queue) ELSE queue
      /\ UNCHANGED <<disc, cur, queued, backoff, stats, final, closer, events,
                     history>>
  BY DEF StartPost
<1>2. inflight = <<>> /\ queue \in Seq(Batch)
  BY <1>1, HeldType DEF QueueInv, FlightInv
<1>3. /\ Head(queue) = queue[1] /\ queue[1] \in Batch
      /\ Tail(queue) \in Seq(Batch) /\ <<Head(queue)>> \o Tail(queue) = queue
      /\ <<>> \o queue = queue
  BY <1>1, <1>2
<1>4. Held' = Held
  BY <1>1, <1>2, <1>3 DEF Held
<1>5. /\ Conservation' /\ Ordered(Held, seen, made)'
      /\ UNCHANGED Promise!promiseVars
  BY <1>1, <1>4, HeldUnchanged DEF stats, history
<1>6. /\ inflight' \in Seq(Batch) /\ Len(inflight') = 1 /\ Len(inflight') <= 1
      /\ inflight'[1] = queue[1] /\ queue' \in Seq(Batch)
  BY <1>1, <1>2, <1>3
<1>7. TypeOK'
  BY <1>1, <1>6 DEF QueueInv, TypeOK, stats, history
<1>8. FlightInv'
  BY <1>1, <1>6 DEF QueueInv, FlightInv
<1>9. seen' >= seen /\ made' = made
  BY <1>1, SeenType DEF history
<1> QED
  BY <1>5, <1>7, <1>8, <1>9 DEF StepOK, QueueInv, BudgetStep

\* What the invariant says while a batch is posted.
LEMMA Posting ==
  ASSUME QueueInv, flusher = "posting"
  PROVE  /\ Len(inflight) = 1 /\ inflight \in Seq(Batch) /\ inflight[1] \in Batch
         /\ Held # <<>> /\ Held[1] = inflight[1]
         /\ inflight[1].id \in 0 .. made /\ seen <= inflight[1].id
         /\ disc # "stdout" => queue # <<>> /\ queue[1] = inflight[1]
<1>1. /\ Held \in Seq(Batch) /\ Len(Held) \in Nat
      /\ queue \in Seq(Batch) /\ inflight \in Seq(Batch)
  BY HeldType
<1>2. Len(inflight) = 1
      /\ (disc # "stdout" => queue # <<>> /\ queue[1] = inflight[1])
  BY DEF QueueInv, FlightInv
<1>3. inflight[1] \in Batch
  BY <1>1, <1>2, ElementOfSeq
<1>4. Held # <<>> /\ Held[1] = inflight[1]
  <2>1. CASE disc = "stdout"
    <3>1. /\ Len(inflight \o queue) = Len(inflight) + Len(queue)
          /\ \A i \in 1 .. Len(inflight) : (inflight \o queue)[i] = inflight[i]
      BY <1>1, ConcatShape
    <3> QED BY <1>1, <1>2, <2>1, <3>1 DEF Held
  <2>2. CASE disc # "stdout"
    BY <1>2, <2>2 DEF Held
  <2> QED BY <2>1, <2>2
<1>5. seen <= Held[1].id /\ Held[1].id <= made
  <2>1. 1 \in 1 .. Len(Held)
    BY <1>1, <1>4
  <2> QED BY <2>1 DEF QueueInv, Ordered
<1>6. made \in Nat /\ inflight[1].id \in Nat
  BY <1>3 DEF QueueInv, TypeOK, Batch
<1> QED
  BY <1>1, <1>2, <1>3, <1>4, <1>5, <1>6

\* A successful post is a good step, and a Deliver.
LEMMA PostOKStep ==
  ASSUME QueueInv, PostOK
  PROVE  StepOK
<1> DEFINE b == inflight[1]
<1>1. /\ flusher = "posting" /\ flusher' = "looping" /\ inflight' = <<>>
      /\ written' = written + 1 /\ backoff' = 0
      /\ delivered' = Append(delivered, b) /\ seen' = b.id
      /\ UNCHANGED <<disc, cur, errors, final, closer, events, made, shed>>
  BY DEF PostOK
<1>2. PICK r \in 0 .. 1 : refused' = refused + r /\ dropped' = dropped + r
  BY DEF PostOK
<1>3. /\ inflight \in Seq(Batch) /\ b \in Batch /\ Len(inflight) = 1
      /\ Held # <<>> /\ Held[1] = b
      /\ b.id \in 0 .. made /\ seen <= b.id
      /\ disc # "stdout" => queue # <<>> /\ queue[1] = b
  BY <1>1, Posting
<1>4. /\ Held \in Seq(Batch) /\ Len(Held) \in Nat /\ queue \in Seq(Batch)
  BY HeldType
<1>5. queue' = IF disc = "stdout" THEN queue ELSE Tail(queue)
  BY <1>3 DEF PostOK, QueueInv, TypeOK
<1>6. Held' = Tail(Held)
  <2>1. CASE disc = "stdout"
    <3>1. Held' = queue
      BY <1>1, <1>4, <1>5, <2>1 DEF Held
    <3>2. Tail(inflight \o queue) = queue
      BY <1>3, <1>4, TailConcat
    <3> QED BY <2>1, <3>1, <3>2 DEF Held
  <2>2. CASE disc # "stdout"
    BY <1>1, <1>5, <2>2 DEF Held
  <2> QED BY <2>1, <2>2
<1>7. /\ made \in Nat /\ written \in Nat /\ dropped \in Nat /\ refused \in Nat
      /\ delivered \in Seq(Batch) /\ seen \in 0 .. made
  BY DEF QueueInv, TypeOK
<1>8. Conservation'
  <2>1. Len(Held') = Len(Held) - 1
    BY <1>3, <1>4, <1>6, TailShape
  <2>2. written + dropped + Len(Held) = made + refused
    BY DEF QueueInv, Conservation
  <2>3. (written + 1) + (dropped + r) + (Len(Held) - 1) = made + (refused + r)
    BY <1>2, <1>4, <1>7, <2>2
  <2> QED BY <1>1, <1>2, <2>1, <2>3 DEF Conservation
<1>9. Ordered(Held, seen, made)'
  <2>1. Ordered(Tail(Held), Held[1].id, made)
    <3>1. seen \in Nat /\ Ordered(Held, seen, made)
      BY SeenType DEF QueueInv
    <3> QED BY <1>3, <1>4, <1>7, <3>1, OrderedTail
  <2> QED BY <1>1, <1>3, <1>6, <2>1 DEF Ordered
<1>10. queue' \in Seq(Batch) /\ delivered' \in Seq(Batch) /\ inflight' \in Seq(Batch)
       /\ Len(inflight') <= 1 /\ backoff' \in 0 .. BackoffCap
       /\ written' \in Nat /\ dropped' \in Nat /\ refused' \in Nat
       /\ seen' \in 0 .. made
  <2>1. queue' \in Seq(Batch) /\ delivered' \in Seq(Batch)
    BY <1>1, <1>3, <1>4, <1>5, <1>7
  <2>2. inflight' \in Seq(Batch) /\ Len(inflight') <= 1
    BY <1>1
  <2>3. /\ backoff' \in 0 .. BackoffCap /\ written' \in Nat /\ dropped' \in Nat
        /\ refused' \in Nat /\ seen' \in 0 .. made
    BY <1>1, <1>2, <1>3, <1>7, SinkAssumption
  <2> QED BY <2>1, <2>2, <2>3
<1>11. TypeOK'
  BY <1>1, <1>10 DEF QueueInv, TypeOK
<1>12. FlightInv'
  BY <1>1 DEF FlightInv
<1>13. Promise!Deliver
  <2>1. Head(Held) = b
    BY <1>3, <1>4, TailShape
  <2> QED BY <1>1, <1>3, <1>6, <2>1 DEF Promise!Deliver
<1>14. seen' >= seen
  BY <1>1, <1>3, <1>7
<1> QED
  BY <1>1, <1>8, <1>9, <1>11, <1>12, <1>13, <1>14
     DEF StepOK, QueueInv, BudgetStep, Promise!PromiseNext

\* fail keeps its counters within their types.
LEMMA FailStep ==
  ASSUME QueueInv, Fail, errors < MaxErrors
  PROVE  /\ errors' \in 0 .. MaxErrors /\ backoff' \in 0 .. BackoffCap
         /\ flusher' \in {"waiting", "done"}
<1>1. /\ errors \in 0 .. MaxErrors /\ backoff \in 0 .. BackoffCap
     
      /\ MaxErrors \in Nat /\ BackoffCap \in Nat
      /\ BackoffFirst \in Nat /\ BackoffFirst <= BackoffCap
  BY SinkAssumption DEF QueueInv, TypeOK
<1>2. errors' \in 0 .. MaxErrors
  BY <1>1 DEF Fail
<1>3. backoff' \in 0 .. BackoffCap
  BY <1>1 DEF Fail, NextBackoff
<1>4. flusher' \in {"waiting", "done"}
  BY DEF Fail, Return
<1> QED
  BY <1>2, <1>3, <1>4

\* A failed post is a good step, whether or not the destination applied it.
LEMMA PostFailedStep ==
  ASSUME QueueInv, PostFailed
  PROVE  StepOK
<1> DEFINE b == inflight[1]
<1>1. /\ flusher = "posting" /\ errors < MaxErrors /\ inflight' = <<>>
      /\ seen' \in {seen, b.id}
      /\ UNCHANGED <<disc, cur, queued, written, dropped, final, closer, events,
                     made, refused, delivered, shed>>
  BY DEF PostFailed
<1>2. /\ inflight \in Seq(Batch) /\ b \in Batch /\ Len(inflight) = 1
      /\ Held # <<>> /\ Held[1] = b
      /\ b.id \in 0 .. made /\ seen <= b.id
  BY <1>1, Posting
<1>3. /\ Held \in Seq(Batch) /\ Len(Held) \in Nat /\ queue \in Seq(Batch)
  BY HeldType
<1>4. queue' = IF disc = "stdout" THEN inflight \o queue ELSE queue
  BY DEF PostFailed
<1>5. Held' = Held
  BY <1>1, <1>2, <1>3, <1>4 DEF Held
<1>6. /\ errors' \in 0 .. MaxErrors /\ backoff' \in 0 .. BackoffCap
     
      /\ \/ flusher' = "failing" /\ errors' = errors
         \/ flusher' \in {"waiting", "done"}
  <2>1. CASE Fail
    BY <1>1, <2>1, FailStep
  <2>2. CASE flusher' = "failing" /\ UNCHANGED <<errors, backoff>>
    BY <2>2 DEF QueueInv, TypeOK
  <2> QED BY <2>1, <2>2 DEF PostFailed
<1>7. made \in Nat /\ seen \in Nat /\ b.id \in Nat /\ seen' \in 0 .. made
      /\ seen' >= seen /\ seen' <= b.id
  <2>1. made \in Nat /\ seen \in 0 .. made
    BY DEF QueueInv, TypeOK
  <2> QED BY <1>1, <1>2, <2>1
<1>8. Conservation'
  BY <1>1, <1>5 DEF QueueInv, Conservation
<1>9. Ordered(Held, seen, made)'
  <2>1. /\ \A i, j \in 1 .. Len(Held) : i < j => Held[i].id < Held[j].id
        /\ \A i \in 1 .. Len(Held) : seen <= Held[i].id /\ Held[i].id <= made
    BY DEF QueueInv, Ordered
  <2>2. ASSUME NEW i \in 1 .. Len(Held) PROVE seen' <= Held[i].id
    <3>1. Held[i].id \in Nat /\ 1 \in 1 .. Len(Held)
      BY <1>3, BatchIds
    <3>2. CASE i = 1
      BY <1>2, <1>7, <3>2
    <3>3. CASE i > 1
      BY <1>2, <1>7, <2>1, <3>1, <3>3
    <3> QED BY <3>2, <3>3
  <2> QED BY <1>1, <1>5, <2>1, <2>2 DEF Ordered
<1>10. queue' \in Seq(Batch) /\ inflight' \in Seq(Batch) /\ Len(inflight') <= 1
  BY <1>1, <1>2, <1>3, <1>4
<1>11. TypeOK'
  BY <1>1, <1>6, <1>7, <1>10 DEF QueueInv, TypeOK
<1>12. FlightInv'
  BY <1>1, <1>6 DEF FlightInv
<1>13. UNCHANGED Promise!promiseVars
  BY <1>1, <1>5 DEF Promise!promiseVars
<1> QED
  BY <1>1, <1>7, <1>8, <1>9, <1>11, <1>12, <1>13
     DEF StepOK, QueueInv, BudgetStep

\* batchQueue.fail is a good step.
LEMMA CountFailureStep ==
  ASSUME QueueInv, CountFailure
  PROVE  StepOK
<1>1. /\ flusher = "failing" /\ Fail
      /\ UNCHANGED <<disc, cur, queue, queued, inflight, written, dropped, final,
                     closer, events, made, refused, delivered, shed, seen>>
  BY DEF CountFailure
<1>2. inflight = <<>> /\ errors < MaxErrors
  BY <1>1 DEF QueueInv, FlightInv
<1>3. /\ errors' \in 0 .. MaxErrors /\ backoff' \in 0 .. BackoffCap
      /\ flusher' \in {"waiting", "done"}
  BY <1>1, <1>2, FailStep
<1>4. UNCHANGED <<Held, made, written, dropped, refused, seen, delivered, shed>>
  BY <1>1 DEF Held
<1>5. /\ Conservation' /\ Ordered(Held, seen, made)'
      /\ UNCHANGED Promise!promiseVars
  BY <1>4, HeldUnchanged
<1>6. TypeOK'
  BY <1>1, <1>3 DEF QueueInv, TypeOK
<1>7. FlightInv'
  BY <1>1, <1>2, <1>3 DEF FlightInv
<1>8. seen' >= seen
  BY <1>4, SeenType
<1> QED
  BY <1>4, <1>5, <1>6, <1>7, <1>8 DEF StepOK, QueueInv, BudgetStep

\* Every step from a state of the invariant is a good step.
LEMMA QueueStep ==
  ASSUME QueueInv, [Next]_vars
  PROVE  StepOK
<1>1. CASE \E n \in Sizes : Write(n)
  BY <1>1, WriteStep
<1>2. CASE \E n \in Sizes : Push(n)
  BY <1>2, PushStep
<1>3. CASE Close \/ CloseReturns \/ Idle
  BY <1>3, IdleStep
<1>4. CASE Tick
  <2>1. /\ Rotate /\ flusher = "waiting" /\ flusher' = "looping"
        /\ final' \in BOOLEAN
        /\ UNCHANGED <<disc, inflight, backoff, written, errors, closer, events,
                       refused, delivered, seen>>
    BY <1>4 DEF Tick, QueueInv, TypeOK
  <2> QED BY <2>1, RotateStep
<1>5. CASE Stop
  <2>1. /\ Rotate /\ flusher = "waiting" /\ flusher' = "looping"
        /\ final' \in BOOLEAN
        /\ UNCHANGED <<disc, inflight, backoff, written, errors, closer, events,
                       refused, delivered, seen>>
    BY <1>5 DEF Stop
  <2> QED BY <2>1, RotateStep
<1>6. CASE StartPost
  BY <1>6, StartPostStep
<1>7. CASE PostOK
  BY <1>7, PostOKStep
<1>8. CASE PostFailed
  BY <1>8, PostFailedStep
<1>9. CASE CountFailure
  BY <1>9, CountFailureStep
<1>10. CASE UNCHANGED vars
  <2>1. UNCHANGED <<Held, made, written, dropped, refused, seen, delivered, shed>>
    BY <1>10 DEF vars, Held
  <2>2. /\ Conservation' /\ Ordered(Held, seen, made)'
        /\ UNCHANGED Promise!promiseVars
    BY <2>1, HeldUnchanged
  <2>3. TypeOK' /\ FlightInv'
    BY <1>10 DEF vars, QueueInv, TypeOK, FlightInv
  <2>4. seen' >= seen
    BY <2>1, SeenType
  <2> QED BY <2>1, <2>2, <2>3, <2>4 DEF StepOK, QueueInv, BudgetStep
<1> QED
  BY <1>1, <1>2, <1>3, <1>4, <1>5, <1>6, <1>7, <1>8, <1>9, <1>10 DEF Next
-----------------------------------------------------------------------------
\* The initial states satisfy the invariant and the promise's Init.
LEMMA QueueInit ==
  ASSUME Init
  PROVE  QueueInv /\ Promise!PromiseInit
<1>1. TypeOK
  <2>1. /\ inflight \in Seq(Batch) /\ Len(inflight) <= 1 /\ queue \in Seq(Batch)
        /\ delivered \in Seq(Batch)
    BY DEF Init
  <2>2. /\ backoff \in 0 .. BackoffCap /\ errors \in 0 .. MaxErrors
        /\ events \in 0 .. MaxEvents /\ seen \in 0 .. made
    BY SinkAssumption DEF Init
  <2> QED BY <2>1, <2>2 DEF Init, TypeOK
<1>2. Held = <<>>
  BY DEF Init, Held
<1>3. FlightInv
  BY DEF Init, FlightInv
<1>4. Conservation
  BY <1>2 DEF Init, Conservation
<1>5. Ordered(Held, seen, made)
  BY <1>2 DEF Ordered
<1> QED
  BY <1>1, <1>2, <1>3, <1>4, <1>5 DEF QueueInv, Init, Promise!PromiseInit

\* The inductive invariant holds in every reachable state.
THEOREM QueueInvariance == Spec => []QueueInv
<1>1. Init => QueueInv
  BY QueueInit
<1>2. QueueInv /\ [Next]_vars => QueueInv'
  BY QueueStep DEF StepOK
<1> QED
  BY <1>1, <1>2, PTL DEF Spec

-----------------------------------------------------------------------------
(* The byte count is the truth.                                            *)

\* The size of each batch, as a function.
SizeOf == [b \in Batch |-> b.size]

\* What the sink holds before its queue: on stdout the batch being written.
InHand == IF disc = "stdout" THEN inflight ELSE <<>>

\* The bytes of a sequence of batches are a sum of what SizeOf makes of it.
LEMMA BytesMapped ==
  ASSUME NEW w \in Seq(Batch)
  PROVE  Bytes(w) = Total(Mapped(SizeOf, w))
<1>1. DOMAIN w = 1 .. Len(w) /\ \A i \in 1 .. Len(w) : w[i] \in Batch
  BY LenProperties, ElementOfSeq
<1>2. \A i \in 1 .. Len(w) : SizeOf[w[i]] = w[i].size
  BY <1>1 DEF SizeOf
<1>3. [i \in DOMAIN w |-> w[i].size] = Mapped(SizeOf, w)
  BY <1>1, <1>2 DEF Mapped
<1> QED
  BY <1>3 DEF Bytes

LEMMA SizeType == SizeOf \in [Batch -> Nat]
BY DEF SizeOf, Batch

\* The bytes of a concatenation, of nothing and of one batch.
LEMMA BytesConcat ==
  ASSUME NEW a \in Seq(Batch), NEW b \in Seq(Batch)
  PROVE  /\ Bytes(a) \in Nat /\ Bytes(b) \in Nat
         /\ Bytes(a \o b) = Bytes(a) + Bytes(b)
<1>1. a \o b \in Seq(Batch)
  BY ConcatShape
<1>2. /\ Bytes(a) = Total(Mapped(SizeOf, a)) /\ Bytes(b) = Total(Mapped(SizeOf, b))
      /\ Bytes(a \o b) = Total(Mapped(SizeOf, a \o b))
  BY <1>1, BytesMapped
<1>3. /\ Total(Mapped(SizeOf, a)) \in Nat /\ Total(Mapped(SizeOf, b)) \in Nat
      /\ Total(Mapped(SizeOf, a \o b))
           = Total(Mapped(SizeOf, a)) + Total(Mapped(SizeOf, b))
  BY SizeType, MappedConcat
<1> QED
  BY <1>2, <1>3

LEMMA BytesOne ==
  ASSUME NEW b \in Batch
  PROVE  Bytes(<<>>) = 0 /\ Bytes(<<b>>) = b.size /\ b.size \in Nat
<1>1. Total(Mapped(SizeOf, <<>>)) = 0 /\ Total(Mapped(SizeOf, <<b>>)) = SizeOf[b]
  BY SizeType, MappedOne
<1>2. <<>> \in Seq(Batch) /\ <<b>> \in Seq(Batch)
  OBVIOUS
<1>3. Bytes(<<>>) = Total(Mapped(SizeOf, <<>>))
  BY <1>2, BytesMapped
<1>4. Bytes(<<b>>) = Total(Mapped(SizeOf, <<b>>))
  BY <1>2, BytesMapped
<1>5. SizeOf[b] = b.size /\ b.size \in Nat
  BY DEF SizeOf, Batch
<1> QED
  BY <1>1, <1>3, <1>4, <1>5

\* Evicting k batches behind the first h takes their bytes off.
LEMMA BytesCut ==
  ASSUME NEW w \in Seq(Batch), NEW h \in Nat, NEW k \in Nat, h + k <= Len(w)
  PROVE  /\ Bytes(SubSeq(w, h + 1, h + k)) \in Nat
         /\ Bytes(Without(w, h, k)) = Bytes(w) - Bytes(SubSeq(w, h + 1, h + k))
<1> DEFINE m == SubSeq(w, h + 1, h + k)
           v == Without(w, h, k)
<1>1. m \in Seq(Batch)
  BY CutShape
<1>2. v \in Seq(Batch)
  BY WithoutShape
<1>3. /\ Total(Mapped(SizeOf, m)) \in Nat
      /\ Total(Mapped(SizeOf, v))
           = Total(Mapped(SizeOf, w)) - Total(Mapped(SizeOf, m))
  BY SizeType, MappedCut
<1> HIDE DEF m, v
<1>4. /\ Bytes(m) = Total(Mapped(SizeOf, m)) /\ Bytes(v) = Total(Mapped(SizeOf, v))
      /\ Bytes(w) = Total(Mapped(SizeOf, w))
  BY <1>1, <1>2, BytesMapped
<1> QED
  BY <1>3, <1>4 DEF m, v

\* The bytes of what precedes the queue and of the queue.
LEMMA BytesFront ==
  ASSUME NEW front \in Seq(Batch), NEW q \in Seq(Batch)
  PROVE  /\ <<>> \o q = q
         /\ Bytes(front \o q) = Bytes(front) + Bytes(q)
         /\ Bytes(front) \in Nat /\ Bytes(q) \in Nat
<1>1. <<>> \o q = q
  OBVIOUS
<1> QED
  BY <1>1, BytesConcat

\* The bytes the sink would hold were q its queue.
LEMMA BytesHeld ==
  ASSUME QueueInv, NEW q \in Seq(Batch)
  PROVE  /\ Bytes(HeldOf(q)) = Bytes(InHand) + Bytes(q)
         /\ Bytes(InHand) \in Nat /\ Bytes(q) \in Nat
<1>1. <<>> \in Seq(Batch) /\ inflight \in Seq(Batch)
  <2>1. <<>> \in Seq(Batch)
    OBVIOUS
  <2> QED BY <2>1, HeldType
<1>2. InHand \in Seq(Batch)
  BY <1>1 DEF InHand
<1>3. HeldOf(q) = InHand \o q
  <2>1. <<>> \o q = q
    BY <1>1, BytesFront
  <2> QED BY <2>1 DEF HeldOf, InHand
<1> QED
  BY <1>2, <1>3, BytesFront

\* Eviction keeps the count exact.
LEMMA EvictBytes ==
  ASSUME QueueInv, NEW q \in Seq(Batch), NEW total, EvictInto(q, total),
         total = Bytes(HeldOf(q)), UNCHANGED <<disc, inflight>>,
         inflight # <<>> /\ disc # "stdout" =>
           disc = "shared" /\ q # <<>> /\ q[1] = inflight[1]
  PROVE  BytesExact'
<1> DEFINE p == Protected(q)
           rest(k) == total - Bytes(SubSeq(q, p + 1, p + k))
<1>1. PICK k \in 0 .. Len(q) :
        /\ k = 0 \/ k <= Evictable(q)
        /\ queue' = SubSeq(q, 1, p) \o SubSeq(q, p + k + 1, Len(q))
        /\ queued' = rest(k)
  BY DEF EvictInto
<1>2. Len(q) \in Nat /\ (q # <<>> => Len(q) > 0)
  BY LenProperties
<1>3. p \in 0 .. 1 /\ p <= Len(q)
  <2>1. inflight # <<>> /\ disc # "stdout" => q # <<>>
    OBVIOUS
  <2> QED BY <1>2, <2>1 DEF Protected
<1>4. p \in Nat /\ k \in Nat /\ p + k <= Len(q)
  <2>1. k = 0 \/ k <= Len(q) - 1 - p
    BY <1>1 DEF Evictable
  <2> HIDE DEF p
  <2> QED BY <1>1, <1>2, <1>3, <2>1
<1>5. queue' = Without(q, p, k)
  BY <1>1 DEF Without
<1>6. queued' = total - Bytes(SubSeq(q, p + 1, p + k))
  BY <1>1
<1> HIDE DEF p
<1>7. /\ Bytes(SubSeq(q, p + 1, p + k)) \in Nat
      /\ Bytes(Without(q, p, k)) = Bytes(q) - Bytes(SubSeq(q, p + 1, p + k))
  BY <1>4, BytesCut
<1>8. queue' \in Seq(Batch)
  BY <1>4, <1>5, WithoutShape
<1>9. Held' = HeldOf(queue')
  BY DEF Held, HeldOf
<1>10. /\ Bytes(HeldOf(q)) = Bytes(InHand) + Bytes(q)
       /\ Bytes(HeldOf(queue')) = Bytes(InHand) + Bytes(queue')
       /\ Bytes(InHand) \in Nat /\ Bytes(q) \in Nat
  BY <1>8, BytesHeld
<1> QED
  BY <1>5, <1>6, <1>7, <1>9, <1>10 DEF BytesExact

\* Closing a batch of n bytes adds its bytes, evicting takes them off.
LEMMA PushBytes ==
  ASSUME QueueInv, BytesExact, NEW n \in Nat, UNCHANGED <<disc, inflight>>,
         \/ PushOnly(n)
         \/ /\ PushAndEvict(n)
            /\ inflight # <<>> /\ disc # "stdout" => disc = "shared"
  PROVE  BytesExact'
<1> DEFINE b == [id |-> made + 1, size |-> n]
           q == Append(queue, b)
<1>1. b \in Batch /\ b.size = n
  <2>1. made \in Nat
    BY DEF QueueInv, TypeOK
  <2>2. made + 1 \in Nat
    BY <2>1
  <2> QED BY <2>2 DEF Batch
<1>2. Held \in Seq(Batch) /\ queue \in Seq(Batch) /\ inflight \in Seq(Batch)
  BY HeldType
<1> HIDE DEF b
<1>3. /\ q \in Seq(Batch) /\ Len(q) = Len(queue) + 1
      /\ \A i \in 1 .. Len(queue) : q[i] = queue[i]
  BY <1>1, <1>2, AppendShape
<1>4. HeldOf(q) = Append(Held, b)
  BY <1>1, HeldAppend
<1>5. Bytes(Append(Held, b)) = Bytes(Held) + n
  <2>1. <<b>> \in Seq(Batch) /\ Append(Held, b) = Held \o <<b>>
    BY <1>1, <1>2
  <2>2. Bytes(<<b>>) = n
    BY <1>1, BytesOne
  <2> QED BY <1>2, <2>1, <2>2, BytesConcat
<1>6. queued + n = Bytes(HeldOf(q))
  BY <1>4, <1>5 DEF BytesExact
<1>7. CASE PushOnly(n)
  <2>1. queue' = q /\ queued' = queued + n
    BY <1>7 DEF PushOnly, b
  <2>2. Held' = HeldOf(q)
    BY <2>1 DEF Held, HeldOf
  <2> QED BY <1>6, <2>1, <2>2 DEF BytesExact
<1>8. CASE /\ PushAndEvict(n)
           /\ inflight # <<>> /\ disc # "stdout" => disc = "shared"
  <2>1. EvictInto(q, queued + n)
    BY <1>8 DEF PushAndEvict, b
  <2>2. inflight # <<>> /\ disc # "stdout" =>
          disc = "shared" /\ q # <<>> /\ q[1] = inflight[1]
    <3>1. inflight # <<>> /\ disc # "stdout" =>
            queue # <<>> /\ queue[1] = inflight[1]
      BY DEF QueueInv, FlightInv
    <3>2. queue # <<>> => q # <<>> /\ q[1] = queue[1]
      BY <1>2, <1>3
    <3> QED BY <1>8, <3>1, <3>2
  <2> HIDE DEF q
  <2> QED BY <1>3, <1>6, <2>1, <2>2, EvictBytes
<1> QED
  BY <1>7, <1>8

\* rotate keeps the count exact.
LEMMA RotateBytes ==
  ASSUME QueueInv, BytesExact, Rotate, inflight = <<>>, UNCHANGED <<disc, inflight>>
  PROVE  BytesExact'
<1>1. cur \in Nat /\ queue \in Seq(Batch)
  BY DEF QueueInv, TypeOK
<1>2. CASE PushAndEvict(cur)
  BY <1>1, <1>2, PushBytes
<1>3. CASE EvictInto(queue, queued)
  <2>1. queued = Bytes(HeldOf(queue))
    BY DEF BytesExact, Held, HeldOf
  <2> QED BY <1>1, <1>3, <2>1, EvictBytes
<1>4. CASE UNCHANGED <<queue, queued>>
  BY <1>4 DEF BytesExact, Held
<1> QED
  BY <1>2, <1>3, <1>4 DEF Rotate

\* A delivered batch takes its own bytes off, and no other's.
LEMMA DeliverBytes ==
  ASSUME QueueInv, BytesExact, PostOK
  PROVE  BytesExact'
<1> DEFINE b == inflight[1]
<1>1. flusher = "posting" /\ inflight' = <<>> /\ disc' = disc
  BY DEF PostOK
<1>2. /\ inflight \in Seq(Batch) /\ b \in Batch /\ Len(inflight) = 1
      /\ disc # "stdout" => queue # <<>> /\ queue[1] = b
  BY <1>1, Posting
<1>3. queue \in Seq(Batch)
  BY HeldType
<1>4. queued' = queued - b.size
  BY <1>2 DEF PostOK, QueueInv, TypeOK
<1>5. queue' = IF disc = "stdout" THEN queue ELSE Tail(queue)
  BY <1>2 DEF PostOK, QueueInv, TypeOK
<1>6. Bytes(<<b>>) = b.size /\ b.size \in Nat
  BY <1>2, BytesOne
<1>7. Bytes(Held) = b.size + Bytes(Held') /\ Bytes(Held') \in Nat
  <2>1. <<b>> \in Seq(Batch)
    BY <1>2
  <2>2. CASE disc = "stdout"
    <3>1. inflight = <<b>>
      BY <1>2
    <3>2. Held = <<b>> \o queue /\ Held' = queue
      <4>1. <<>> \o queue = queue
        BY <1>3
      <4> QED BY <1>1, <1>5, <2>2, <3>1, <4>1 DEF Held
    <3> HIDE DEF b
    <3> QED BY <1>3, <1>6, <2>1, <3>2, BytesConcat
  <2>3. CASE disc # "stdout"
    <3>1. Held = queue /\ Held' = Tail(queue)
      BY <1>1, <1>5, <2>3 DEF Held
    <3>2. queue = <<b>> \o Tail(queue) /\ Tail(queue) \in Seq(Batch)
      BY <1>2, <1>3, <2>3
    <3> HIDE DEF b
    <3>3. /\ Bytes(Tail(queue)) \in Nat
          /\ Bytes(<<b>> \o Tail(queue)) = Bytes(<<b>>) + Bytes(Tail(queue))
      BY <2>1, <3>2, BytesConcat
    <3> QED BY <1>6, <3>1, <3>2, <3>3
  <2> QED BY <2>2, <2>3
<1> QED
  BY <1>4, <1>6, <1>7 DEF BytesExact

\* Every step keeps the count exact.
LEMMA BytesStep ==
  ASSUME QueueInv, BytesExact, [Next]_vars
  PROVE  BytesExact'
<1>1. ASSUME NEW n \in Sizes, Write(n) PROVE BytesExact'
  <2>1. n \in Nat /\ cur + n \in Nat
    <3>1. n \in Nat
      BY SinkAssumption
    <3>2. cur \in Nat
      BY DEF QueueInv, TypeOK
    <3> QED BY <3>1, <3>2
  <2>2. UNCHANGED <<disc, inflight>>
    BY <1>1 DEF Write
  <2>3. \/ disc = "elastic" /\ PushOnly(cur + n)
        \/ disc = "stdout" /\ PushAndEvict(cur + n)
        \/ UNCHANGED <<queue, queued>>
    BY <1>1 DEF Write
  <2>4. CASE UNCHANGED <<queue, queued>>
    BY <2>2, <2>4 DEF BytesExact, Held
  <2> QED BY <2>1, <2>2, <2>3, <2>4, PushBytes
<1>2. ASSUME NEW n \in Sizes, Push(n) PROVE BytesExact'
  <2>1. n \in Nat
    BY SinkAssumption
  <2>2. UNCHANGED <<disc, inflight>> /\ disc = "shared" /\ PushAndEvict(n)
    BY <1>2 DEF Push
  <2> QED BY <2>1, <2>2, PushBytes
<1>3. CASE Tick \/ Stop
  <2>1. /\ flusher = "waiting" /\ Rotate /\ UNCHANGED <<disc, inflight>>
    BY <1>3 DEF Tick, Stop
  <2>2. inflight = <<>>
    BY <2>1 DEF QueueInv, FlightInv
  <2> QED BY <2>1, <2>2, RotateBytes
<1>4. CASE StartPost
  <2>1. /\ flusher = "looping" /\ queue # <<>> /\ inflight' = <<Head(queue)>>
        /\ queue' = IF disc = "stdout" THEN Tail(queue) ELSE queue
        /\ UNCHANGED <<disc, queued>>
    BY <1>4 DEF StartPost
  <2>2. inflight = <<>> /\ queue \in Seq(Batch)
    BY <2>1, HeldType DEF QueueInv, FlightInv
  <2>3. <<Head(queue)>> \o Tail(queue) = queue /\ <<>> \o queue = queue
    BY <2>1, <2>2
  <2>4. Held' = Held
    BY <2>1, <2>2, <2>3 DEF Held
  <2> QED BY <2>1, <2>4 DEF BytesExact
<1>5. CASE PostOK
  BY <1>5, DeliverBytes
<1>6. CASE PostFailed
  <2>1. /\ flusher = "posting" /\ inflight' = <<>>
        /\ queue' = IF disc = "stdout" THEN inflight \o queue ELSE queue
        /\ UNCHANGED <<disc, queued>>
    BY <1>6 DEF PostFailed
  <2>2. queue \in Seq(Batch) /\ inflight \in Seq(Batch)
    BY HeldType
  <2>3. inflight \o queue \in Seq(Batch)
    BY <2>2, ConcatShape
  <2>4. <<>> \o (inflight \o queue) = inflight \o queue
    BY <2>3, BytesFront
  <2>5. Held' = Held
    BY <2>1, <2>4 DEF Held
  <2> QED BY <2>1, <2>5 DEF BytesExact
<1>7. CASE Close \/ CloseReturns \/ Idle \/ CountFailure \/ UNCHANGED vars
  <2>1. UNCHANGED <<disc, inflight, queue, queued>>
    BY <1>7 DEF Close, CloseReturns, Idle, CountFailure, vars
  <2> QED BY <2>1 DEF BytesExact, Held
<1> QED
  BY <1>1, <1>2, <1>3, <1>4, <1>5, <1>6, <1>7 DEF Next

\* The byte count the budget is checked against is the bytes of what the sink
\* holds, the batch in flight included, whatever was written, evicted,
\* posted or put back (queue.go, elasticsearch.go and stdout.go: a count that
\* drifts "stops bounding anything").
THEOREM SinkBytes == Spec => []BytesExact
<1>1. Init => BytesExact
  <2>1. <<>> \o <<>> = <<>> /\ [id |-> 0, size |-> 0] \in Batch
    BY DEF Batch
  <2>2. Bytes(<<>>) = 0
    BY <2>1, BytesOne
  <2> QED BY <2>1, <2>2 DEF Init, Held, BytesExact
<1>2. QueueInv /\ BytesExact /\ [Next]_vars => BytesExact'
  BY BytesStep
<1> QED
  BY <1>1, <1>2, QueueInvariance, PTL DEF Spec

\* Type correctness of the queue, for any sizes, budgets and bounds.
THEOREM SinkTypes == Spec => []TypeOK
<1>1. QueueInv => TypeOK
  BY DEF QueueInv
<1> QED
  BY <1>1, QueueInvariance, PTL

\* No batch leaves the queue uncounted: batches written, dropped and still
\* held add up to the batches closed (queue.go: "every eviction is counted").
THEOREM SinkConservation == Spec => []Conservation
<1>1. QueueInv => Conservation
  BY DEF QueueInv
<1> QED
  BY <1>1, QueueInvariance, PTL

\* The batch being posted is the one the success path will remove (queue.go,
\* the comment on inflight).
THEOREM SinkInFlight == Spec => []InFlightIsOldest
<1>1. QueueInv => InFlightIsOldest
  BY Posting DEF InFlightIsOldest
<1> QED
  BY <1>1, QueueInvariance, PTL

\* The destination never sees an older batch after a newer one.
THEOREM SinkInOrder == Spec => InOrder
<1>1. QueueInv /\ [Next]_vars => [seen' >= seen]_vars
  BY QueueStep DEF StepOK
<1> QED
  BY <1>1, QueueInvariance, PTL DEF Spec, InOrder

\* Whoever queues a batch leaves the sink within its byte budget or with
\* nothing left that eviction may touch.
THEOREM SinkBudget == Spec => BudgetEnforced
<1>1. QueueInv /\ [Next]_vars
        => [made' # made /\ (disc = "elastic" => flusher' # flusher)
              => queued' <= MaxQ \/ Len(Held') <= 1 + Len(inflight)]_vars
  BY QueueStep DEF StepOK, BudgetStep
<1> QED
  BY <1>1, QueueInvariance, PTL DEF Spec, BudgetEnforced

\* The queue, in each of its four disciplines, implements SinkPromise: every
\* step is an Accept, a Trim, a Deliver or a stutter of what it holds.
THEOREM SinkImplementsPromise == Spec => ImplementsPromise
<1>1. Init => Promise!PromiseInit
  BY QueueInit
<1>2. QueueInv /\ [Next]_vars => [Promise!PromiseNext]_Promise!promiseVars
  BY QueueStep DEF StepOK
<1> QED
  BY <1>1, <1>2, QueueInvariance, PTL
     DEF Spec, ImplementsPromise, Promise!PromiseSpec
=============================================================================
