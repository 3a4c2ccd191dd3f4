-------------------------------- MODULE Ring --------------------------------
(***************************************************************************)
(* The agent's ring of the last N samples (internal/agent/ring.go): one    *)
(* circular buffer, every operation under one mutex, so each is one step   *)
(* of the modules that hold a ring (Sampler, Captures, Pipeline).          *)
(* An entry is its sequence number: the encoded line and the per-core      *)
(* ratios travel with it untouched.  Sequence numbers start at 1 and grow  *)
(* by one per Push (sampler.go), and 0 means "nothing".                    *)
(***************************************************************************)
EXTENDS Integers, Sequences

\* A ring as NewRing makes it; len is len(buf), never below one.
NewRing(capacity) ==
  LET n == IF capacity < 1 THEN 1 ELSE capacity
  IN  [buf |-> [i \in 0 .. (n - 1) |-> 0], len |-> n,
       head |-> 0, count |-> 0, last |-> 0]

\* A count that grows past the capacity.
PushTo_Mutant(r, s) ==
  [buf |-> [r.buf EXCEPT ![r.head] = s], len |-> r.len,
   head |-> (r.head + 1) % r.len, count |-> r.count + 1, last |-> s]

\* Push of the sample s: the oldest entry is overwritten when full.
PushTo(r, s) ==
  [buf |-> [r.buf EXCEPT ![r.head] = s], len |-> r.len,
   head |-> (r.head + 1) % r.len,
   count |-> IF r.count < r.len THEN r.count + 1 ELSE r.count,
   last |-> s]

\* Oldest: the oldest sequence number still held.
OldestOf(r) == IF r.count = 0 THEN 0 ELSE r.last - r.count + 1

\* A gap declared only from the second missing sample on.
GapAfter_Mutant(r, after) ==
  r.count # 0 /\ after # 0 /\ after + 2 < OldestOf(r)

\* Since's second result: samples after the cursor are gone.
GapAfter(r, after) ==
  r.count # 0 /\ after # 0 /\ after + 1 < OldestOf(r)

\* A cursor read as the first sample wanted instead of the last one seen.
StartOf_Mutant(r, after) ==
  IF OldestOf(r) > after THEN OldestOf(r) ELSE after

\* Where Since starts to read.
StartOf(r, after) ==
  IF OldestOf(r) > after + 1 THEN OldestOf(r) ELSE after + 1

\* Since's first result: up to limit entries after the cursor (limit <= 0
\* means every one), oldest first.
SinceOf(r, after, limit) ==
  LET start == StartOf(r, after)
      all == r.last - start + 1
      n == IF limit > 0 /\ all > limit THEN limit ELSE all
      first == (r.head - r.count + (start - OldestOf(r)) + r.len) % r.len
  IN  IF r.count = 0 \/ start > r.last THEN <<>>
      ELSE [i \in 1 .. n |-> r.buf[(first + (i - 1)) % r.len]]

\* A tail that is read from one slot too far on.
TailOf_Mutant(r, k) ==
  LET n == IF k < r.count THEN k ELSE r.count
      first == (r.head - n + 1 + r.len) % r.len
  IN  IF n <= 0 THEN <<>>
      ELSE [i \in 1 .. n |-> r.buf[(first + (i - 1)) % r.len]]

\* Tail: the newest k entries, or fewer, oldest first.
TailOf(r, k) ==
  LET n == IF k < r.count THEN k ELSE r.count
      first == (r.head - n + r.len) % r.len
  IN  IF n <= 0 THEN <<>>
      ELSE [i \in 1 .. n |-> r.buf[(first + (i - 1)) % r.len]]
-----------------------------------------------------------------------------
(* What a ring is, and what its readers are owed.                          *)

\* The fields are in range, and walking back from head finds the newest
\* count samples, without a hole.
RingOK(r) ==
  /\ r.len \in Nat \ {0}
  /\ r.buf \in [0 .. (r.len - 1) -> Nat]
  /\ r.head \in 0 .. (r.len - 1)
  /\ r.last \in Nat
  /\ r.count = IF r.last < r.len THEN r.last ELSE r.len
  /\ \A k \in 1 .. r.count :
       r.buf[(r.head - k + r.len) % r.len] = r.last - k + 1

\* The consecutive numbers from lo to hi.
Run(lo, hi) == [i \in 1 .. (hi - lo + 1) |-> lo + i - 1]

\* What a reader is owed for a cursor and a limit: the samples right after
\* the cursor, or from the oldest one held, contiguous, newest included
\* unless the limit cuts it short.
Owed(r, after, limit) ==
  LET lo == IF after < r.last - r.len THEN r.last - r.len + 1 ELSE after + 1
      hi == IF limit > 0 /\ r.last - lo + 1 > limit THEN lo + limit - 1
            ELSE r.last
  IN  Run(lo, hi)
=============================================================================
