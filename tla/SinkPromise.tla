----------------------------- MODULE SinkPromise -----------------------------
(***************************************************************************)
(* What every queued sink promises the collector, whatever its locking:    *)
(* batches are delivered in the order they were closed, each at most once; *)
(* a batch is shed only from the old end of the queue (the head, or the    *)
(* run right behind a head that is being posted), and the newest batch is  *)
(* never shed; nothing else ever leaves the queue.                         *)
(***************************************************************************)
EXTENDS Naturals, Sequences

VARIABLES
  made,       \* how many batches were closed so far; the last one's id
  waiting,    \* the batches not yet delivered nor shed, oldest first
  delivered,  \* the batches the destination acknowledged, in order
  shed        \* the batches evicted by the byte budget

promiseVars == <<made, waiting, delivered, shed>>

PromiseInit ==
  /\ made = 0
  /\ waiting = <<>>
  /\ delivered = <<>>
  /\ shed = {}

\* w without the k batches behind its first h.
Without(w, h, k) == SubSeq(w, 1, h) \o SubSeq(w, h + k + 1, Len(w))

\* Shedding k batches of w, which leaves at least the newest.
Shed(w, h, k) ==
  /\ waiting' = Without(w, h, k)
  /\ shed' = shed \cup {w[i] : i \in (h + 1) .. (h + k)}

\* A batch of any size is closed and queued; older ones may go to make room.
Accept ==
  /\ waiting' # <<>>
  /\ waiting'[Len(waiting')].id = made + 1
  /\ \E h \in 0 .. 1, k \in 0 .. Len(waiting) :
       /\ h + k <= Len(waiting)
       /\ Shed(Append(waiting, waiting'[Len(waiting')]), h, k)
  /\ made' = made + 1
  /\ UNCHANGED delivered

\* The budget is enforced later than the batch was queued.
Trim ==
  \E h \in 0 .. 1, k \in 1 .. Len(waiting) :
    /\ h + k < Len(waiting)
    /\ Shed(waiting, h, k)
    /\ UNCHANGED <<made, delivered>>

Deliver ==
  /\ waiting # <<>>
  /\ delivered' = Append(delivered, Head(waiting))
  /\ waiting' = Tail(waiting)
  /\ UNCHANGED <<made, shed>>

PromiseNext == Accept \/ Trim \/ Deliver

PromiseSpec == PromiseInit /\ [][PromiseNext]_promiseVars
=============================================================================
