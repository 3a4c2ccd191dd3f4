------------------------------ MODULE SinkQueue ------------------------------
(***************************************************************************)
(* The bounded queue between the collector's loop and a remote store.      *)
(*                                                                         *)
(* One goroutine (the forwarder) calls Write and, at the end, Close; the   *)
(* sink's own flusher ticks once a second, rotates the current batch into  *)
(* the queue and posts batches with the mutex released.  Four disciplines  *)
(* exist in internal/sinks, and they differ in who may touch the queue     *)
(* while a post is in flight:                                              *)
(*   "own"      batchQueue in influx, loki, graphite, telegraf, postgres,  *)
(*              and the same loop written out in otlp: only the flusher    *)
(*              pushes, the head stays queued while it is posted;          *)
(*   "shared"   batchQueue with push called from another goroutine, the    *)
(*              contract queue.go states and queue_test.go exercises;      *)
(*   "elastic"  Write closes an oversized batch itself and only appends;   *)
(*              the flusher evicts;                                        *)
(*   "stdout"   Write rotates and evicts; the head is taken off the queue  *)
(*              while it is written and put back when the write fails.     *)
(* Bytes are abstract sizes; the text of a batch is not modelled.          *)
(***************************************************************************)
EXTENDS Integers, Sequences, SequencesExt, SeqFolds

CONSTANTS
  Disciplines,   \* the disciplines to start from
  Sizes,         \* how many bytes one rendered event may take
  MaxQ,          \* maxQ: the byte budget
  MaxBatch,      \* maxBatch: where Elasticsearch.Write closes a batch
  BackoffFirst,  \* seconds of the first backoff (2 in the code)
  BackoffCap,    \* its ceiling (60 in the code)
  MaxEvents,     \* bound: events written in a behaviour
  MaxErrors      \* bound: failed attempts in a behaviour

ASSUME SinkAssumption ==
  /\ Disciplines \subseteq {"own", "shared", "elastic", "stdout"}
  /\ Sizes \subseteq Nat \ {0}
  /\ MaxQ \in Nat /\ MaxBatch \in Nat \ {0}
  /\ BackoffFirst \in Nat \ {0} /\ BackoffCap \in Nat
  /\ BackoffFirst <= BackoffCap
  /\ MaxEvents \in Nat /\ MaxErrors \in Nat

VARIABLES
  disc,      \* the sink's discipline, fixed at the start
  cur,       \* bytes rendered since the last rotate
  queue,     \* batches waiting, oldest first
  queued,    \* the code's own count of queued bytes
  inflight,  \* the batch being posted, as a sequence of at most one
  backoff,   \* seconds left before the next attempt
  written, dropped, errors,  \* Stats
  flusher,   \* where the flusher's goroutine is
  final,     \* the flusher took the stop branch of its select
  closer,    \* the caller of Close
  events,    \* events written so far (bounded)
  made,      \* history: batches closed
  refused,   \* history: documents Elasticsearch refused in accepted batches
  delivered, \* history: acknowledged batches
  shed,      \* history: evicted batches
  seen       \* history: newest batch id the destination has applied

stats == <<written, dropped, errors>>
history == <<made, refused, delivered, shed, seen>>
vars == <<disc, cur, queue, queued, inflight, backoff, written, dropped,
          errors, flusher, final, closer, events, made, refused, delivered,
          shed, seen>>

Batch == [id : Nat, size : Nat]

\* The bytes of a sequence of batches.
Bytes(q) == Total([i \in DOMAIN q |-> q[i].size])

\* Everything the sink still holds, oldest first.
Held == IF disc = "stdout" THEN inflight \o queue ELSE queue

Init ==
  /\ disc \in Disciplines
  /\ cur = 0 /\ queue = <<>> /\ queued = 0 /\ inflight = <<>>
  /\ backoff = 0
  /\ written = 0 /\ dropped = 0 /\ errors = 0
  /\ flusher = "waiting" /\ final = FALSE /\ closer = "open"
  /\ events = 0
  /\ made = 0 /\ refused = 0 /\ delivered = <<>> /\ shed = {}
  /\ seen = 0
-----------------------------------------------------------------------------
(* Enqueueing and eviction.                                                *)

\* How many batches at the head of q eviction must leave alone: push steps
\* over the batch in flight; the other disciplines never have one there.
Protected(q) ==
  IF disc \in {"own", "shared"} /\ inflight # <<>> /\ q[1] = inflight[1]
  THEN 1 ELSE 0

\* The newest batch may go as well.
Evictable_Mutant(q) == Len(q) - Protected(q)

\* Eviction stops one batch early.
Evictable_Lax_Mutant(q) == Len(q) - 2 - Protected(q)

\* How many batches of q may go: not the protected head, not the newest.
Evictable(q) == Len(q) - 1 - Protected(q)

\* q, of total bytes, becomes the queue once its oldest evictable batches
\* went, one at a time, until the budget holds or none is left to go.
EvictInto(q, total) ==
  LET p == Protected(q)
      rest(k) == total - Bytes(SubSeq(q, p + 1, p + k))
  IN  \E k \in 0 .. Len(q) :
        /\ k = 0 \/ k <= Evictable(q)
        /\ rest(k) <= MaxQ \/ k >= Evictable(q)
        /\ \A j \in 0 .. (k - 1) : rest(j) > MaxQ
        /\ queue' = SubSeq(q, 1, p) \o SubSeq(q, p + k + 1, Len(q))
        /\ queued' = rest(k)
        /\ dropped' = dropped + k
        /\ shed' = shed \cup {q[i] : i \in (p + 1) .. (p + k)}

\* A batch of n bytes is closed and appended, and the budget enforced.
PushAndEvict(n) ==
  /\ EvictInto(Append(queue, [id |-> made + 1, size |-> n]), queued + n)
  /\ made' = made + 1

\* A batch of n bytes is closed and only appended.
PushOnly(n) ==
  /\ queue' = Append(queue, [id |-> made + 1, size |-> n])
  /\ queued' = queued + n
  /\ made' = made + 1
  /\ UNCHANGED <<dropped, shed>>
-----------------------------------------------------------------------------
(* The forwarder: Write, another goroutine's push, Close.                  *)

\* Write renders one event into the current batch.  The elastic and stdout
\* sinks close the batch right here once it is too big.
Write(n) ==
  /\ closer = "open" /\ events < MaxEvents
  /\ events' = events + 1
  /\ \/ /\ disc = "elastic" /\ cur + n >= MaxBatch
        /\ PushOnly(cur + n) /\ cur' = 0
     \/ /\ disc = "stdout" /\ cur + n >= MaxQ
        /\ PushAndEvict(cur + n) /\ cur' = 0
     \/ /\ ~ (disc = "elastic" /\ cur + n >= MaxBatch)
        /\ ~ (disc = "stdout" /\ cur + n >= MaxQ)
        /\ cur' = cur + n
        /\ UNCHANGED <<queue, queued, dropped, made, shed>>
  /\ UNCHANGED <<disc, inflight, backoff, written, errors, flusher, final,
                 closer, refused, delivered, seen>>

\* push from a goroutine that is not the flusher, at any moment.
Push(n) ==
  /\ disc = "shared" /\ closer = "open" /\ events < MaxEvents
  /\ events' = events + 1
  /\ PushAndEvict(n)
  /\ UNCHANGED <<disc, cur, inflight, backoff, written, errors, flusher,
                 final, closer, refused, delivered, seen>>

\* Close closes the stop channel and waits for the flusher.
Close ==
  /\ closer = "open"
  /\ closer' = "closing"
  /\ UNCHANGED <<disc, cur, queue, queued, inflight, backoff, stats, flusher,
                 final, events, history>>

\* A Close that only waits for the flusher, as on the network sinks.
CloseReturns_Mutant ==
  /\ closer = "closing"
  /\ flusher = "done" /\ closer' = "closed"
  /\ UNCHANGED <<disc, cur, queue, queued, inflight, backoff, stats, flusher,
                 final, events, history>>

\* Close returns: the flusher is done, or, on stdout, three seconds passed.
CloseReturns ==
  /\ closer = "closing"
  /\ \/ /\ flusher = "done" /\ closer' = "closed"
     \/ /\ disc = "stdout" /\ flusher # "done" /\ closer' = "gave up"
  /\ UNCHANGED <<disc, cur, queue, queued, inflight, backoff, stats, flusher,
                 final, events, history>>
-----------------------------------------------------------------------------
(* The flusher.                                                            *)

\* rotate: the current batch joins the queue and the budget is enforced.
\* The elastic sink enforces it even when there is nothing to rotate.
Rotate ==
  \/ /\ cur > 0
     /\ PushAndEvict(cur) /\ cur' = 0
  \/ /\ cur = 0 /\ disc = "elastic"
     /\ EvictInto(queue, queued)
     /\ UNCHANGED <<cur, made>>
  \/ /\ cur = 0 /\ disc # "elastic"
     /\ UNCHANGED <<cur, queue, queued, dropped, made, shed>>

\* The two ready branches of the flusher's select: the tick, and the stop.
Tick ==
  /\ flusher = "waiting"
  /\ Rotate
  /\ flusher' = "looping"
  /\ UNCHANGED <<disc, inflight, backoff, written, errors, final, closer,
                 events, refused, delivered, seen>>

Stop ==
  /\ flusher = "waiting" /\ closer # "open"
  /\ Rotate
  /\ flusher' = "looping" /\ final' = TRUE
  /\ UNCHANGED <<disc, inflight, backoff, written, errors, closer, events,
                 refused, delivered, seen>>

\* Where the flusher goes when its delivery loop returns.
Return == flusher' = IF final THEN "done" ELSE "waiting"

\* A delivery loop that waits out a backoff it never counts down.
Idle_Mutant ==
  /\ flusher = "looping"
  /\ queue = <<>> \/ backoff > 0
  /\ Return
  /\ UNCHANGED <<disc, cur, queue, queued, inflight, backoff, stats, final,
                 closer, events, history>>

\* The decrement without the test that there is a backoff to wait out.
Idle_Unguarded_Mutant ==
  /\ flusher = "looping"
  /\ queue = <<>> \/ backoff > 0
  /\ backoff' = backoff - 1
  /\ Return
  /\ UNCHANGED <<disc, cur, queue, queued, inflight, stats, final, closer,
                 events, history>>

\* The top of the delivery loop: nothing to post, or a second of backoff.
Idle ==
  /\ flusher = "looping"
  /\ queue = <<>> \/ backoff > 0
  /\ backoff' = IF backoff > 0 THEN backoff - 1 ELSE 0
  /\ Return
  /\ UNCHANGED <<disc, cur, queue, queued, inflight, stats, final, closer,
                 events, history>>

\* The top of the delivery loop: the head is picked and the mutex released.
StartPost ==
  /\ flusher = "looping"
  /\ queue # <<>> /\ backoff = 0
  /\ inflight' = <<Head(queue)>>
  /\ queue' = IF disc = "stdout" THEN Tail(queue) ELSE queue
  /\ flusher' = "posting"
  /\ UNCHANGED <<disc, cur, queued, backoff, stats, final, closer, events,
                 history>>

\* A success that never dequeues, so the batch is posted again.
PostOK_Mutant ==
  /\ flusher = "posting"
  /\ inflight' = <<>>
  /\ written' = written + 1
  /\ backoff' = 0
  /\ flusher' = "looping"
  /\ delivered' = Append(delivered, inflight[1])
  /\ seen' = inflight[1].id
  /\ UNCHANGED <<disc, cur, queue, queued, dropped, errors, final, closer,
                 events, made, refused, shed>>

\* The post succeeded: the batch leaves the queue and the loop goes on.
\* Elasticsearch may have refused documents of a batch it accepted.
PostOK ==
  /\ flusher = "posting"
  /\ \/ /\ disc = "stdout"
        /\ UNCHANGED queue
        /\ queued' = queued - inflight[1].size
     \/ /\ disc = "elastic"
        /\ queue' = Tail(queue)
        /\ queued' = queued - inflight[1].size
     \/ /\ disc \in {"own", "shared"}
        /\ IF queue # <<>> /\ queue[1] = inflight[1]
           THEN /\ queue' = Tail(queue)
                /\ queued' = queued - inflight[1].size
           ELSE UNCHANGED <<queue, queued>>
  /\ \E r \in IF disc = "elastic" THEN 0 .. 1 ELSE {0} :
       /\ refused' = refused + r
       /\ dropped' = dropped + r
  /\ inflight' = <<>>
  /\ written' = written + 1
  /\ backoff' = 0
  /\ flusher' = "looping"
  /\ delivered' = Append(delivered, inflight[1])
  /\ seen' = inflight[1].id
  /\ UNCHANGED <<disc, cur, errors, final, closer, events, made, shed>>

\* The next backoff: doubled up to the ceiling, or the first one.
NextBackoff ==
  IF backoff = 0 THEN BackoffFirst
  ELSE IF 2 * backoff <= BackoffCap THEN 2 * backoff ELSE BackoffCap

\* fail: the attempt is counted and the next one put off.
Fail ==
  /\ errors' = errors + 1
  /\ backoff' = NextBackoff
  /\ Return

\* The post failed; the destination may have applied the batch all the same
\* (a lost reply).  batchQueue clears inflight and takes the mutex again in
\* fail, the elastic and stdout sinks do it in one critical section.
PostFailed ==
  /\ flusher = "posting" /\ errors < MaxErrors
  /\ \E applied \in BOOLEAN : seen' = IF applied THEN inflight[1].id ELSE seen
  /\ inflight' = <<>>
  /\ \/ /\ disc \in {"own", "shared"}
        /\ flusher' = "failing"
        /\ UNCHANGED <<queue, errors, backoff>>
     \/ /\ disc = "elastic"
        /\ Fail /\ UNCHANGED queue
     \/ /\ disc = "stdout"
        /\ Fail /\ queue' = inflight \o queue
  /\ UNCHANGED <<disc, cur, queued, written, dropped, final, closer, events,
                 made, refused, delivered, shed>>

\* batchQueue.fail, with the mutex taken again.
CountFailure ==
  /\ flusher = "failing"
  /\ Fail
  /\ UNCHANGED <<disc, cur, queue, queued, inflight, written, dropped, final,
                 closer, events, made, refused, delivered, shed, seen>>
-----------------------------------------------------------------------------
Next ==
  \/ \E n \in Sizes : Write(n)
  \/ \E n \in Sizes : Push(n)
  \/ Close
  \/ CloseReturns
  \/ Tick
  \/ Stop
  \/ Idle
  \/ StartPost
  \/ PostOK
  \/ PostFailed
  \/ CountFailure

Spec == Init /\ [][Next]_vars

(* Fairness.  The ticker keeps firing and the flusher's goroutine keeps     *)
(* running; a select whose two branches stay ready takes each of them in    *)
(* the end (Go picks at random), hence SF for Stop.  A post on the network  *)
(* returns because its client has a deadline; a write to a pipe whose       *)
(* reader stopped may never return, so nothing is assumed of it on stdout.  *)
Fairness ==
  /\ WF_vars(Tick) /\ SF_vars(Stop)
  /\ WF_vars(Idle) /\ WF_vars(StartPost) /\ WF_vars(CountFailure)
  /\ WF_vars(disc # "stdout" /\ (PostOK \/ PostFailed))
  /\ WF_vars(CloseReturns)

FairSpec == Spec /\ Fairness
-----------------------------------------------------------------------------
(* Properties.                                                             *)

\* The variables hold what the code's fields can hold; queued, which is a
\* Nat because it is a sum of sizes, is left to BytesExact.
TypeOK ==
  /\ disc \in Disciplines
  /\ cur \in Nat /\ queue \in Seq(Batch)
  /\ inflight \in Seq(Batch) /\ Len(inflight) <= 1
  /\ backoff \in 0 .. BackoffCap
  /\ written \in Nat /\ dropped \in Nat /\ errors \in 0 .. MaxErrors
  /\ flusher \in {"waiting", "looping", "posting", "failing", "done"}
  /\ final \in BOOLEAN
  /\ closer \in {"open", "closing", "closed", "gave up"}
  /\ events \in 0 .. MaxEvents
  /\ made \in Nat /\ refused \in Nat /\ delivered \in Seq(Batch)
  /\ shed \subseteq Batch /\ seen \in 0 .. made

\* Nothing leaves the queue uncounted (queue.go, "every eviction is
\* counted"): every batch closed is written, dropped or still held.
Conservation == written + dropped + Len(Held) = made + refused

\* The byte count the budget is checked against is the truth: the bytes of
\* what is held, the batch in flight included.  A count that drifts below it
\* "stops bounding anything" (elasticsearch.go, stdout.go).
BytesExact == queued = Bytes(Held)

\* While a batch is posted it is still the one the success path will remove:
\* the queue's head, or, on stdout, the batch taken off it, older than all.
InFlightIsOldest ==
  flusher = "posting" =>
    /\ Len(inflight) = 1
    /\ Held # <<>> /\ Held[1] = inflight[1]

\* The destination sees batches in the order they were closed, retries of an
\* ambiguous failure included.
InOrder == [][seen' >= seen]_vars

\* Whoever queues a batch leaves the sink within its byte budget, or holding
\* nothing but that batch and the one in flight.  Elasticsearch's Write is
\* the exception its comment admits: it appends, the flusher evicts.
BudgetEnforced ==
  [][made' # made /\ (disc = "elastic" => flusher' # flusher)
       => queued' <= MaxQ \/ Len(Held') <= 1 + Len(inflight)]_vars

\* Close returns, even on a standard output nobody reads.
CloseEnds == (closer = "closing") ~> (closer \in {"closed", "gave up"})

\* Once the destination accepts again (failures are finite), every batch
\* held is delivered or evicted, unless the sink was closed first.
Drains ==
  \A i \in 1 .. MaxEvents :
    (disc # "stdout" /\ \E b \in Range(Held) : b.id = i)
      ~> (flusher = "done" \/ ~ \E b \in Range(Held) : b.id = i)

\* The abstract stream of batches this queue implements.
Promise == INSTANCE SinkPromise WITH waiting <- Held

\* Every step of the queue is a step of the promise.
ImplementsPromise == Promise!PromiseSpec
=============================================================================
