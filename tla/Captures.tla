------------------------------ MODULE Captures ------------------------------
(***************************************************************************)
(* Triggered captures on the agent (internal/agent/capture.go), with the   *)
(* sampler that drives them, the ring they copy from, the HTTP handlers    *)
(* that arm and delete them, and one puller of /stream or                  *)
(* /snapshot?since.  Every critical section is one step; what the code     *)
(* does outside of one, or between two, is a step of its own.              *)
(* A sample is its sequence number.  Whether a condition hits a sample is  *)
(* chosen freely: the comparisons are not modelled.                        *)
(***************************************************************************)
EXTENDS Ring, SeqFolds, FiniteSets, SequencesExt

CONSTANTS
  Capacity,    \* samples the ring holds
  Conditions,  \* the configured conditions, in their configured order
  Pre, Post,   \* samples before and after a fire (at least one second each)
  Refractory,  \* samples a condition stays quiet after it fired
  Budget,      \* bytes of pinned lines
  Policies,    \* the full-budget policies to start from
  LineBytes,   \* bytes of each sample's line
  MaxMarkers,  \* markers kept (64 in the code)
  Word,        \* the modulus of the unsigned subtraction (2^64 in the code)
  Callers,     \* concurrent requests to POST /capture
  Limit,       \* samples per pull, 0 for all of them
  MaxSeq,      \* bound: samples taken in a behaviour
  MaxManual    \* bound: requests to POST /capture in a behaviour

Manual == "manual"
None == -1
Causes == Range(Conditions) \cup {Manual}

ASSUME CaptureAssumption ==
  /\ Capacity \in Nat \ {0} /\ Pre \in Nat \ {0} /\ Post \in Nat \ {0}
  /\ Refractory \in Nat /\ Budget \in Nat \ {0}
  /\ Policies \subseteq {"first", "last"} /\ MaxMarkers \in Nat \ {0}
  /\ MaxSeq \in Nat /\ MaxManual \in Nat /\ Limit \in Nat
  /\ Word \in Nat /\ Word > MaxSeq + Refractory
  /\ LineBytes \in [1 .. MaxSeq -> Nat \ {0}]
  /\ Conditions \in Seq(Range(Conditions)) /\ Manual \notin Range(Conditions)

VARIABLES
  policy,      \* fixed at the start
  ring,
  sampler,     \* where the sampler's goroutine is
  seq,         \* the newest sequence number it took
  todo,        \* conditions that hit the sample and are not fired yet
  lastFire,    \* per cause, the sample of its last fire
  pending,     \* the capture being recorded, as a sequence of at most one
  held,        \* the retained captures, oldest first
  bytes,       \* the code's own count of their bytes
  nextID, suppressed, refused,   \* counters
  markers,     \* the newest markers, oldest first
  caller,      \* per request to POST /capture: where it is, what it read
  cursor,      \* the puller's: the newest sample it was sent
  upTo,        \* the newest sample of the batch being written, 0 for none
  attempts,    \* history: fires tried
  evicted, deleted,  \* history: captures that left `held'
  replies,     \* history: what POST /capture answered, and the truth
  got          \* history: ids of the markers the puller was sent

captureVars == <<lastFire, pending, nextID, suppressed, markers, attempts>>
heldVars == <<held, bytes, refused, evicted, deleted>>
samplerVars == <<ring, sampler, seq, todo>>
callerVars == <<caller, replies>>
pullVars == <<cursor, upTo, got>>
vars == <<policy, captureVars, heldVars, samplerVars, callerVars, pullVars>>

\* The bytes of a run of samples, and of a run of captures.
LinesOf(w) == Total([i \in DOMAIN w |-> LineBytes[w[i]]])
BytesOf(cs) == Total([i \in DOMAIN cs |-> cs[i].bytes])

Idle == [at |-> "idle", before |-> 0, last |-> 0, own |-> 0]

Init ==
  /\ policy \in Policies
  /\ ring = NewRing(Capacity)
  /\ sampler = "waiting" /\ seq = 0 /\ todo = <<>>
  /\ lastFire = [c \in Causes |-> None]
  /\ pending = <<>> /\ held = <<>> /\ bytes = 0
  /\ nextID = 0 /\ suppressed = 0 /\ refused = 0 /\ markers = <<>>
  /\ caller = [c \in Callers |-> Idle]
  /\ cursor = 0 /\ upTo = 0
  /\ attempts = 0 /\ evicted = 0 /\ deleted = 0
  /\ replies = {} /\ got = <<>>
-----------------------------------------------------------------------------
(* fire and collect, each under the captures' mutex.                       *)

\* The cause fired less than the refractory window ago.
Quiet(cause, s) ==
  /\ lastFire[cause] # None
  /\ (s - lastFire[cause]) % Word < Refractory

\* Markers that are never trimmed.
Newest_Mutant(ms) == ms

\* The newest MaxMarkers of ms.
Newest(ms) ==
  SubSeq(ms, IF Len(ms) > MaxMarkers THEN Len(ms) - MaxMarkers + 1 ELSE 1,
         Len(ms))

\* A second fire takes the place of the pending capture.
Fire_Mutant(cause, s) ==
  /\ attempts' = attempts + 1
  /\ IF Quiet(cause, s)
     THEN /\ suppressed' = suppressed + 1
          /\ UNCHANGED <<lastFire, pending, nextID, markers>>
     ELSE /\ lastFire' = [lastFire EXCEPT ![cause] = s]
          /\ nextID' = nextID + 1
          /\ pending' = <<[id |-> nextID + 1, cause |-> cause, fire |-> s,
                           first |-> IF s > Pre THEN s - Pre ELSE 1,
                           last |-> s + Post]>>
          /\ markers' = Newest(Append(markers,
                          [id |-> nextID + 1, cause |-> cause, seq |-> s]))
          /\ UNCHANGED suppressed

\* fire: a capture is armed at s, unless the cause is quiet or another
\* capture is pending; both are counted.
Fire(cause, s) ==
  /\ attempts' = attempts + 1
  /\ IF Quiet(cause, s) \/ pending # <<>>
     THEN /\ suppressed' = suppressed + 1
          /\ UNCHANGED <<lastFire, pending, nextID, markers>>
     ELSE /\ lastFire' = [lastFire EXCEPT ![cause] = s]
          /\ nextID' = nextID + 1
          /\ pending' = <<[id |-> nextID + 1, cause |-> cause, fire |-> s,
                           first |-> IF s > Pre THEN s - Pre ELSE 1,
                           last |-> s + Post]>>
          /\ markers' = Newest(Append(markers,
                          [id |-> nextID + 1, cause |-> cause, seq |-> s]))
          /\ UNCHANGED suppressed

\* A window cut one sample short of its newest.
WindowOf_Mutant(p) ==
  Kept(TailOf(ring, Pre + Post), p.first .. p.last)

\* The samples of the ring that fall in the window of p.
WindowOf(p) ==
  Kept(TailOf(ring, Pre + Post + 1), p.first .. p.last)

\* The retained capture made of p and its samples w.
Retained(p, w) ==
  [id |-> p.id, cause |-> p.cause, fire |-> p.fire, entries |-> w,
   bytes |-> LinesOf(w), complete |-> Len(w) = Pre + Post + 1]

\* Evicting for a capture of size bytes, the oldest first, as the policy
\* allows, and keeping it if it then fits.
MakeRoomAndKeep(c) ==
  LET left(k) == bytes - BytesOf(SubSeq(held, 1, k))
      fits(k) == left(k) + c.bytes <= Budget
  IN  \E k \in 0 .. Len(held) :
        /\ k > 0 => policy = "last"
        /\ \A j \in 0 .. (k - 1) : ~ fits(j)
        /\ \/ /\ fits(k)
              /\ held' = Append(SubSeq(held, k + 1, Len(held)), c)
              /\ bytes' = left(k) + c.bytes
              /\ UNCHANGED refused
           \/ /\ ~ fits(k) /\ (policy # "last" \/ k = Len(held))
              /\ held' = SubSeq(held, k + 1, Len(held))
              /\ bytes' = left(k)
              /\ refused' = refused + 1
        /\ evicted' = evicted + k

\* collect: the pending capture is retained or refused, never kept pending.
Collect ==
  LET w == WindowOf(pending[1])
  IN  /\ pending' = <<>>
      /\ IF w = <<>> \/ LinesOf(w) > Budget
         THEN /\ refused' = refused + 1
              /\ UNCHANGED <<held, bytes, evicted>>
         ELSE MakeRoomAndKeep(Retained(pending[1], w))
      /\ UNCHANGED <<lastFire, nextID, suppressed, markers, attempts, deleted>>
-----------------------------------------------------------------------------
(* The sampler's loop (sampler.go Run).                                    *)

\* A tick: the sources are read and the next sample numbered.
Tick ==
  /\ sampler = "waiting" /\ seq < MaxSeq
  /\ seq' = seq + 1
  /\ \E hits \in SUBSET Range(Conditions) : todo' = Kept(Conditions, hits)
  /\ sampler' = "observing"
  /\ UNCHANGED <<policy, ring, captureVars, heldVars, callerVars, pullVars>>

\* Observe: the next condition that hit fires.
ObserveHit ==
  /\ sampler = "observing" /\ todo # <<>>
  /\ Fire(Head(todo), seq)
  /\ todo' = Tail(todo)
  /\ UNCHANGED <<policy, ring, sampler, seq, heldVars, callerVars, pullVars>>

\* A sampler that pushes first and evaluates the conditions afterwards.
PushSample_Mutant ==
  /\ sampler = "observing" /\ ring.last < seq
  /\ ring' = PushTo(ring, seq)
  /\ sampler' = IF todo = <<>> THEN "pushed" ELSE "observing"
  /\ UNCHANGED <<policy, seq, todo, captureVars, heldVars, callerVars,
                 pullVars>>

\* Every condition has been evaluated: the sample enters the ring.
PushSample ==
  /\ sampler = "observing" /\ todo = <<>>
  /\ ring' = PushTo(ring, seq)
  /\ sampler' = "pushed"
  /\ UNCHANGED <<policy, seq, todo, captureVars, heldVars, callerVars,
                 pullVars>>

\* AfterPush: a capture whose window is complete is collected.
AfterPush ==
  /\ sampler = "pushed"
  /\ sampler' = "waiting"
  /\ IF pending = <<>> \/ seq < pending[1].last
     THEN UNCHANGED <<captureVars, heldVars>>
     ELSE Collect
  /\ UNCHANGED <<policy, ring, seq, todo, callerVars, pullVars>>

\* The context is done: Finalize collects what is pending.
StopSampler ==
  /\ sampler = "waiting"
  /\ sampler' = "stopped"
  /\ IF pending = <<>> THEN UNCHANGED <<captureVars, heldVars>> ELSE Collect
  /\ UNCHANGED <<policy, ring, seq, todo, callerVars, pullVars>>

\* A source fails to read, or a sample to encode: Run returns the error and
\* finalizes nothing.
SamplerFails ==
  /\ \/ sampler = "waiting"
     \/ sampler = "observing" /\ todo = <<>>
  /\ sampler' = "stopped"
  /\ UNCHANGED <<policy, ring, seq, todo, captureVars, heldVars, callerVars,
                 pullVars>>
-----------------------------------------------------------------------------
(* POST /capture and DELETE /captures/{id}.                                *)

\* A request begins: nextID is read without the mutex.
BeginFire(c) ==
  /\ caller[c].at = "idle" /\ attempts < MaxSeq + MaxManual
  /\ Cardinality(replies) < MaxManual
  /\ caller' = [caller EXCEPT ![c] = [Idle EXCEPT !.at = "begun", !.before = nextID]]
  /\ UNCHANGED <<policy, samplerVars, captureVars, heldVars, replies, pullVars>>

\* The ring's newest sample is read under the ring's mutex.
ReadLast(c) ==
  /\ caller[c].at = "begun"
  /\ caller' = [caller EXCEPT ![c].at = "aimed", ![c].last = ring.last]
  /\ UNCHANGED <<policy, samplerVars, captureVars, heldVars, replies, pullVars>>

\* fire, at the sample read before.
FireManual(c) ==
  /\ caller[c].at = "aimed"
  /\ Fire(Manual, caller[c].last)
  /\ caller' = [caller EXCEPT ![c].at = "fired",
                              ![c].own = IF nextID' # nextID THEN nextID' ELSE 0]
  /\ UNCHANGED <<policy, samplerVars, heldVars, replies, pullVars>>

\* The mutex is taken again to read the answer.
Reply(c) ==
  /\ caller[c].at = "fired"
  /\ replies' = replies \cup {[id |-> nextID, own |-> caller[c].own,
                               armed |-> nextID # caller[c].before]}
  /\ caller' = [caller EXCEPT ![c] = Idle]
  /\ UNCHANGED <<policy, samplerVars, captureVars, heldVars, pullVars>>

\* A delete that forgets to give the bytes back.
Delete_Mutant(i) ==
  /\ i \in DOMAIN held
  /\ held' = RemoveAt(held, i)
  /\ deleted' = deleted + 1
  /\ UNCHANGED <<policy, samplerVars, captureVars, bytes, refused, evicted,
                 callerVars, pullVars>>

\* DELETE of the i-th retained capture.
Delete(i) ==
  /\ i \in DOMAIN held
  /\ held' = RemoveAt(held, i)
  /\ bytes' = bytes - held[i].bytes
  /\ deleted' = deleted + 1
  /\ UNCHANGED <<policy, samplerVars, captureVars, refused, evicted,
                 callerVars, pullVars>>
-----------------------------------------------------------------------------
(* A puller: Since under the ring's mutex, MarkersBetween under the         *)
(* captures' mutex, then the lines are written.                            *)

PullSince ==
  /\ upTo = 0
  /\ SinceOf(ring, cursor, Limit) # <<>>
  /\ upTo' = Last(SinceOf(ring, cursor, Limit))
  /\ UNCHANGED <<policy, samplerVars, captureVars, heldVars, callerVars,
                 cursor, got>>

\* MarkersBetween: the markers in (after, through].
MarkersBetween(after, through) ==
  Kept(markers, {m \in Range(markers) : after < m.seq /\ m.seq <= through})

PullMarkers ==
  /\ upTo # 0
  /\ got' = got \o [i \in DOMAIN MarkersBetween(cursor, upTo) |->
                      MarkersBetween(cursor, upTo)[i].id]
  /\ cursor' = upTo /\ upTo' = 0
  /\ UNCHANGED <<policy, samplerVars, captureVars, heldVars, callerVars>>
-----------------------------------------------------------------------------
Next ==
  \/ Tick
  \/ ObserveHit
  \/ PushSample
  \/ AfterPush
  \/ StopSampler
  \/ SamplerFails
  \/ \E c \in Callers : BeginFire(c)
  \/ \E c \in Callers : ReadLast(c)
  \/ \E c \in Callers : FireManual(c)
  \/ \E c \in Callers : Reply(c)
  \/ \E i \in DOMAIN held : Delete(i)
  \/ PullSince
  \/ PullMarkers

Spec == Init /\ [][Next]_vars
-----------------------------------------------------------------------------
(* Properties.                                                             *)

PendingRecord == [id : Nat, cause : Causes, fire : Nat, first : Nat, last : Nat]
HeldRecord ==
  [id : Nat, cause : Causes, fire : Nat, entries : Seq(Nat), bytes : Nat,
   complete : BOOLEAN]

\* The variables hold what the code's fields can hold, the ring included.
TypeOK ==
  /\ policy \in Policies
  /\ RingOK(ring) /\ ring.len = Capacity
  /\ sampler \in {"waiting", "observing", "pushed", "stopped"}
  /\ seq \in 0 .. MaxSeq /\ todo \in Seq(Range(Conditions))
  /\ lastFire \in [Causes -> Nat \cup {None}]
  /\ pending \in Seq(PendingRecord) /\ Len(pending) <= 1
  /\ held \in Seq(HeldRecord)
  /\ nextID \in Nat /\ suppressed \in Nat /\ refused \in Nat
  /\ markers \in Seq([id : Nat, cause : Causes, seq : Nat])
  /\ Len(markers) <= MaxMarkers
  /\ cursor \in 0 .. ring.last /\ upTo \in 0 .. ring.last

\* The pinned bytes never exceed the budget, and the count that says so is
\* the truth after any mix of collections, evictions and deletions.
BudgetExact == bytes = BytesOf(held) /\ bytes <= Budget

\* Every fire is counted and every capture armed is pending, retained,
\* refused, evicted or deleted: "how much was NOT captured is part of the
\* measurement" (capture.go, fire); so are their bytes.
Accounting ==
  /\ BudgetExact
  /\ attempts = nextID + suppressed
  /\ nextID = Len(pending) + Len(held) + refused + evicted + deleted

\* A retained capture is a run of consecutive samples around its fire; one
\* fired by the sampler is whole unless the agent was too young, stopped
\* first, or its ring is smaller than the window.
WindowExact ==
  \A c \in Range(held) :
    /\ c.entries = Run(c.entries[1], Last(c.entries))
    /\ c.fire - Pre <= c.entries[1] /\ Last(c.entries) <= c.fire + Post
    /\ c.cause # Manual /\ ~ c.complete =>
         c.fire <= Pre \/ sampler = "stopped" \/ Capacity < Pre + Post + 1

\* A puller whose cursor passed the sample a condition fired on was sent
\* the marker, once, whatever it raced with (unless newer markers pushed it
\* out): the marker is listed before its sample enters the ring.
MarkerBeforeSample ==
  /\ IsInjective(got)
  /\ \A m \in Range(markers) :
       m.cause # Manual /\ m.seq <= cursor => m.id \in Range(got)
-----------------------------------------------------------------------------
(* What the comments say and the code does not do.                         *)

\* "armed" is answered to a request exactly when it armed the capture whose
\* id it is given (capture.go, Fire; http.go, manualCapture).
ManualTruthful ==
  \A r \in replies : IF r.armed THEN r.id = r.own ELSE r.own = 0
=============================================================================
