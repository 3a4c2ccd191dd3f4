--------------------------- MODULE SamplerProofs ---------------------------
(***************************************************************************)
(* Proofs about Sampler for every rate, cadence, width, cap and log: that  *)
(* no kernel-log record is lost uncounted, that the samples tell what was  *)
(* read, and that sampler, sources and ring keep in step (the types).      *)
(***************************************************************************)
EXTENDS Sampler, DataLemmas

-----------------------------------------------------------------------------
(* The kernel's log.  A record count is right at the end of a drain if it  *)
(* was right all along: since the drain began the records passed over are  *)
(* as many as the drops counted, or more, and none if none was counted.    *)
(* The drops are counted from where the previous read left them, which is  *)
(* in the Raw that is not being filled.                                    *)

\* The records are in (from, pos), in order.
InDrain(rs) ==
  \A i \in DOMAIN rs :
    rs[i] \in from .. (pos - 1) /\ (i > 1 => rs[i - 1] < rs[i])

Phases == {"probe", "second", "prime", "running", "stopped"}

ReaderOK ==
  /\ phase \in Phases /\ cur \in 0 .. 1 /\ ring.last \in Nat
  /\ pos \in Nat \ {0} /\ from \in 1 .. pos /\ logged \in Nat
  /\ draining \in BOOLEAN /\ took \in Seq(Nat)
  /\ dropped \in Nat /\ rawDropped \in [0 .. 1 -> Nat]
  /\ events.records \in Seq(Nat) /\ events.dropped \in Nat

\* Nothing was sampled before the loop, and nothing is drained by an agent
\* that has no kernel log.
BeforeSamples ==
  /\ ring.last = 0 => events = NoEvents
  /\ phase \in {"probe", "second", "prime"} => ring.last = 0
  /\ setup.source # "kmsg" =>
       /\ ~draining /\ events = NoEvents /\ from = pos
       /\ dropped = 0 /\ rawDropped = [i \in 0 .. 1 |-> 0]

\* The state of a drain in progress.
DrainOK ==
  draining =>
    /\ CanRead
    /\ InDrain(took)
    /\ Running => /\ dropped >= rawDropped[1 - cur]
                  /\ (pos - from) - Len(took) >= dropped - rawDropped[1 - cur]
                  /\ dropped = rawDropped[1 - cur] => pos - from = Len(took)

\* Between drains the count is the one the newest Raw holds.
SettledOK == ~draining /\ Running => rawDropped[1 - cur] = dropped

EventsInv ==
  ReaderOK /\ BeforeSamples /\ DrainOK /\ SettledOK /\ EventsAccounted

LEMMA EventsInit == SamplerInit => EventsInv
<1> SUFFICES ASSUME SamplerInit PROVE EventsInv
  OBVIOUS
<1>1. ring.last = 0
  BY DEF SamplerInit, NewRing
<1>2. /\ phase = "probe" /\ cur = 0 /\ pos = 1 /\ from = 1 /\ logged = 0
      /\ draining = FALSE /\ took = <<>> /\ dropped = 0
      /\ rawDropped = [i \in 0 .. 1 |-> 0] /\ events = NoEvents
  BY DEF SamplerInit
<1>3. ReaderOK
  <2>1. took \in Seq(Nat) /\ events.records \in Seq(Nat) /\ events.dropped \in Nat
    BY <1>2 DEF NoEvents
  <2>2. rawDropped \in [0 .. 1 -> Nat]
    BY <1>2
  <2>3. draining \in BOOLEAN
    BY <1>2
  <2>4. /\ phase \in Phases /\ cur \in 0 .. 1 /\ ring.last \in Nat
        /\ pos \in Nat \ {0} /\ from \in 1 .. pos /\ logged \in Nat
        /\ dropped \in Nat
    BY <1>1, <1>2 DEF Phases
  <2> QED
    BY <2>1, <2>2, <2>3, <2>4 DEF ReaderOK
<1>4. BeforeSamples /\ DrainOK
  BY <1>1, <1>2 DEF BeforeSamples, DrainOK
<1>5. SettledOK /\ EventsAccounted
  BY <1>2 DEF SettledOK, EventsAccounted, Running
<1> QED
  BY <1>3, <1>4, <1>5 DEF EventsInv

\* The end of a read moves the phase on and fills the other Raw next.
LEMMA AfterReadMoves ==
  ASSUME ReaderOK, AfterRead, CanRead
  PROVE  /\ phase' \in {"second", "prime", "running"} /\ cur' \in 0 .. 1
         /\ ring'.last = IF Running THEN ring.last + 1 ELSE ring.last
         /\ Probing => cur' = cur /\ phase' # "running"
         /\ ~Probing => cur' = 1 - cur /\ phase' = "running"
         /\ setup' = setup
BY DEF AfterRead, ReaderOK, CanRead, Phases, Probing, Running, PushTo

\* The other Raw.
LEMMA OtherRaw ==
  ASSUME NEW i \in 0 .. 1 PROVE 1 - i \in 0 .. 1
OBVIOUS

\* Of no records none is lost.
LEMMA NoneLost ==
  ASSUME NEW p \in Nat, NEW f, f = p, NEW n, n = 0 PROVE (p - f) - n = 0
OBVIOUS

\* A read of another source leaves the reader alone.
LEMMA OthersKeepEvents ==
  ASSUME EventsInv, AfterRead, CanRead, setup.source # "kmsg",
         UNCHANGED kmsgVars
  PROVE  EventsInv'
<1>1. /\ phase' \in Phases /\ cur' \in 0 .. 1
      /\ ring'.last = IF Running THEN ring.last + 1 ELSE ring.last
      /\ ~Probing => phase' = "running"
      /\ setup' = setup
  BY AfterReadMoves DEF EventsInv, Phases
<1>2. ReaderOK'
  BY <1>1 DEF EventsInv, ReaderOK, kmsgVars
<1>3. BeforeSamples'
  BY <1>1 DEF EventsInv, ReaderOK, BeforeSamples, kmsgVars, Running, Probing, Phases
<1>4. /\ ~draining' /\ events' = NoEvents /\ from' = pos' /\ pos' \in Nat
  BY DEF EventsInv, ReaderOK, BeforeSamples, kmsgVars
<1>z. dropped' = 0 /\ rawDropped' = [i \in 0 .. 1 |-> 0]
  BY DEF EventsInv, BeforeSamples, kmsgVars
<1>5. DrainOK' /\ SettledOK'
  <2>0. cur' \in 0 .. 1
    BY <1>1
  <2>1. 1 - cur' \in 0 .. 1
    BY <2>0, OtherRaw
  <2>2. rawDropped'[1 - cur'] = dropped'
    BY <1>z, <2>1
  <2>3. DrainOK'
    BY <1>4 DEF DrainOK
  <2>4. SettledOK'
    BY <2>2 DEF SettledOK
  <2> QED
    BY <2>3, <2>4
<1>6. events'.records = <<>> /\ events'.dropped = 0
  BY <1>4 DEF NoEvents
<1>7. EventsAccounted'
  <2>1. DOMAIN events'.records = {} /\ Len(events'.records) = 0
    BY <1>6
  <2>2. (pos' - from') - Len(events'.records) = 0
    <3>1. from' = pos' /\ pos' \in Nat
      BY <1>4
    <3> QED
      BY <2>1, <3>1, NoneLost
  <2> QED
    BY <1>6, <2>1, <2>2 DEF EventsAccounted
<1> QED
  BY <1>2, <1>3, <1>5, <1>7 DEF EventsInv

\* A drain that ends, having lost n records since its last step.
LEMMA DrainEnds ==
  ASSUME EventsInv, draining, CanRead, NEW n \in 0 .. 1, EndDrain(dropped + n),
         pos' = pos + n, setup.source = "kmsg"
  PROVE  EventsInv'
<1>1. /\ phase' \in Phases /\ cur' \in 0 .. 1
      /\ ring'.last = IF Running THEN ring.last + 1 ELSE ring.last
      /\ Probing => cur' = cur /\ phase' # "running"
      /\ ~Probing => cur' = 1 - cur /\ phase' = "running"
      /\ setup' = setup
  BY AfterReadMoves DEF EventsInv, Phases, EndDrain
<1>2. /\ from' = from /\ logged' = logged /\ ~draining' /\ took' = <<>>
      /\ dropped' = dropped + n /\ draining' = FALSE
      /\ rawDropped' = IF Probing THEN rawDropped
                       ELSE [rawDropped EXCEPT ![cur] = dropped + n]
      /\ ~Running => events' = events
  BY DEF EndDrain
<1>3. ASSUME Running
      PROVE  events' = [records |-> took,
                        dropped |-> (dropped + n) - rawDropped[1 - cur]]
  <2>1. rawDropped[1 - cur] \in Nat /\ dropped >= rawDropped[1 - cur]
    BY <1>3 DEF EventsInv, ReaderOK, DrainOK
  <2>2. Sub(dropped + n, rawDropped[1 - cur]).delta
          = (dropped + n) - rawDropped[1 - cur]
    BY <2>1 DEF Sub, EventsInv, ReaderOK
  <2> QED
    BY <1>3, <2>2 DEF EndDrain
<1>4. ReaderOK'
  <2>1. events'.records \in Seq(Nat) /\ events'.dropped \in Nat
    <3>1. CASE Running
      BY <1>3, <3>1 DEF EventsInv, ReaderOK, DrainOK
    <3> QED
      BY <1>2, <3>1 DEF EventsInv, ReaderOK
  <2>2. rawDropped' \in [0 .. 1 -> Nat] /\ dropped' \in Nat
    BY <1>2 DEF EventsInv, ReaderOK
  <2>3. ring'.last \in Nat
    BY <1>1 DEF EventsInv, ReaderOK
  <2>4. pos' \in Nat \ {0} /\ from' \in 1 .. pos' /\ logged' \in Nat
    BY <1>2 DEF EventsInv, ReaderOK
  <2>5. draining' \in BOOLEAN
    BY <1>2
  <2>6. took' \in Seq(Nat)
    BY <1>2
  <2> QED
    BY <1>1, <2>1, <2>2, <2>3, <2>4, <2>5, <2>6 DEF ReaderOK
<1>5. BeforeSamples'
  BY <1>1, <1>2 DEF EventsInv, ReaderOK, BeforeSamples, Running, Probing, Phases
<1>6. DrainOK'
  BY <1>2 DEF DrainOK
<1>7. SettledOK'
  <2>1. SUFFICES ASSUME Running' PROVE rawDropped'[1 - cur'] = dropped'
    BY DEF SettledOK
  <2>2. ~Probing /\ cur' = 1 - cur
    BY <1>1, <2>1 DEF Running
  <2>3. 1 - cur' = cur /\ cur \in 0 .. 1 /\ rawDropped \in [0 .. 1 -> Nat]
    BY <2>2 DEF EventsInv, ReaderOK
  <2>4. rawDropped' = [rawDropped EXCEPT ![cur] = dropped + n]
    BY <1>2, <2>2
  <2> QED
    BY <1>2, <2>3, <2>4
<1>8. EventsAccounted'
  <2>1. CASE Running
    <3>1. /\ InDrain(took)
          /\ dropped >= rawDropped[1 - cur] /\ rawDropped[1 - cur] \in Nat
          /\ (pos - from) - Len(took) >= dropped - rawDropped[1 - cur]
          /\ dropped = rawDropped[1 - cur] => pos - from = Len(took)
      BY <2>1 DEF EventsInv, DrainOK, ReaderOK
    <3>2. /\ events'.records = took
          /\ events'.dropped = (dropped + n) - rawDropped[1 - cur]
      BY <1>3, <2>1
    <3>3. \A i \in DOMAIN events'.records :
            /\ events'.records[i] \in from' .. (pos' - 1)
            /\ i > 1 => events'.records[i - 1] < events'.records[i]
      <4>1. from' = from /\ from .. (pos - 1) \subseteq from .. (pos' - 1)
        BY <1>2 DEF EventsInv, ReaderOK
      <4>2. \A i \in DOMAIN took :
              took[i] \in from .. (pos - 1) /\ (i > 1 => took[i - 1] < took[i])
        BY <3>1 DEF InDrain
      <4>3. events'.records = took
        BY <3>2
      <4> QED
        BY <4>1, <4>2, <4>3
    <3>4. /\ (pos' - from') - Len(events'.records) >= events'.dropped
          /\ events'.dropped = 0 => (pos' - from') - Len(events'.records) = 0
      <4>1. /\ from \in Nat /\ pos \in Nat /\ dropped \in Nat
            /\ Len(took) \in Nat /\ n \in 0 .. 1
        BY DEF EventsInv, ReaderOK
      <4>2. pos' - from' = (pos - from) + n
        BY <1>2, <4>1
      <4> QED
        BY <3>1, <3>2, <4>1, <4>2
    <3> QED
      BY <3>3, <3>4 DEF EventsAccounted
  <2>2. CASE ~Running
    <3>1. ring'.last = 0 /\ events' = NoEvents
      BY <1>1, <1>2, <2>2 DEF EventsInv, BeforeSamples, ReaderOK, Running, CanRead, Phases
    <3> QED
      BY <3>1 DEF EventsAccounted, NoEvents
  <2> QED
    BY <2>1, <2>2
<1> QED
  BY <1>4, <1>5, <1>6, <1>7, <1>8 DEF EventsInv

\* An index of a longer sequence is an old one or the new one.
LEMMA LastOrBefore ==
  ASSUME NEW m \in Nat, NEW i \in 1 .. (m + 1)
  PROVE  i \in 1 .. m \/ i = m + 1
OBVIOUS

\* A step of the drain passes over one run of records and keeps the rest.
LEMMA EventsNext == EventsInv /\ [SamplerNext]_samplerVars => EventsInv'
<1> SUFFICES ASSUME EventsInv, [SamplerNext]_samplerVars
             PROVE  EventsInv'
  OBVIOUS
<1> USE DEF EventsInv
<1>1. CASE Stop
  <2>1. /\ phase' = "stopped" /\ ~draining /\ UNCHANGED <<ring, setup, cur>>
        /\ UNCHANGED <<logged, pos, draining, took, dropped, rawDropped, from, events>>
    BY <1>1 DEF Stop, kmsgVars
  <2>2. ReaderOK' /\ BeforeSamples'
    BY <2>1 DEF ReaderOK, BeforeSamples, Phases
  <2>3. DrainOK' /\ SettledOK' /\ EventsAccounted'
    BY <2>1 DEF DrainOK, SettledOK, EventsAccounted, Running
  <2> QED
    BY <2>2, <2>3
<1>2. CASE ReadNone
  BY <1>2, OthersKeepEvents DEF ReadNone, None
<1>3. CASE \E v \in Readings : ReadLevel(v)
  BY <1>3, OthersKeepEvents DEF ReadLevel, Levels
<1>4. CASE \E n \in 0 .. MaxStep, restarts \in BOOLEAN : ReadCounter(n, restarts)
  BY <1>4, OthersKeepEvents DEF ReadCounter, Counters
<1>5. CASE KernelLogs
  <2>1. /\ UNCHANGED <<ring, setup, phase, cur>> /\ logged' = logged + 1
        /\ UNCHANGED <<pos, draining, took, dropped, rawDropped, from, events>>
    BY <1>5 DEF KernelLogs
  <2>2. ReaderOK' /\ BeforeSamples'
    BY <2>1 DEF ReaderOK, BeforeSamples
  <2>3. DrainOK' /\ SettledOK' /\ EventsAccounted'
    BY <2>1 DEF DrainOK, SettledOK, EventsAccounted, Running, InDrain, CanRead
  <2> QED
    BY <2>2, <2>3
<1>6. CASE BeginDrain
  <2>1. /\ UNCHANGED <<ring, setup, phase, cur>> /\ setup.source = "kmsg"
        /\ ~draining /\ draining' = TRUE /\ took' = <<>> /\ from' = pos
        /\ UNCHANGED <<logged, pos, dropped, rawDropped, events>>
    BY <1>6 DEF BeginDrain
  <2>2. ReaderOK'
    BY <2>1 DEF ReaderOK
  <2>3. BeforeSamples'
    BY <2>1 DEF BeforeSamples
  <2>4. InDrain(took)'
    BY <2>1 DEF InDrain
  <2>5. Running => rawDropped[1 - cur] = dropped
    BY <2>1 DEF SettledOK
  <2>6. DrainOK'
    <3>1. CanRead'
      BY <1>6, <2>1 DEF BeginDrain, CanRead
    <3> QED
      BY <2>1, <2>4, <2>5, <3>1 DEF DrainOK, Running, ReaderOK
  <2>7. SettledOK' /\ EventsAccounted'
    BY <2>1 DEF SettledOK, EventsAccounted
  <2> QED
    BY <2>2, <2>3, <2>6, <2>7
<1>7. CASE Overrun
  <2>1. /\ UNCHANGED <<ring, setup, phase, cur, logged, took, rawDropped, from, events>>
        /\ pos' = Oldest /\ pos < Oldest /\ dropped' = dropped + 1
    BY <1>7 DEF Overrun
  <2>2. draining /\ draining'
    BY <1>7 DEF Overrun
  <2>3. Oldest \in Nat
    BY SamplerAssumption DEF Oldest, ReaderOK
  <2>4. ReaderOK'
    BY <2>1, <2>2, <2>3 DEF ReaderOK
  <2>5. BeforeSamples'
    BY <2>1, <2>2 DEF BeforeSamples
  <2>6. CanRead' /\ InDrain(took)'
    BY <2>1, <2>2, <2>3 DEF DrainOK, CanRead, InDrain, ReaderOK
  <2>7. ASSUME Running
        PROVE  /\ dropped' >= rawDropped'[1 - cur']
               /\ (pos' - from') - Len(took') >= dropped' - rawDropped'[1 - cur']
               /\ dropped' # rawDropped'[1 - cur']
    <3>1. /\ dropped >= rawDropped[1 - cur]
          /\ (pos - from) - Len(took) >= dropped - rawDropped[1 - cur]
      BY <2>2, <2>7 DEF DrainOK
    <3>2. /\ rawDropped[1 - cur] \in Nat /\ Len(took) \in Nat /\ dropped \in Nat
          /\ pos \in Nat /\ from \in Nat
      BY DEF ReaderOK
    <3> QED
      BY <2>1, <2>3, <3>1, <3>2
  <2>8. DrainOK' /\ SettledOK' /\ EventsAccounted'
    BY <2>1, <2>2, <2>6, <2>7 DEF DrainOK, SettledOK, EventsAccounted, Running
  <2> QED
    BY <2>4, <2>5, <2>8
<1>8. CASE TakeRecord
  <2>1. /\ UNCHANGED <<ring, setup, phase, cur, logged, dropped, rawDropped, from, events>>
        /\ took' = Append(took, pos) /\ pos' = pos + 1
    BY <1>8 DEF TakeRecord
  <2>2. draining /\ draining'
    BY <1>8 DEF TakeRecord
  <2>3. took \in Seq(Nat) /\ pos \in Nat \ {0} /\ from \in 1 .. pos
    BY DEF ReaderOK
  <2>4. /\ took' \in Seq(Nat) /\ Len(took') = Len(took) + 1 /\ Len(took) \in Nat
        /\ DOMAIN took' = 1 .. (Len(took) + 1) /\ DOMAIN took = 1 .. Len(took)
        /\ took'[Len(took) + 1] = pos
        /\ \A i \in 1 .. Len(took) : took'[i] = took[i]
    BY <2>1, <2>3
  <2>5. ReaderOK'
    BY <2>1, <2>2, <2>3, <2>4 DEF ReaderOK
  <2>6. BeforeSamples'
    BY <2>1, <2>2 DEF BeforeSamples
  <2>7. InDrain(took)'
    <3>1. InDrain(took)
      BY <2>2 DEF DrainOK
    <3>2. ASSUME NEW i \in 1 .. (Len(took) + 1)
          PROVE  /\ took'[i] \in from .. (pos' - 1)
                 /\ i > 1 => took'[i - 1] < took'[i]
      <4>1. \A j \in 1 .. Len(took) :
              /\ took[j] \in from .. (pos - 1)
              /\ j > 1 => took[j - 1] < took[j]
        BY <2>4, <3>1 DEF InDrain
      <4>2. CASE i \in 1 .. Len(took)
        BY <2>1, <2>3, <2>4, <4>1, <4>2
      <4>3. CASE i = Len(took) + 1
        <5>1. pos' = pos + 1 /\ pos \in from .. (pos' - 1)
          BY <2>1, <2>3
        <5>2. took'[i] = pos
          BY <2>4, <4>3
        <5>3. ASSUME i > 1 PROVE took'[i - 1] < took'[i]
          <6>1. Len(took) \in Nat
            BY <2>4
          <6>2. i - 1 \in 1 .. Len(took)
            BY <4>3, <5>3, <6>1
          <6>3. took'[i - 1] = took[i - 1] /\ took[i - 1] \in from .. (pos - 1)
            BY <2>4, <4>1, <6>2
          <6> QED
            BY <2>3, <5>2, <6>3
        <5> QED
          BY <5>1, <5>2, <5>3
      <4>4. i \in 1 .. Len(took) \/ i = Len(took) + 1
        <5>1. Len(took) \in Nat
          BY <2>4
        <5> QED
          BY <5>1, LastOrBefore
      <4> QED
        BY <4>2, <4>3, <4>4
    <3> QED
      BY <2>1, <2>4, <3>2 DEF InDrain
  <2>8. CanRead'
    BY <2>1, <2>2 DEF DrainOK, CanRead
  <2>9. ASSUME Running
        PROVE  /\ dropped' >= rawDropped'[1 - cur']
               /\ (pos' - from') - Len(took') >= dropped' - rawDropped'[1 - cur']
               /\ dropped' = rawDropped'[1 - cur'] => pos' - from' = Len(took')
    <3>1. /\ dropped >= rawDropped[1 - cur]
          /\ (pos - from) - Len(took) >= dropped - rawDropped[1 - cur]
          /\ dropped = rawDropped[1 - cur] => pos - from = Len(took)
      BY <2>2, <2>9 DEF DrainOK
    <3>2. rawDropped[1 - cur] \in Nat /\ dropped \in Nat
      BY DEF ReaderOK
    <3> QED
      BY <2>1, <2>3, <2>4, <3>1, <3>2
  <2>10. DrainOK' /\ SettledOK' /\ EventsAccounted'
    BY <2>1, <2>2, <2>7, <2>8, <2>9 DEF DrainOK, SettledOK, EventsAccounted, Running
  <2> QED
    BY <2>5, <2>6, <2>10
<1>9. CASE CaughtUp
  <2>1. draining /\ CanRead /\ setup.source = "kmsg"
    BY <1>9 DEF CaughtUp, DrainOK, BeforeSamples
  <2>2. dropped = dropped + 0 /\ pos = pos + 0
    BY DEF ReaderOK
  <2>3. EndDrain(dropped + 0) /\ pos' = pos + 0
    BY <1>9, <2>2 DEF CaughtUp
  <2> QED
    BY <2>1, <2>3, DrainEnds
<1>10. CASE PastCap
  <2>1. draining /\ CanRead /\ setup.source = "kmsg"
    BY <1>10 DEF PastCap, DrainOK, BeforeSamples
  <2>2. EndDrain(dropped + 1) /\ pos' = pos + 1
    BY <1>10 DEF PastCap
  <2> QED
    BY <2>1, <2>2, DrainEnds
<1>11. CASE UNCHANGED samplerVars
  <2>1. /\ UNCHANGED <<ring, setup, phase, cur>>
        /\ UNCHANGED <<logged, pos, draining, took, dropped, rawDropped, from, events>>
    BY <1>11 DEF samplerVars, kmsgVars
  <2>2. ReaderOK' /\ BeforeSamples'
    BY <2>1 DEF ReaderOK, BeforeSamples
  <2>3. DrainOK' /\ SettledOK' /\ EventsAccounted'
    BY <2>1 DEF DrainOK, SettledOK, EventsAccounted, Running, InDrain, CanRead
  <2> QED
    BY <2>2, <2>3
<1> QED
  BY <1>1, <1>2, <1>3, <1>4, <1>5, <1>6, <1>7, <1>8, <1>9, <1>10, <1>11
  DEF SamplerNext

\* Every record the kernel logged is in a sample, or a sample says that some
\* were dropped, for every cap and size of the log (kmsg_linux.go).
THEOREM EventsAreAccounted == SamplerSpec => []EventsAccounted
<1>1. EventsInv => EventsAccounted
  BY DEF EventsInv
<1> QED
  BY <1>1, EventsInit, EventsNext, PTL DEF SamplerSpec
-----------------------------------------------------------------------------
(* The ring under its sampler: each sample is a Push, and nothing else     *)
(* touches it.                                                             *)

LEMMA SampleOrNot ==
  [SamplerNext]_samplerVars =>
    ring' = ring \/ ring' = PushTo(ring, ring.last + 1)
<1> SUFFICES ASSUME [SamplerNext]_samplerVars
             PROVE  ring' = ring \/ ring' = PushTo(ring, ring.last + 1)
  OBVIOUS
<1>1. CASE Stop \/ KernelLogs \/ BeginDrain \/ Overrun \/ TakeRecord
  BY <1>1 DEF Stop, KernelLogs, BeginDrain, Overrun, TakeRecord
<1>2. CASE AfterRead
  BY <1>2 DEF AfterRead
<1>3. CASE UNCHANGED samplerVars
  BY <1>3 DEF samplerVars
<1>4. ReadNone \/ CaughtUp \/ PastCap => AfterRead
  BY DEF ReadNone, CaughtUp, PastCap, EndDrain
<1>5. ASSUME NEW v \in Readings, ReadLevel(v) PROVE AfterRead
  BY <1>5 DEF ReadLevel
<1>6. ASSUME NEW n \in 0 .. MaxStep, NEW restarts \in BOOLEAN,
             ReadCounter(n, restarts)
      PROVE  AfterRead
  BY <1>6 DEF ReadCounter
<1> QED
  BY <1>1, <1>2, <1>3, <1>4, <1>5, <1>6 DEF SamplerNext

\* What a sound ring answers.
LEMMA SoundReads == RingOK(ring) => ReadsExact
<1>1. RingOK(ring) => SinceExact
  BY SinceOwed, SamplerAssumption DEF SinceExact
<1>2. RingOK(ring) => TailExact
  BY TailNewest, SamplerAssumption DEF TailExact
<1>3. RingOK(ring) => GapExact
  BY GapOwed, SamplerAssumption DEF GapExact
<1> QED
  BY <1>1, <1>2, <1>3 DEF ReadsExact

\* While the sampler runs every read of its ring answers exactly what a
\* reader is owed, for every capacity (Ring.Push, Ring.Since, Ring.Tail).
THEOREM SampledReads == SamplerSpec => []ReadsExact
<1>1. SamplerInit => RingOK(ring)
  <2>1. ASSUME SamplerInit PROVE setup.capacity \in Int /\ ring = NewRing(setup.capacity)
    BY <2>1, SamplerAssumption DEF SamplerInit, SetupRecord
  <2> QED
    BY <2>1, NewKeeps
<1>2. RingOK(ring) /\ [SamplerNext]_samplerVars => RingOK(ring)'
  BY SampleOrNot, PushKeeps DEF RingOK
<1> QED
  BY <1>1, <1>2, SoundReads, PTL DEF SamplerSpec
-----------------------------------------------------------------------------
(* Levels.  What was shown last is what was read last: a value that is     *)
(* left out equals the one remembered, and that is the one shown.  The age *)
(* is bounded by the time since it was remembered and, between two polls,  *)
(* by the place in the cadence.                                            *)

\* Counting on by one either starts a new round of c or is one further in it.
LEMMA NextInRound ==
  ASSUME NEW c \in Nat \ {0}, NEW t \in Nat
  PROVE  /\ (t % c) \in 0 .. (c - 1)
         /\ ((t + 1) % c) = 0 \/ ((t + 1) % c) = (t % c) + 1
<1>1. ASSUME NEW q \in Nat, NEW r \in Nat, r < c
      PROVE  (c * q + r) % c = r
  BY <1>1
<1>2. \A q \in Nat : c * q + c = c * (q + 1)
  OBVIOUS
<1> DEFINE q == t \div c
           r == (t % c)
<1>3. t = q * c + r
  OBVIOUS
<1>4. q \in Nat /\ r \in 0 .. (c - 1)
  OBVIOUS
<1> HIDE DEF q, r
<1>5. t = c * q + r
  BY <1>3, <1>4
<1>6. CASE r + 1 < c
  <2>1. t + 1 = c * q + (r + 1) /\ r + 1 \in Nat
    BY <1>4, <1>5
  <2>2. (c * q + (r + 1)) % c = r + 1
    BY <1>1, <1>4, <1>6, <2>1
  <2> QED
    BY <1>4, <2>1, <2>2 DEF r
<1>7. CASE r + 1 = c
  <2>1. t + 1 = c * q + c
    BY <1>4, <1>5, <1>7
  <2>2. t + 1 = c * (q + 1) + 0 /\ q + 1 \in Nat
    BY <1>2, <1>4, <2>1
  <2>3. (c * (q + 1) + 0) % c = 0
    BY <1>1, <2>2
  <2> QED
    BY <1>4, <2>2, <2>3 DEF r
<1> QED
  BY <1>4, <1>6, <1>7

LEMMA InRound ==
  ASSUME NEW c \in Nat \ {0}, NEW t \in Nat PROVE (t % c) \in Nat
BY NextInRound

\* Once the rate is known every cadence is at least one tick.
LEMMA CadencePositive ==
  ASSUME setup \in Setups, ~Probing
  PROVE  Cadence \in Nat \ {0} /\ Heartbeat \in Nat \ {0}
<1>1. \A n \in Int : AtLeastOne(n) \in Nat \ {0}
  BY DEF AtLeastOne
<1>2. \A f \in Nat \ {0} : Every(f) \in Nat \ {0}
  BY <1>1, SamplerAssumption DEF Every
<1>3. setup.floorHz \in Nat
  BY SamplerAssumption DEF SetupRecord
<1>4. EmitAll => Override \in Nat \ {0}
  BY <1>1, <1>3, SamplerAssumption DEF Override, EmitAll
<1>5. \A m, n \in Nat \ {0} : m * n \in Nat \ {0}
  OBVIOUS
<1>6. RateHz * MtdSeconds \in Nat \ {0} /\ RateHz * HeartbeatSeconds \in Nat \ {0}
  BY <1>5, SamplerAssumption
<1>7. Every(SlabFloorHz) \in Nat \ {0}
  BY <1>2, SamplerAssumption
<1>8. ThermalEvery \in Nat \ {0}
  BY <1>2, <1>4, SamplerAssumption DEF ThermalEvery
<1>9. Heartbeat \in Nat \ {0}
  BY <1>6 DEF Heartbeat
<1> QED
  BY <1>4, <1>6, <1>7, <1>8, <1>9 DEF Cadence

Early == phase \in {"probe", "second", "prime"}

\* The source goes through the change filter.
Filtered == setup.source \in Levels \ {"thermal", "ceiling"}

\* What bounds the age of the value shown.
Aged ==
  IF setup.source = "thermal" THEN age <= (tick % Cadence)
  ELSE IF setup.source = "ceiling" THEN age <= ((tick - 1) % Heartbeat)
  ELSE /\ age <= Heartbeat - 1 + (tick % Cadence)
       /\ last # None => age <= tick - lastTick
       /\ last = None => age <= (tick % Cadence)

LevelsInv ==
  /\ phase \in Phases /\ setup \in Setups
  /\ tick \in Nat /\ age \in Nat /\ lastTick \in 0 .. tick
  /\ Running => tick >= 1
  /\ Early \/ setup.source \notin Levels => age = 0 /\ shown = seen
  /\ ~Filtered => last = None
  /\ Running => shown = seen /\ (last # None => last = shown)
  /\ Running /\ setup.source \in Levels => Aged

LEMMA LevelsInit == SamplerInit => LevelsInv
BY DEF SamplerInit, LevelsInv, Phases, Early, Running

\* The cadence and the heartbeat are the same in every tick of the loop.
LEMMA SameCadence ==
  ASSUME ~Probing, ~Probing', setup' = setup
  PROVE  Cadence' = Cadence /\ Heartbeat' = Heartbeat
BY DEF Cadence, Heartbeat, EmitAll, ThermalEvery, Override, Every

\* A tick of the loop that reads the level.
LEMMA TickKeepsAge ==
  ASSUME LevelsInv, Running, NEW v \in Readings, ReadLevel(v)
  PROVE  shown' = seen' /\ (last' # None => last' = shown') /\ Aged'
<1> DEFINE C == Cadence
           H == Heartbeat
<1>1. /\ setup \in Setups /\ tick \in Nat /\ age \in Nat /\ lastTick \in 0 .. tick
      /\ tick >= 1 /\ shown = seen /\ (last # None => last = shown) /\ Aged
      /\ setup.source \in Levels /\ (~Filtered => last = None)
  BY DEF LevelsInv, Early, Running, ReadLevel
<1>2. /\ phase # "prime" /\ phase' = "running" /\ setup' = setup /\ tick' = tick + 1
      /\ ~Probing /\ ~Probing'
  BY DEF ReadLevel, AfterRead, Running, Probing
<1>3. C \in Nat \ {0} /\ H \in Nat \ {0} /\ Cadence' = C /\ Heartbeat' = H
  BY <1>1, <1>2, CadencePositive, SameCadence
<1>4. /\ seen' = IF Polled /\ v # None THEN v ELSE seen
      /\ shown' = IF Emitted(v) /\ v # None THEN v ELSE shown
      /\ age' = IF Emitted(v) \/ (Polled /\ v = None) THEN 0 ELSE age + 1
      /\ setup.source = "ceiling" => v # None
  BY DEF ReadLevel
<1>5. IF Emitted(v) /\ Filtered THEN last' = v /\ lastTick' = tick + 1
      ELSE last' = last /\ lastTick' = lastTick
  BY <1>1, <1>2 DEF ReadLevel, Remembered, Filtered
<1>6. Emitted(v) =>  Polled
  BY DEF Emitted
<1>7. setup.source # "ceiling" => (Due <=> ((tick + 1) % C) = 0)
  BY <1>1, <1>3, NextInRound DEF Due
<1>r. /\ (tick % C) \in 0 .. (C - 1) /\ ((tick + 1) % C) \in 0 .. (C - 1)
      /\ ((tick + 1) % C) = 0 \/ ((tick + 1) % C) = (tick % C) + 1
  <2>1. tick \in Nat /\ tick + 1 \in Nat
    BY <1>1
  <2>2. C \in Nat \ {0}
    BY <1>3
  <2> HIDE DEF C
  <2> QED
    BY <2>1, <2>2, NextInRound
<1>8. CASE setup.source = "thermal"
  <2>1. Polled <=> ((tick + 1) % C) = 0
    BY <1>7, <1>8 DEF Polled
  <2>2. Emitted(v) <=> Polled
    BY <1>8 DEF Emitted
  <2>3. age <= (tick % C)
    BY <1>1, <1>8 DEF Aged
  <2>4. age' <= ((tick + 1) % C)
    BY <1>1, <1>3, <1>4, <1>r, <2>1, <2>2, <2>3
  <2>5. shown' = seen' /\ last' = None
    BY <1>1, <1>4, <1>5, <1>8, <2>2 DEF Filtered
  <2> QED
    BY <1>2, <1>3, <1>8, <2>4, <2>5 DEF Aged
<1>9. CASE setup.source = "ceiling"
  <2>1. Polled <=> (tick % H) = 0
    BY <1>1, <1>3, <1>9 DEF Polled
  <2>2. (Emitted(v) <=> Polled) /\ v # None
    BY <1>4, <1>9 DEF Emitted
  <2>3. age <= ((tick - 1) % H) /\ tick - 1 \in Nat /\ (tick - 1) + 1 = tick
    BY <1>1, <1>9 DEF Aged
  <2>4. ((tick - 1) % H) \in 0 .. (H - 1) /\ (tick % H) \in 0 .. (H - 1)
        /\ (tick % H = 0 \/ (tick % H) = ((tick - 1) % H) + 1)
    BY <1>1, <1>3, <2>3, NextInRound
  <2>5. age' <= (tick % H)
    BY <1>1, <1>4, <2>1, <2>2, <2>3, <2>4
  <2>6. shown' = seen' /\ last' = None
    BY <1>1, <1>4, <1>5, <1>9, <2>2 DEF Filtered
  <2>7. tick' - 1 = tick
    BY <1>1, <1>2
  <2> QED
    BY <1>2, <1>3, <1>9, <2>5, <2>6, <2>7 DEF Aged
<1>10. CASE Filtered
  <2>1. /\ Due => Polled
        /\ Polled => Due \/ last = None
        /\ Due <=> ((tick + 1) % C) = 0
    BY <1>7, <1>10 DEF Polled, Filtered
  <2>2. /\ age <= H - 1 + (tick % C)
        /\ last # None => age <= tick - lastTick
        /\ last = None => age <= (tick % C)
    BY <1>1, <1>10 DEF Aged, Filtered
  <2>3. /\ (tick % C) \in 0 .. (C - 1) /\ ((tick + 1) % C) \in 0 .. (C - 1)
        /\ ((tick + 1) % C) = 0 \/ ((tick + 1) % C) = (tick % C) + 1
    BY <1>r
  <2>4. CASE Emitted(v)
    <3>1. age' = 0 /\ last' = v /\ lastTick' = tick + 1
      BY <1>4, <1>5, <1>10, <2>4
    <3>2. shown' = seen' /\ (last' # None => last' = shown')
      BY <1>1, <1>4, <1>6, <2>4, <3>1
    <3>3. /\ age' <= H - 1 + ((tick + 1) % C)
          /\ age' <= (tick + 1) - lastTick' /\ age' <= ((tick + 1) % C)
      BY <1>1, <1>3, <2>3, <3>1
    <3> QED
      BY <1>2, <1>3, <1>10, <3>2, <3>3 DEF Aged, Filtered
  <2>5. CASE ~Emitted(v) /\ Polled /\ v = None
    <3>1. age' = 0 /\ last' = last /\ lastTick' = lastTick
      BY <1>4, <1>5, <2>5
    <3>2. shown' = seen' /\ (last' # None => last' = shown')
      BY <1>1, <1>4, <2>5, <3>1
    <3>3. /\ age' <= H - 1 + ((tick + 1) % C)
          /\ age' <= (tick + 1) - lastTick' /\ age' <= ((tick + 1) % C)
      BY <1>1, <1>3, <2>3, <3>1
    <3> QED
      BY <1>2, <1>3, <1>10, <3>2, <3>3 DEF Aged, Filtered
  <2>6. CASE ~Emitted(v) /\ Polled /\ v # None
    <3>1. ~Carries(v)
      BY <1>10, <2>6 DEF Emitted, Filtered
    <3>2. v = last /\ (tick + 1) - lastTick < H
      BY <1>1, <1>3, <3>1 DEF Carries
    <3>3. age' = age + 1 /\ last' = last /\ lastTick' = lastTick /\ last # None
      BY <1>4, <1>5, <2>6, <3>2
    <3>4. shown' = seen' /\ (last' # None => last' = shown')
      BY <1>1, <1>4, <2>6, <3>2, <3>3
    <3>5. /\ age' <= H - 1 + ((tick + 1) % C)
          /\ age' <= (tick + 1) - lastTick'
      BY <1>1, <1>3, <2>2, <2>3, <3>2, <3>3
    <3> QED
      BY <1>2, <1>3, <1>10, <3>3, <3>4, <3>5 DEF Aged, Filtered
  <2>7. CASE ~Polled
    <3>1. age' = age + 1 /\ last' = last /\ lastTick' = lastTick
      BY <1>4, <1>5, <1>6, <2>7
    <3>2. shown' = seen' /\ (last' # None => last' = shown')
      BY <1>1, <1>4, <1>6, <2>7, <3>1
    <3>3. ((tick + 1) % C) = (tick % C) + 1
      BY <2>1, <2>3, <2>7
    <3>4. /\ age' <= H - 1 + ((tick + 1) % C)
          /\ last' # None => age' <= (tick + 1) - lastTick'
          /\ last' = None => age' <= ((tick + 1) % C)
      BY <1>1, <1>3, <2>2, <2>3, <3>1, <3>3
    <3> QED
      BY <1>2, <1>3, <1>10, <3>2, <3>4 DEF Aged, Filtered
  <2> QED
    BY <2>4, <2>5, <2>6, <2>7
<1> QED
  BY <1>1, <1>8, <1>9, <1>10 DEF Filtered

LEMMA LevelsNext ==
  EventsInv /\ LevelsInv /\ [SamplerNext]_samplerVars => LevelsInv'
<1> SUFFICES ASSUME EventsInv, LevelsInv, [SamplerNext]_samplerVars
             PROVE  LevelsInv'
  OBVIOUS
<1>1. ASSUME AfterRead, CanRead, UNCHANGED levelVars,
             setup.source \notin Levels
      PROVE  LevelsInv'
  <2>1. /\ phase' \in Phases /\ setup' = setup /\ tick' = tick + 1
        /\ UNCHANGED <<last, lastTick, seen, shown, age>>
    BY <1>1 DEF AfterRead, LevelsInv, levelVars, Phases, CanRead, Running
  <2>2. /\ setup \in Setups /\ tick \in Nat /\ age = 0 /\ shown = seen
        /\ lastTick \in 0 .. tick /\ last = None
    BY <1>1 DEF LevelsInv, Filtered
  <2> QED
    BY <1>1, <2>1, <2>2 DEF LevelsInv, Filtered
<1>2. ASSUME NEW v \in Readings, ReadLevel(v)
      PROVE  LevelsInv'
  <2>1. /\ phase' \in Phases \ {"probe", "stopped"} /\ setup' = setup
        /\ tick' = tick + 1 /\ tick \in Nat /\ tick' \in Nat /\ tick' >= 1
        /\ setup \in Setups /\ setup.source \in Levels
    BY <1>2 DEF ReadLevel, AfterRead, LevelsInv, Phases, CanRead, Running
  <2>2. /\ age' \in Nat /\ lastTick' \in 0 .. tick'
        /\ ~Filtered => last' = None
    BY <1>2, <2>1 DEF ReadLevel, LevelsInv, Remembered, Filtered
  <2>3. CASE Running
    <3>1. phase' = "running"
      BY <1>2, <2>3 DEF ReadLevel, AfterRead, Running, Probing
    <3> QED
      BY <1>2, <2>1, <2>2, <2>3, <3>1, TickKeepsAge DEF LevelsInv, Filtered, Early, Running
  <2>4. CASE Early
    <3>1. age' = 0 /\ shown' = seen'
      BY <1>2, <2>4 DEF ReadLevel, LevelsInv, Early, Running
    <3>2. Running' => phase = "prime"
      BY <1>2, <2>4 DEF ReadLevel, AfterRead, Early, Running, Probing
    <3>3. ASSUME Running' PROVE last' = None /\ lastTick' = 0 /\ Aged'
      <4>1. last' = None /\ lastTick' = 0
        BY <1>2, <3>2, <3>3 DEF ReadLevel, Remembered
      <4>2. ~Probing /\ ~Probing'
        BY <3>2, <3>3 DEF Probing, Running
      <4>3. /\ Cadence' \in Nat \ {0} /\ Heartbeat' \in Nat \ {0}
        BY <2>1, <4>2, CadencePositive, SameCadence
      <4>4. tick' \in Nat /\ tick' - 1 \in Nat
        BY <2>1
      <4>5. (tick' % Cadence') \in Nat
        BY <4>3, <4>4, InRound
      <4>6. ((tick' - 1) % Heartbeat') \in Nat
        BY <4>3, <4>4, InRound
      <4>7. /\ age' <= (tick' % Cadence') /\ age' <= ((tick' - 1) % Heartbeat')
            /\ age' <= Heartbeat' - 1 + (tick' % Cadence')
        BY <3>1, <4>3, <4>5, <4>6
      <4> QED
        BY <4>1, <4>7 DEF Aged
    <3> QED
      BY <2>1, <2>2, <3>1, <3>3 DEF LevelsInv, Filtered, Early
  <2> QED
    BY <1>2, <2>3, <2>4 DEF ReadLevel, CanRead, LevelsInv, Phases, Early, Running
<1>3. CASE Stop
  BY <1>3 DEF Stop, LevelsInv, levelVars, Phases, Early, Running, Filtered
<1>4. CASE KernelLogs \/ BeginDrain \/ Overrun \/ TakeRecord \/ UNCHANGED samplerVars
  <2>1. UNCHANGED <<setup, phase, tick>> /\ UNCHANGED levelVars
    BY <1>4 DEF KernelLogs, BeginDrain, Overrun, TakeRecord, samplerVars, levelVars
  <2> QED
    BY <2>1 DEF LevelsInv, levelVars, Early, Running, Filtered, Aged, Cadence,
       Heartbeat, EmitAll, ThermalEvery, Override, Every, Probing
<1>5. ReadNone => UNCHANGED levelVars /\ setup.source \notin Levels /\ AfterRead /\ CanRead
  BY DEF ReadNone, Levels, None
<1>6. ASSUME NEW n \in 0 .. MaxStep, NEW restarts \in BOOLEAN,
             ReadCounter(n, restarts)
      PROVE  UNCHANGED levelVars /\ setup.source \notin Levels /\ AfterRead /\ CanRead
  BY <1>6 DEF ReadCounter, Levels, Counters
<1>7. CASE CaughtUp \/ PastCap
  <2>1. UNCHANGED levelVars /\ AfterRead /\ draining
    BY <1>7 DEF CaughtUp, PastCap, EndDrain
  <2>2. CanRead /\ setup.source = "kmsg"
    BY <2>1 DEF EventsInv, DrainOK, BeforeSamples
  <2> QED
    BY <1>1, <2>1, <2>2 DEF Levels
<1> QED
  BY <1>1, <1>2, <1>3, <1>4, <1>5, <1>6, <1>7 DEF SamplerNext

LEMMA LevelsInvHolds == SamplerSpec => []LevelsInv
  BY LevelsInit, LevelsNext, EventsInit, EventsNext, PTL DEF SamplerSpec

LEMMA LevelsTold == LevelsInv => LevelsShown
<1> SUFFICES ASSUME LevelsInv, Running PROVE shown = seen /\ age <= Silence
  BY DEF LevelsShown
<1>1. /\ shown = seen /\ age \in Nat /\ tick \in Nat /\ tick - 1 \in Nat
      /\ setup \in Setups /\ ~Probing
  BY DEF LevelsInv, Running, Probing
<1>2. Cadence \in Nat \ {0} /\ Heartbeat \in Nat \ {0}
  BY <1>1, CadencePositive
<1>3. /\ (tick % Cadence) \in 0 .. (Cadence - 1)
      /\ ((tick - 1) % Heartbeat) \in 0 .. (Heartbeat - 1)
  BY <1>1, <1>2, NextInRound
<1>4. CASE setup.source \notin Levels
  <2>1. age = 0 /\ setup.source # "thermal"
    BY <1>4 DEF LevelsInv, Levels
  <2> QED
    BY <1>1, <1>2, <2>1 DEF Silence
<1>5. CASE setup.source \in Levels
  <2>1. Aged
    BY <1>5 DEF LevelsInv
  <2>2. CASE setup.source = "thermal"
    BY <1>1, <1>2, <1>3, <2>1, <2>2 DEF Aged, Silence
  <2>3. CASE setup.source = "ceiling"
    <3>1. age <= Heartbeat - 1
      BY <1>1, <1>2, <1>3, <2>1, <2>3 DEF Aged
    <3> QED
      BY <1>1, <1>2, <2>3, <3>1 DEF Silence
  <2>4. CASE setup.source \notin {"thermal", "ceiling"}
    <3>1. age <= Heartbeat - 1 + (tick % Cadence)
      BY <2>1, <2>4 DEF Aged
    <3>2. age <= Heartbeat + Cadence - 2
      BY <1>1, <1>2, <1>3, <3>1
    <3> QED
      BY <1>1, <2>4, <3>2 DEF Silence
  <2> QED
    BY <2>2, <2>3, <2>4
<1> QED
  BY <1>4, <1>5
-----------------------------------------------------------------------------
(* Counters.  The Raw that is not being filled holds the count as the last *)
(* read left it; for the hardware counters, the number of the buffer that  *)
(* does, which the next read leaves alone.                                 *)

Modular == setup.wide \/ count < Word

\* The difference of a count and the one n events later.
LEMMA DifferenceExact ==
  ASSUME count \in Nat, Modular, NEW n \in 0 .. MaxStep,
         NEW restarts \in BOOLEAN, NEW c, c = Moved(n, restarts)
  PROVE  /\ c \in Nat /\ (setup.wide \/ c < Word)
         /\ ~restarts => Sub(c, count).delta = n /\ Sub(c, count).resets = 0
         /\ restarts /\ (count < Word => count < Word - Word \div 16) =>
              Sub(c, count).delta <= n
<1> DEFINE top == Word - Word \div 16
<1>1. /\ Word \in Nat \ {0} /\ n \in Nat /\ n <= Word \div 16
      /\ Word \div 16 \in Nat /\ Word \div 16 < Word
  BY SamplerAssumption
<1>2. CASE restarts
  <2>1. c = n
    BY <1>2 DEF Moved
  <2>2. c \in Nat /\ c < Word
    BY <1>1, <2>1
  <2>3. ASSUME count < Word => count < top
        PROVE  Sub(c, count).delta <= n
    <3>1. ~IsWrap32(c, count)
      BY <1>1, <2>3 DEF IsWrap32
    <3> QED
      BY <1>1, <2>1, <3>1 DEF Sub
  <2> QED
    BY <1>2, <2>2, <2>3
<1>3. CASE ~restarts /\ (setup.wide \/ count + n < Word)
  <2>1. c = count + n
    <3>1. (count + n) % Word = count + n \/ setup.wide
      BY <1>1, <1>3, ModLow
    <3> QED
      BY <1>3, <3>1 DEF Moved
  <2>2. c >= count /\ c - count = n /\ c \in Nat
    BY <1>1, <2>1
  <2>3. Sub(c, count) = [delta |-> n, resets |-> 0]
    BY <2>2 DEF Sub
  <2> QED
    BY <1>3, <2>1, <2>2, <2>3
<1>4. CASE ~restarts /\ ~setup.wide /\ Word <= count + n
  <2>1. count < Word
    BY <1>4 DEF Modular
  <2>2. (count + n) % Word = (count + n) - Word
    <3>1. count + n \in Nat /\ Word <= count + n /\ count + n < 2 * Word
      BY <1>1, <1>4, <2>1
    <3> QED
      BY <1>1, <3>1, ModHigh
  <2>3. c = (count + n) - Word
    BY <1>4, <2>2 DEF Moved
  <2>4. /\ c \in Nat /\ c < Word /\ ~(c >= count)
        /\ count >= top /\ c < Word \div 16
        /\ c + (Word - count) = n
    BY <1>1, <1>4, <2>1, <2>3
  <2>5. IsWrap32(c, count)
    BY <2>1, <2>4 DEF IsWrap32
  <2>6. Sub(c, count) = [delta |-> n, resets |-> 0]
    BY <2>4, <2>5 DEF Sub
  <2> QED
    BY <1>4, <2>4, <2>6
<1> QED
  BY <1>1, <1>2, <1>3, <1>4

RawRecord == [has : BOOLEAN, ok : BOOLEAN, value : Nat]

\* The Raw of the last read holds the count.
Primed ==
  LET r == raw[1 - cur]
  IN  /\ setup.source = "perf" =>
           r.value = perfTick /\ perfBuf[perfTick] = count
      /\ setup.source # "perf" /\ r.ok => r.value = count

CountersInv ==
  /\ setup \in Setups /\ phase \in Phases /\ cur \in 0 .. 1
  /\ count \in Nat /\ Modular
  /\ raw \in [0 .. 1 -> RawRecord]
  /\ perfTick \in 0 .. 1 /\ perfBuf \in [0 .. 1 -> Nat]
  /\ Running /\ setup.source \in Counters => Primed
  /\ Early \/ setup.source \notin Counters => sample = NoSample
  /\ DeltasTrue

LEMMA CountersInit == SamplerInit => CountersInv
<1> SUFFICES ASSUME SamplerInit PROVE CountersInv
  OBVIOUS
<1>1. /\ setup \in Setups /\ phase = "probe" /\ cur = 0 /\ perfTick = 0
      /\ raw = [i \in 0 .. 1 |-> NoRead] /\ perfBuf = [i \in 0 .. 1 |-> 0]
      /\ sample = NoSample
  BY DEF SamplerInit
<1>2. count \in Nat /\ Modular
  <2>1. CASE setup.source \in Counters
    BY <2>1, SamplerAssumption DEF SamplerInit, Modular
  <2>2. CASE setup.source \notin Counters
    <3>1. count = 0
      BY <2>2 DEF SamplerInit
    <3>2. 0 < Word
      BY SamplerAssumption
    <3> QED
      BY <3>1, <3>2 DEF Modular
  <2> QED
    BY <2>1, <2>2
<1>3. raw \in [0 .. 1 -> RawRecord] /\ perfBuf \in [0 .. 1 -> Nat]
  BY <1>1 DEF NoRead, RawRecord
<1> QED
  BY <1>1, <1>2, <1>3 DEF CountersInv, Phases, Running, DeltasTrue

\* A read of the counter.
LEMMA CounterKeeps ==
  ASSUME CountersInv, NEW n \in 0 .. MaxStep, NEW restarts \in BOOLEAN,
         ReadCounter(n, restarts)
  PROVE  CountersInv'
<1> DEFINE b == NextBuffer
<1>1. /\ setup \in Setups /\ phase \in Phases /\ cur \in 0 .. 1
      /\ count \in Nat /\ Modular /\ raw \in [0 .. 1 -> RawRecord]
      /\ perfTick \in 0 .. 1 /\ perfBuf \in [0 .. 1 -> Nat]
      /\ setup.source \in Counters
  BY DEF CountersInv, ReadCounter
<1>2. /\ setup' = setup /\ cur' = IF Probing THEN cur ELSE 1 - cur
      /\ phase' \in Phases \ {"probe", "stopped"}
      /\ Probing => phase' # "running"
      /\ count' = Moved(n, restarts)
      /\ perfTick' = IF setup.source = "perf" THEN b ELSE perfTick
      /\ perfBuf' = IF setup.source = "perf"
                    THEN [perfBuf EXCEPT ![b] = count'] ELSE perfBuf
  BY <1>1 DEF ReadCounter, AfterRead, Phases, Probing, CanRead
<1>3. b \in 0 .. 1 /\ (phase # "probe" => b = 1 - perfTick)
  BY <1>1 DEF NextBuffer
<1>4. PICK o \in Outcomes :
        LET r == RawOf(count', o.has, o.ok)
            p == raw[1 - cur]
            d == DeltaOf(p, r, perfBuf')
        IN  /\ raw' = IF Probing THEN raw ELSE [raw EXCEPT ![cur] = r]
            /\ sample' = IF Running
                         THEN [carried |-> d.carried, delta |-> d.delta,
                               resets |-> d.resets, happened |-> n,
                               restarted |-> restarts, before |-> count,
                               both |-> p.ok /\ o.ok /\ o.has /\ p.has]
                         ELSE sample
  BY DEF ReadCounter
<1> DEFINE r == RawOf(count', o.has, o.ok)
           p == raw[1 - cur]
           d == DeltaOf(p, r, perfBuf')
<1>5. o.has \in BOOLEAN /\ o.ok \in BOOLEAN
  <2>1. CASE setup.source = "stat"
    <3>1. o = [has |-> TRUE, ok |-> TRUE]
      BY <2>1 DEF Outcomes
    <3> QED
      BY <3>1
  <2>2. CASE setup.source = "perf"
    <3>1. o = [has |-> phase # "probe", ok |-> phase # "probe"]
      BY <2>2 DEF Outcomes
    <3>2. (phase # "probe") \in BOOLEAN
      OBVIOUS
    <3> QED
      BY <3>1, <3>2
  <2>3. CASE setup.source \notin {"stat", "perf"}
    <3>1. o \in [has : BOOLEAN, ok : BOOLEAN]
      BY <2>3 DEF Outcomes
    <3> QED
      BY <3>1
  <2> QED
    BY <2>1, <2>2, <2>3
<1>6. /\ count' \in Nat /\ Modular'
      /\ ~restarts => Sub(count', count).delta = n /\ Sub(count', count).resets = 0
      /\ restarts /\ (count < Word => count < Word - Word \div 16) =>
           Sub(count', count).delta <= n
  BY <1>1, <1>2, DifferenceExact DEF Modular
<1>7. perfTick' \in 0 .. 1 /\ perfBuf' \in [0 .. 1 -> Nat]
  BY <1>1, <1>2, <1>3, <1>6
<1>8. r \in RawRecord /\ (setup.source = "perf" => r.value = b)
      /\ (setup.source # "perf" /\ r.ok => r.value = count')
      /\ r.has = o.has /\ r.ok = o.ok
  BY <1>3, <1>5, <1>6 DEF RawOf, RawRecord
<1> HIDE DEF b
<1>9. raw' \in [0 .. 1 -> RawRecord] /\ (~Probing => raw'[1 - cur'] = r)
  <2>1. raw' = IF Probing THEN raw ELSE [raw EXCEPT ![cur] = r]
    BY <1>4
  <2> HIDE DEF r
  <2>2. ~Probing => 1 - cur' = cur
    BY <1>1, <1>2
  <2> QED
    BY <1>1, <1>8, <2>1, <2>2
<1> HIDE DEF r
<1>10. Running' => Primed'
  <2>1. SUFFICES ASSUME Running' PROVE Primed'
    OBVIOUS
  <2>2. ~Probing /\ raw'[1 - cur'] = r
    BY <1>2, <1>9, <2>1 DEF Running
  <2>3. setup.source = "perf" => perfTick' = b /\ perfBuf'[b] = count'
    BY <1>1, <1>2, <1>3, <1>6
  <2> QED
    BY <1>2, <1>8, <2>2, <2>3 DEF Primed
<1>11. Early' => sample' = NoSample
  <2>1. SUFFICES ASSUME Early' PROVE sample' = NoSample
    OBVIOUS
  <2>2. Early
    BY <1>1, <2>1 DEF ReadCounter, AfterRead, Early, Probing, CanRead, Phases
  <2> QED
    BY <1>4, <2>2 DEF CountersInv, Early, Running
<1>12. DeltasTrue'
  <2>1. CASE ~Running
    <3>1. sample' = sample
      BY <1>4, <2>1
    <3>2. Early
      BY <1>1, <2>1 DEF ReadCounter, CanRead, Phases, Running, Early
    <3>3. sample' = NoSample
      BY <3>1, <3>2 DEF CountersInv
    <3> QED
      BY <3>3 DEF DeltasTrue, NoSample
  <2>2. CASE Running
    <3> DEFINE D == Sub(count', count)
    <3>1. sample' = [carried |-> d.carried, delta |-> d.delta,
                     resets |-> d.resets, happened |-> n,
                     restarted |-> restarts, before |-> count,
                     both |-> p.ok /\ o.ok /\ o.has /\ p.has]
      BY <1>4, <2>2 DEF r
    <3> HIDE DEF d, p
    <3>2. SUFFICES ASSUME p.ok, r.ok, r.has, p.has
                   PROVE  /\ d.carried \/ n = 0 \/ restarts
                          /\ d.carried /\ ~restarts => d.delta = n /\ d.resets = 0
                          /\ restarts /\ ~Ambiguous' => d.delta <= n
      <4>1. /\ sample'.both = (p.ok /\ o.ok /\ o.has /\ p.has)
            /\ sample'.carried = d.carried /\ sample'.happened = n
            /\ sample'.restarted = restarts /\ sample'.delta = d.delta
            /\ sample'.resets = d.resets
        BY <3>1
      <4> QED
        BY <1>8, <4>1 DEF DeltasTrue
    <3>3. CountIn(r, perfBuf') = count'
      <4>1. CASE setup.source = "perf"
        BY <1>1, <1>2, <1>3, <1>6, <1>8, <4>1 DEF CountIn
      <4>2. CASE setup.source # "perf"
        BY <1>8, <3>2, <4>2 DEF CountIn
      <4> QED
        BY <4>1, <4>2
    <3>4. CountIn(p, perfBuf') = count
      <4>0. Primed
        BY <1>1, <2>2 DEF CountersInv
      <4>1. CASE setup.source = "perf"
        <5>1. p.value = perfTick /\ perfBuf[perfTick] = count
          BY <4>0, <4>1 DEF Primed, p
        <5>2. b # perfTick
          BY <1>1, <1>3, <2>2 DEF Running
        <5>3. perfBuf'[perfTick] = perfBuf[perfTick]
          BY <1>1, <1>2, <1>3, <4>1, <5>2
        <5> QED
          BY <4>1, <5>1, <5>3 DEF CountIn
      <4>2. CASE setup.source # "perf"
        BY <3>2, <4>0, <4>2 DEF CountIn, Primed, p
      <4> QED
        BY <4>1, <4>2
    <3>5. Difference(p, r, perfBuf') = D
      BY <3>3, <3>4 DEF Difference
    <3>6. d = IF RowKept(D)
              THEN [carried |-> TRUE, delta |-> D.delta, resets |-> D.resets]
              ELSE [carried |-> FALSE, delta |-> 0, resets |-> 0]
      BY <3>2, <3>5 DEF d, DeltaOf
    <3>7. ~RowKept(D) => D.delta = 0
      BY DEF RowKept
    <3>8. Ambiguous' <=> count < Word /\ count >= Word - Word \div 16
      <4>1. sample'.before = count
        BY <3>1
      <4> QED
        BY <4>1 DEF Ambiguous
    <3>9. restarts /\ ~Ambiguous' => D.delta <= n
      <4>1. count \in Nat /\ Word - Word \div 16 \in Int
        BY <1>1, SamplerAssumption
      <4> QED
        BY <1>6, <3>8, <4>1
    <3>10. CASE RowKept(D)
      <4>1. d.carried /\ d.delta = D.delta /\ d.resets = D.resets
        BY <3>6, <3>10
      <4> QED
        BY <1>6, <3>9, <4>1
    <3>11. CASE ~RowKept(D)
      <4>1. ~d.carried /\ d.delta = 0 /\ D.delta = 0
        BY <3>6, <3>7, <3>11
      <4>2. n \in Nat
        BY SamplerAssumption
      <4> QED
        BY <1>6, <4>1, <4>2
    <3> QED
      BY <3>10, <3>11
  <2> QED
    BY <2>1, <2>2
<1> QED
  BY <1>1, <1>2, <1>6, <1>7, <1>9, <1>10, <1>11, <1>12 DEF CountersInv

LEMMA CountersNext ==
  EventsInv /\ CountersInv /\ [SamplerNext]_samplerVars => CountersInv'
<1> SUFFICES ASSUME EventsInv, CountersInv, [SamplerNext]_samplerVars
             PROVE  CountersInv'
  OBVIOUS
<1>1. ASSUME AfterRead, CanRead, UNCHANGED counterVars,
             setup.source \notin Counters
      PROVE  CountersInv'
  <2>1. /\ phase' \in Phases /\ setup' = setup /\ cur' \in 0 .. 1
        /\ UNCHANGED <<count, raw, perfBuf, perfTick, sample>>
    BY <1>1 DEF AfterRead, CountersInv, counterVars, Phases, CanRead, Running
  <2>2. sample = NoSample
    BY <1>1 DEF CountersInv
  <2>3. DeltasTrue'
    BY <2>1, <2>2 DEF DeltasTrue, NoSample
  <2> QED
    BY <1>1, <2>1, <2>2, <2>3 DEF CountersInv, Modular
<1>2. ASSUME NEW n \in 0 .. MaxStep, NEW restarts \in BOOLEAN,
             ReadCounter(n, restarts)
      PROVE  CountersInv'
  BY <1>2, CounterKeeps
<1>3. CASE Stop \/ KernelLogs \/ BeginDrain \/ Overrun \/ TakeRecord
           \/ UNCHANGED samplerVars
  <2>1. /\ UNCHANGED <<setup, cur, count, raw, perfBuf, perfTick, sample>>
        /\ phase' = phase \/ phase' = "stopped"
    BY <1>3 DEF Stop, KernelLogs, BeginDrain, Overrun, TakeRecord, samplerVars, counterVars
  <2>2. DeltasTrue' /\ (Running' => Running) /\ (Early' => Early)
    BY <2>1 DEF CountersInv, DeltasTrue, Running, Early, Ambiguous
  <2> QED
    BY <2>1, <2>2 DEF CountersInv, Modular, Phases, Primed
<1>4. ReadNone => UNCHANGED counterVars /\ setup.source \notin Counters /\ AfterRead /\ CanRead
  BY DEF ReadNone, Counters, None
<1>5. ASSUME NEW v \in Readings, ReadLevel(v)
      PROVE  UNCHANGED counterVars /\ setup.source \notin Counters /\ AfterRead /\ CanRead
  BY <1>5 DEF ReadLevel, Levels, Counters
<1>6. CASE CaughtUp \/ PastCap
  <2>1. UNCHANGED counterVars /\ AfterRead /\ draining
    BY <1>6 DEF CaughtUp, PastCap, EndDrain
  <2>2. CanRead /\ setup.source = "kmsg"
    BY <2>1 DEF EventsInv, DrainOK, BeforeSamples
  <2> QED
    BY <1>1, <2>1, <2>2 DEF Counters
<1> QED
  BY <1>1, <1>2, <1>3, <1>4, <1>5, <1>6 DEF SamplerNext

\* A sample says what was read: the filters drop no change, every level is
\* told again within a heartbeat, and a difference is the events between its
\* two reads, across a wrap and a restart too, for every rate, cadence and
\* width (discovered.go's ReArm and filters, sample.go's Delta).
THEOREM SamplesAreTruthful == SamplerSpec => []SamplesTruthful
<1>1. SamplerSpec => []CountersInv
  BY CountersInit, CountersNext, EventsInit, EventsNext, PTL DEF SamplerSpec
<1>2. CountersInv => DeltasTrue
  BY DEF CountersInv
<1>3. LevelsShown /\ DeltasTrue => SamplesTruthful
  BY DEF SamplesTruthful
<1> QED
  BY <1>1, <1>2, <1>3, LevelsInvHolds, LevelsTold, PTL
-----------------------------------------------------------------------------
(* The types of the variables: the reads made tell where the sampler is,   *)
(* the reader of the kernel's log is never ahead of it, and no Raw holds a  *)
(* count of drops above the reader's.                                       *)

ReadsBefore == IF setup.perf THEN 3 ELSE 2

Progress ==
  /\ tick \in Nat /\ ring.last <= setup.samples
  /\ phase = "probe" => tick = 0
  /\ phase = "second" => tick = 1 /\ setup.perf
  /\ phase = "prime" => tick = ReadsBefore - 1
  /\ Running => tick = ring.last + ReadsBefore
  /\ phase = "stopped" => tick <= MaxSeq + 3

KmsgBounds ==
  /\ logged <= MaxLogged /\ pos <= logged + 1
  /\ Len(took) <= PerTick
  /\ \A n \in 0 .. 1 : rawDropped[n] <= dropped
  /\ events = [records |-> events.records, dropped |-> events.dropped]

TypesInv ==
  /\ RingOK(ring) /\ Progress /\ KmsgBounds
  /\ {last, seen, shown} \subseteq Readings

AllInv == EventsInv /\ LevelsInv /\ CountersInv

LEMMA AllInvHolds == SamplerSpec => []AllInv
<1>1. AllInv /\ [SamplerNext]_samplerVars => AllInv'
  BY EventsNext, LevelsNext, CountersNext DEF AllInv
<1>2. SamplerInit => AllInv
  BY EventsInit, LevelsInit, CountersInit DEF AllInv
<1> QED
  BY <1>1, <1>2, PTL DEF SamplerSpec

\* The agents of the bounds.
LEMMA SetupBounds ==
  ASSUME NEW a \in Setups
  PROVE  a.samples \in 0 .. MaxSeq /\ a.perf \in BOOLEAN /\ a.capacity \in Int
BY SamplerAssumption DEF SetupRecord

LEMMA TypesInit == SamplerInit => TypesInv
<1> SUFFICES ASSUME SamplerInit PROVE TypesInv
  OBVIOUS
<1>1. setup \in Setups /\ ring = NewRing(setup.capacity)
  BY DEF SamplerInit
<1>2. RingOK(ring)
  BY <1>1, SetupBounds, NewKeeps
<1>3. ring.last = 0
  BY <1>1 DEF NewRing
<1>4. Progress
  <2>1. phase = "probe" /\ tick = 0
    BY DEF SamplerInit
  <2> QED BY <1>1, <1>3, <2>1, SetupBounds DEF Progress, Running
<1>5. KmsgBounds
  <2>1. logged = 0 /\ pos = 1 /\ took = <<>> /\ dropped = 0
        /\ rawDropped = [n \in 0 .. 1 |-> 0]
        /\ events = [records |-> <<>>, dropped |-> 0]
    BY DEF SamplerInit, NoEvents
  <2>2. Len(<<>>) = 0
    OBVIOUS
  <2> QED BY <2>1, <2>2, SamplerAssumption DEF KmsgBounds
<1>6. {last, seen, shown} \subseteq Readings
  BY DEF SamplerInit, Readings
<1> QED
  BY <1>2, <1>4, <1>5, <1>6 DEF TypesInv

\* A read moves the reads and the samples on together.
LEMMA ProgressReads ==
  ASSUME AllInv, TypesInv, AfterRead, CanRead
  PROVE  Progress'
<1>1. /\ setup \in Setups /\ setup' = setup /\ phase \in Phases /\ phase # "stopped"
      /\ tick' = tick + 1 /\ tick \in Nat
      /\ ring.last \in Nat /\ ring.last < setup.samples
      /\ setup.samples \in 0 .. MaxSeq
  BY SetupBounds DEF AllInv, LevelsInv, EventsInv, ReaderOK, AfterRead, CanRead
<1>2. Early => ring.last = 0
  BY DEF AllInv, EventsInv, BeforeSamples, Early
<1>3. ring'.last = IF Running THEN ring.last + 1 ELSE ring.last
  BY DEF AfterRead, PushTo
<1>4. phase' = IF phase = "probe" /\ setup.perf THEN "second"
               ELSE IF Probing THEN "prime" ELSE "running"
  BY DEF AfterRead
<1>5. ReadsBefore' = ReadsBefore
  BY <1>1 DEF ReadsBefore
<1> QED
  BY <1>1, <1>2, <1>3, <1>4, <1>5
  DEF TypesInv, Progress, ReadsBefore, Running, Probing, Early, Phases

\* A step that reads nothing: the sampler stops, or nothing of it moves.
LEMMA ProgressStays ==
  ASSUME AllInv, TypesInv, UNCHANGED <<ring, setup, tick>>,
         phase' = phase \/ phase' = "stopped"
  PROVE  RingOK(ring)' /\ Progress'
<1>1. tick <= MaxSeq + 3
  <2>1. /\ phase \in Phases /\ setup.samples \in 0 .. MaxSeq /\ ring.last \in Nat
        /\ MaxSeq \in Nat
    BY SetupBounds, SamplerAssumption DEF AllInv, LevelsInv, EventsInv, ReaderOK
  <2> QED BY <2>1 DEF TypesInv, Progress, ReadsBefore, Running, Phases
<1> QED
  BY <1>1 DEF TypesInv, Progress, ReadsBefore, Running

\* What the reader of the kernel's log does to its counts.
LEMMA KmsgStep ==
  ASSUME AllInv, TypesInv,
         KernelLogs \/ BeginDrain \/ Overrun \/ TakeRecord \/ CaughtUp \/ PastCap
  PROVE  KmsgBounds'
<1>1. /\ logged \in Nat /\ pos \in Nat \ {0} /\ took \in Seq(Nat) /\ dropped \in Nat
      /\ cur \in 0 .. 1 /\ rawDropped \in [0 .. 1 -> Nat]
      /\ logged <= MaxLogged /\ pos <= logged + 1 /\ Len(took) <= PerTick
      /\ \A n \in 0 .. 1 : rawDropped[n] <= dropped
      /\ events = [records |-> events.records, dropped |-> events.dropped]
  BY DEF AllInv, EventsInv, ReaderOK, TypesInv, KmsgBounds
<1>2. MaxLogged \in Nat /\ PerTick \in Nat \ {0} /\ LogSize \in Nat \ {0}
  BY SamplerAssumption
<1>3. CASE KernelLogs
  BY <1>1, <1>2, <1>3 DEF KernelLogs, KmsgBounds
<1>4. CASE BeginDrain
  <2>1. took' = <<>> /\ UNCHANGED <<logged, pos, dropped, rawDropped, events>>
    BY <1>4 DEF BeginDrain
  <2>2. Len(took') = 0
    BY <2>1
  <2> QED BY <1>1, <1>2, <2>1, <2>2 DEF KmsgBounds
<1>5. CASE Overrun
  <2>1. /\ pos' = Oldest /\ dropped' = dropped + 1 /\ pos < Oldest
        /\ UNCHANGED <<logged, took, rawDropped, events>>
    BY <1>5 DEF Overrun
  <2>2. Oldest <= logged + 1
    BY <1>1, <1>2 DEF Oldest
  <2> QED BY <1>1, <1>2, <2>1, <2>2 DEF KmsgBounds
<1>6. CASE TakeRecord
  <2>1. /\ took' = Append(took, pos) /\ pos' = pos + 1 /\ pos <= logged
        /\ Len(took) < PerTick /\ UNCHANGED <<logged, dropped, rawDropped, events>>
    BY <1>6 DEF TakeRecord
  <2>2. Len(took') = Len(took) + 1
    BY <1>1, <2>1, AppendShape
  <2> QED BY <1>1, <1>2, <2>1, <2>2 DEF KmsgBounds
<1>7. ASSUME NEW d \in Nat, EndDrain(d), dropped <= d, pos' <= logged + 1
      PROVE  KmsgBounds'
  <2>1. /\ rawDropped' = IF Probing THEN rawDropped ELSE [rawDropped EXCEPT ![cur] = d]
        /\ took' = <<>> /\ dropped' = d /\ logged' = logged
        /\ events' = IF Running
                     THEN [records |-> took, dropped |-> Sub(d, rawDropped[1 - cur]).delta]
                     ELSE events
    BY <1>7 DEF EndDrain
  <2>4. events' = [records |-> events'.records, dropped |-> events'.dropped]
    BY <1>1, <2>1
  <2>2. \A n \in 0 .. 1 : rawDropped'[n] <= d
    <3>1. \A n \in 0 .. 1 : rawDropped'[n] \in {rawDropped[n], d}
      BY <1>1, <2>1
    <3> QED BY <1>1, <1>7, <3>1
  <2>3. Len(took') = 0
    BY <2>1
  <2> QED BY <1>1, <1>2, <1>7, <2>1, <2>2, <2>3, <2>4 DEF KmsgBounds
<1>8. CASE CaughtUp
  BY <1>1, <1>7, <1>8 DEF CaughtUp
<1>9. CASE PastCap
  BY <1>1, <1>7, <1>9 DEF PastCap
<1> QED
  BY <1>3, <1>4, <1>5, <1>6, <1>8, <1>9

LEMMA TypesNext == AllInv /\ TypesInv /\ [SamplerNext]_samplerVars => TypesInv'
<1> SUFFICES ASSUME AllInv, TypesInv, [SamplerNext]_samplerVars PROVE TypesInv'
  OBVIOUS
<1>1. RingOK(ring)'
  BY SampleOrNot, PushKeeps DEF RingOK, TypesInv
<1>2. UNCHANGED kmsgVars => KmsgBounds'
  BY DEF kmsgVars, KmsgBounds, TypesInv
<1>3. UNCHANGED levelVars => ({last, seen, shown} \subseteq Readings)'
  BY DEF levelVars, TypesInv, Readings
<1>4. CASE Stop \/ UNCHANGED samplerVars
  <2>1. /\ UNCHANGED <<ring, setup, tick>> /\ UNCHANGED levelVars /\ UNCHANGED kmsgVars
        /\ phase' = phase \/ phase' = "stopped"
    BY <1>4 DEF Stop, samplerVars
  <2> QED BY <1>1, <1>2, <1>3, <2>1, ProgressStays DEF TypesInv
<1>5. CASE ReadNone
  BY <1>1, <1>2, <1>3, <1>5, ProgressReads DEF ReadNone, TypesInv
<1>6. ASSUME NEW v \in Readings, ReadLevel(v) PROVE TypesInv'
  <2>1. CanRead /\ AfterRead /\ UNCHANGED kmsgVars
    BY <1>6 DEF ReadLevel
  <2>2. last' \in {None, v, last} /\ seen' \in {v, seen} /\ shown' \in {v, shown}
    BY <1>6 DEF ReadLevel, Remembered
  <2>3. ({last, seen, shown} \subseteq Readings)'
    BY <2>2 DEF TypesInv, Readings
  <2> QED BY <1>1, <1>2, <2>1, <2>3, ProgressReads DEF TypesInv
<1>7. ASSUME NEW n \in 0 .. MaxStep, NEW restarts \in BOOLEAN,
             ReadCounter(n, restarts)
      PROVE  TypesInv'
  <2>1. CanRead /\ AfterRead /\ UNCHANGED kmsgVars /\ UNCHANGED levelVars
    BY <1>7 DEF ReadCounter
  <2> QED BY <1>1, <1>2, <1>3, <2>1, ProgressReads DEF TypesInv
<1>8. CASE KernelLogs \/ BeginDrain \/ Overrun \/ TakeRecord
  <2>1. UNCHANGED <<ring, setup, tick, phase>> /\ UNCHANGED levelVars
    BY <1>8 DEF KernelLogs, BeginDrain, Overrun, TakeRecord
  <2> QED BY <1>1, <1>3, <1>8, <2>1, ProgressStays, KmsgStep DEF TypesInv
<1>9. CASE CaughtUp \/ PastCap
  <2>1. AfterRead /\ UNCHANGED levelVars /\ draining
    BY <1>9 DEF CaughtUp, PastCap, EndDrain
  <2>2. CanRead
    BY <2>1 DEF AllInv, EventsInv, DrainOK
  <2> QED BY <1>1, <1>3, <1>9, <2>1, <2>2, ProgressReads, KmsgStep DEF TypesInv
<1> QED
  BY <1>4, <1>5, <1>6, <1>7, <1>8, <1>9 DEF SamplerNext

LEMMA TypesTold == AllInv /\ TypesInv => TypeOK
<1> SUFFICES ASSUME AllInv, TypesInv PROVE TypeOK
  OBVIOUS
<1>1. /\ setup \in Setups /\ phase \in Phases /\ setup.samples \in 0 .. MaxSeq
      /\ MaxSeq \in Nat /\ MaxLogged \in Nat
  BY SetupBounds, SamplerAssumption DEF AllInv, LevelsInv
<1>2. /\ tick \in 0 .. (MaxSeq + 3)
      /\ Running => tick = ring.last + (IF setup.perf THEN 3 ELSE 2)
  <2>1. ring.last \in Nat
    BY DEF AllInv, EventsInv, ReaderOK
  <2> QED BY <1>1, <2>1 DEF TypesInv, Progress, ReadsBefore, Running, Phases
<1>3. {last, seen, shown} \subseteq Readings /\ lastTick \in 0 .. tick /\ age \in Nat
  BY DEF AllInv, LevelsInv, TypesInv
<1>4. count \in Nat /\ (setup.wide \/ count < Word)
  BY DEF AllInv, CountersInv, Modular
<1>5. \A n \in 0 .. 1 : /\ raw[n] \in [has : BOOLEAN, ok : BOOLEAN, value : Nat]
                         /\ perfBuf[n] \in Nat /\ rawDropped[n] \in 0 .. dropped
  BY DEF AllInv, CountersInv, RawRecord, EventsInv, ReaderOK, TypesInv, KmsgBounds
<1>6. /\ logged \in 0 .. MaxLogged /\ pos \in 1 .. (MaxLogged + 1) /\ from \in 1 .. pos
      /\ draining \in BOOLEAN /\ took \in Seq(Nat) /\ Len(took) <= PerTick
      /\ dropped \in Nat /\ cur \in 0 .. 1
  BY <1>1 DEF AllInv, EventsInv, ReaderOK, TypesInv, KmsgBounds
<1>7. events \in EventRecord
  <2>1. events = [records |-> events.records, dropped |-> events.dropped]
    BY DEF TypesInv, KmsgBounds
  <2> QED BY <2>1 DEF AllInv, EventsInv, ReaderOK, EventRecord
<1>8. RingOK(ring)
  BY DEF TypesInv
<1> QED
  BY <1>1, <1>2, <1>3, <1>4, <1>5, <1>6, <1>7, <1>8 DEF TypeOK, Phases

\* The fields of the sampler, its sources and its ring keep their ranges: the
\* reads made are the samples in the ring and the two or three before them,
\* a narrow counter stays below its width, and the reader of the kernel's log
\* takes at most its cap at a tick and is never ahead of the log
\* (sampler.go, Run; kmsg_linux.go).
THEOREM SamplerTypes == SamplerSpec => []TypeOK
<1>1. SamplerSpec => []TypesInv
  BY AllInvHolds, TypesInit, TypesNext, PTL DEF SamplerSpec
<1> QED
  BY <1>1, AllInvHolds, TypesTold, PTL
=============================================================================
