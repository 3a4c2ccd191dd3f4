------------------------------ MODULE Sampler ------------------------------
(***************************************************************************)
(* The agent's sampler (internal/agent/sampler.go) over its sources        *)
(* (source.go, discovered.go, kmsg_linux.go) and the differencing of two   *)
(* reads (internal/sample/sample.go): one or two probe reads, a read that  *)
(* primes the differences, then one sample a tick, pushed to the ring.     *)
(*                                                                         *)
(* A read fills every source in turn and no source looks at another, so a  *)
(* behaviour follows one of them:                                          *)
(*   levels    a value, carried on a cadence, on a change, on a heartbeat  *)
(*   counters  a count, differenced between two consecutive reads          *)
(*   "kmsg"    the kernel's log, drained record by record while it grows   *)
(*   "none"    nothing: the ring alone                                     *)
(* What the files hold is chosen freely at each read; a read may fail.     *)
(* This is who pushes to the ring.                                         *)
(***************************************************************************)
EXTENDS Ring

CONSTANTS
  MaxSeq,            \* bound: samples of a behaviour
  Setups,            \* the agents: see SetupRecord
  RateHz,            \* the sampler's rate
  SlabFloorHz,       \* slabFloorHz
  ThermalHz,         \* the polling cadence the device declares, 0 for none
  HeartbeatSeconds,  \* heartbeatSecond
  MtdSeconds,        \* mtdEverySeconds
  Values,            \* the readings of a level
  Counts,            \* where a counter may stand when the agent starts
  Word,              \* 2^32, a multiple of 16
  MaxStep,           \* bound: events between two reads
  PerTick,           \* maxKmsgPerTick
  LogSize,           \* records the kernel keeps
  MaxLogged          \* bound: records the kernel logs

Levels == {"thermal", "freq", "slab", "buddy", "mtd", "ceiling"}
Counters == {"stat", "psi", "flash", "perf", "self"}
None == "none"

\* perf: the CPU has hardware counters, so a second probe read is made;
\* wide: the counter has 64 bits; floorHz: FLOOR_HZ, 0 when not set; samples
\* bounds the behaviour.
SetupRecord ==
  [source : Levels \cup Counters \cup {"kmsg", None}, capacity : Int,
   floorHz : Nat, perf : BOOLEAN, wide : BOOLEAN, samples : 0 .. MaxSeq]

ASSUME SamplerAssumption ==
  /\ MaxSeq \in Nat
  /\ Setups \subseteq SetupRecord
  /\ \A a \in Setups : a.source = "perf" => a.perf
  /\ RateHz \in Nat \ {0} /\ SlabFloorHz \in Nat \ {0} /\ ThermalHz \in Nat
  /\ HeartbeatSeconds \in Nat \ {0} /\ MtdSeconds \in Nat \ {0}
  /\ Counts \subseteq Nat /\ Word \in Nat \ {0} /\ Word % 16 = 0
  /\ MaxStep \in 0 .. (Word \div 16)
  /\ PerTick \in Nat \ {0} /\ LogSize \in Nat \ {0} /\ MaxLogged \in Nat

VARIABLES
  ring,      \* the agent's ring
  setup,     \* fixed at the start
  phase,     \* which read comes next
  \* a level
  tick,      \* reads made
  last,      \* lastFreqEmit and its like: what was carried last
  lastTick,  \* and at which tick
  seen,      \* history: the newest value read for a sample
  shown,     \* history: the newest value a sample carried
  age,       \* history: samples since it did, or since a read failed
  \* a counter
  count,     \* what the kernel has
  raw,       \* the sampler's two reads, prev and cur
  cur,       \* which of them is filled next
  perfBuf, perfTick,  \* the two buffers of the hardware counters
  sample,    \* the newest sample's difference, and the truth about it
  \* the kernel's log
  logged,    \* records logged
  pos,       \* the next record the reader will be given
  draining,  \* a drain is in progress
  took,      \* the records it got
  dropped,   \* the reader's count of records lost
  rawDropped,  \* that count at the two reads
  from,      \* history: pos when the newest drain began
  events     \* the newest sample's records and drops

levelVars == <<last, lastTick, seen, shown, age>>
counterVars == <<count, raw, perfBuf, perfTick, sample>>
kmsgVars ==
  <<logged, pos, draining, took, dropped, rawDropped, from, events>>
samplerVars == <<ring, setup, phase, tick, cur, levelVars, counterVars, kmsgVars>>

NoSample == [carried |-> FALSE, delta |-> 0, resets |-> 0, happened |-> 0,
             restarted |-> FALSE, before |-> 0, both |-> TRUE]
NoRead == [has |-> FALSE, ok |-> FALSE, value |-> 0]
NoEvents == [records |-> <<>>, dropped |-> 0]

SamplerInit ==
  /\ setup \in Setups /\ ring = NewRing(setup.capacity)
  /\ phase = "probe" /\ tick = 0 /\ cur = 0
  /\ last = None /\ lastTick = 0 /\ seen = None /\ shown = None /\ age = 0
  /\ IF setup.source \in Counters
     THEN count \in {c \in Counts : setup.wide \/ c < Word} ELSE count = 0
  /\ raw = [i \in 0 .. 1 |-> NoRead]
  /\ perfBuf = [i \in 0 .. 1 |-> 0] /\ perfTick = 0 /\ sample = NoSample
  /\ logged = 0 /\ pos = 1 /\ draining = FALSE /\ took = <<>> /\ from = 1
  /\ dropped = 0 /\ rawDropped = [i \in 0 .. 1 |-> 0] /\ events = NoEvents
-----------------------------------------------------------------------------
(* The order of the reads.                                                 *)

Probing == phase \in {"probe", "second"}
Running == phase = "running"

\* The end of a read: the probes of NewProcSource fill a Raw that is thrown
\* away, the first read of Run fills prev, and from then on a sample is made
\* of the two and prev and cur change places.
AfterRead ==
  /\ phase' = IF phase = "probe" /\ setup.perf THEN "second"
              ELSE IF Probing THEN "prime" ELSE "running"
  /\ cur' = IF Probing THEN cur ELSE 1 - cur
  /\ ring' = IF Running THEN PushTo(ring, ring.last + 1) ELSE ring
  /\ tick' = tick + 1
  /\ UNCHANGED setup

\* Another read is due.
CanRead == phase # "stopped" /\ ring.last < setup.samples

\* The context is done, or /proc/stat cannot be read: every loop ends.
Stop ==
  /\ phase # "stopped" /\ ~draining
  /\ phase' = "stopped"
  /\ UNCHANGED <<ring, setup, tick, cur, levelVars, counterVars, kmsgVars>>

\* A source nobody looks at.
ReadNone ==
  /\ setup.source = None /\ CanRead
  /\ AfterRead
  /\ UNCHANGED <<levelVars, counterVars, kmsgVars>>
-----------------------------------------------------------------------------
(* Levels.  The cadences are set once the rate is known, after the probes: *)
(* until then each of them, and the heartbeat, is 0.                       *)

AtLeastOne(n) == IF n < 1 THEN 1 ELSE n

\* The rate divided by a floor, rounded to nearest.
Every(floorHz) == AtLeastOne((2 * RateHz + floorHz) \div (2 * floorHz))

\* SetFloorOverride: one cadence for every level, and no filter.
EmitAll == setup.floorHz > 0 /\ ~Probing
Override == AtLeastOne((RateHz + setup.floorHz \div 2) \div setup.floorHz)

ThermalEvery == IF EmitAll THEN Override
                ELSE IF ThermalHz > 0 THEN Every(ThermalHz) ELSE 1

\* The cadence of the source, in ticks.
Cadence ==
  IF Probing THEN 0
  ELSE IF setup.source = "thermal" THEN ThermalEvery
  ELSE IF setup.source = "slab" THEN (IF EmitAll THEN Override ELSE Every(SlabFloorHz))
  ELSE IF setup.source = "mtd" THEN (IF EmitAll THEN Override ELSE RateHz * MtdSeconds)
  ELSE 1

Heartbeat == IF Probing THEN 0 ELSE IF EmitAll THEN 1 ELSE RateHz * HeartbeatSeconds

\* due, for the tick being read.
Due == Cadence <= 1 \/ (tick + 1) % Cadence = 0

\* The source is read at this tick: a cleared MTD baseline reads at once, and
\* the memory ceiling goes once a heartbeat by the ticks before this one.
Polled ==
  IF setup.source = "ceiling"
  THEN tick = 0 \/ Heartbeat = 0 \/ tick % Heartbeat = 0
  ELSE Due \/ (setup.source = "mtd" /\ last = None)

\* The change filter: carried when it moved or once a heartbeat.
Carries(v) ==
  EmitAll \/ v # last \/ (tick + 1) - lastTick >= Heartbeat

\* The tick carries the value v that was read, None when that failed; a
\* failed read of buddyinfo or MTD leaves everything as it was.
Emitted(v) ==
  /\ Polled
  /\ setup.source \in {"buddy", "mtd"} => v # None
  /\ setup.source \notin {"thermal", "ceiling"} => Carries(v)

\* A baseline read that counts as sent.
Remembered_Mutant(v) ==
  IF Emitted(v) THEN last' = v /\ lastTick' = tick + 1
  ELSE UNCHANGED <<last, lastTick>>

\* The bookkeeping of what was sent, which ReArm clears after the read that
\* primes.
Remembered(v) ==
  IF phase = "prime" THEN last' = None /\ lastTick' = 0
  ELSE IF Emitted(v) /\ setup.source \notin {"thermal", "ceiling"}
  THEN last' = v /\ lastTick' = tick + 1
  ELSE UNCHANGED <<last, lastTick>>

\* What a read of a level comes back with: a value, or None when it fails.
Readings == Values \cup {None}

\* A read of the level.
ReadLevel(v) ==
  /\ setup.source \in Levels /\ CanRead
  /\ setup.source = "ceiling" => v # None
  /\ Remembered(v)
  /\ IF Running
     THEN /\ seen' = IF Polled /\ v # None THEN v ELSE seen
          /\ shown' = IF Emitted(v) /\ v # None THEN v ELSE shown
          /\ age' = IF Emitted(v) \/ (Polled /\ v = None) THEN 0 ELSE age + 1
     ELSE UNCHANGED <<seen, shown, age>>
  /\ AfterRead
  /\ UNCHANGED <<counterVars, kmsgVars>>
-----------------------------------------------------------------------------
(* Counters.                                                               *)

\* A wrap only told from a reset by the old value.
IsWrap32_Mutant(c, p) == p < Word

\* A backwards step from the top sixteenth of 2^32 to the bottom one.
IsWrap32(c, p) ==
  /\ p < Word /\ p >= Word - Word \div 16
  /\ c < Word \div 16

\* sub: the difference, and whether it saw a reset.
Sub(c, p) ==
  IF c >= p THEN [delta |-> c - p, resets |-> 0]
  ELSE IF IsWrap32(c, p) THEN [delta |-> c + (Word - p), resets |-> 0]
  ELSE [delta |-> c, resets |-> 1]

\* Where the counter stands after n more events, or n events after it
\* started again from zero.
Moved(n, restarts) ==
  IF restarts THEN n ELSE IF setup.wide THEN count + n ELSE (count + n) % Word

\* One buffer for the hardware counters.
NextBuffer_Mutant == perfTick

\* The buffer the hardware counters are read into; there are none before
\* the second probe.
NextBuffer == IF phase = "probe" THEN perfTick ELSE 1 - perfTick

\* What a Raw holds of the counter: a file's count and whether it was read.
\* A hardware counter is the buffer's number.  Of the agent's own counters,
\* has is that of cpu.stat and the count that of another file.
RawOf(c, has, ok) ==
  [has |-> has, ok |-> ok,
   value |-> IF setup.source = "perf" THEN NextBuffer ELSE IF ok THEN c ELSE 0]

\* The count a Raw stands for, given the buffers.
CountIn(r, bufs) == IF setup.source = "perf" THEN bufs[r.value] ELSE r.value

\* The counts of two reads are matched by name and differenced one by one.
Difference(p, c, bufs) == Sub(CountIn(c, bufs), CountIn(p, bufs))

\* A flash or disk row that did not move is left out.
RowKept(d) == setup.source = "flash" => d.delta # 0

\* Delta: sources absent in either read are absent in the sample; the
\* agent's own counters ask the newer read only.
DeltaOf(p, c, bufs) ==
  LET d == Difference(p, c, bufs)
  IN  IF /\ c.has /\ (p.has \/ setup.source = "self")
         /\ RowKept(d)
      THEN [carried |-> TRUE, delta |-> d.delta, resets |-> d.resets]
      ELSE [carried |-> FALSE, delta |-> 0, resets |-> 0]

\* What a read can come back with: /proc/stat always, the hardware counters
\* once they are open, any other file or not; the agent's own counters are
\* in two files.
Outcomes ==
  IF setup.source = "stat" THEN {[has |-> TRUE, ok |-> TRUE]}
  ELSE IF setup.source = "perf" THEN {[has |-> phase # "probe", ok |-> phase # "probe"]}
  ELSE IF setup.source = "self" THEN [has : BOOLEAN, ok : BOOLEAN]
  ELSE {o \in [has : BOOLEAN, ok : BOOLEAN] : o.has = o.ok}

\* A read of the counter after n more events.
ReadCounter(n, restarts) ==
  /\ setup.source \in Counters /\ CanRead
  /\ count' = Moved(n, restarts)
  /\ perfTick' = IF setup.source = "perf" THEN NextBuffer ELSE perfTick
  /\ perfBuf' = IF setup.source = "perf"
                THEN [perfBuf EXCEPT ![NextBuffer] = count'] ELSE perfBuf
  /\ \E o \in Outcomes :
       LET r == RawOf(count', o.has, o.ok)
           p == raw[1 - cur]
           d == DeltaOf(p, r, perfBuf')
       IN  /\ raw' = IF Probing THEN raw ELSE [raw EXCEPT ![cur] = r]
           /\ sample' = IF Running
                        THEN [carried |-> d.carried, delta |-> d.delta,
                              resets |-> d.resets, happened |-> n,
                              restarted |-> restarts, before |-> count,
                              both |-> p.ok /\ o.ok /\ o.has /\ p.has]
                        ELSE sample
  /\ AfterRead
  /\ UNCHANGED <<levelVars, kmsgVars>>
-----------------------------------------------------------------------------
(* The kernel's log (kmsg_linux.go): opened at its end, drained at every   *)
(* read, one record a system call, while the kernel goes on logging.       *)

KernelLogs ==
  /\ setup.source = "kmsg" /\ phase # "stopped" /\ logged < MaxLogged
  /\ logged' = logged + 1
  /\ UNCHANGED <<ring, setup, phase, tick, cur, levelVars, counterVars,
                 pos, draining, took, dropped, rawDropped, from, events>>

BeginDrain ==
  /\ setup.source = "kmsg" /\ CanRead /\ ~draining
  /\ draining' = TRUE /\ took' = <<>> /\ from' = pos
  /\ UNCHANGED <<ring, setup, phase, tick, cur, levelVars, counterVars,
                 logged, pos, dropped, rawDropped, events>>

Oldest == IF logged > LogSize THEN logged - LogSize + 1 ELSE 1

\* A wrap of the log that is not counted.
Overrun_Mutant ==
  /\ draining /\ pos < Oldest
  /\ pos' = Oldest
  /\ UNCHANGED <<ring, setup, phase, tick, cur, levelVars, counterVars,
                 dropped, logged, draining, took, rawDropped, from, events>>

\* EPIPE: the log wrapped past the reader, which counts it and tries again.
Overrun ==
  /\ draining /\ pos < Oldest
  /\ pos' = Oldest /\ dropped' = dropped + 1
  /\ UNCHANGED <<ring, setup, phase, tick, cur, levelVars, counterVars,
                 logged, draining, took, rawDropped, from, events>>

\* One record, up to the cap.
TakeRecord ==
  /\ draining /\ Oldest <= pos /\ pos <= logged
  /\ Len(took) < PerTick
  /\ took' = Append(took, pos) /\ pos' = pos + 1
  /\ UNCHANGED <<ring, setup, phase, tick, cur, levelVars, counterVars,
                 logged, draining, dropped, rawDropped, from, events>>

\* The drain ends with d records lost so far: the Raw carries them and the
\* count, and the sample the difference of the counts.
EndDrain(d) ==
  /\ rawDropped' = IF Probing THEN rawDropped ELSE [rawDropped EXCEPT ![cur] = d]
  /\ events' = IF Running
               THEN [records |-> took,
                     dropped |-> Sub(d, rawDropped[1 - cur]).delta]
               ELSE events
  /\ draining' = FALSE /\ took' = <<>> /\ dropped' = d
  /\ AfterRead
  /\ UNCHANGED <<levelVars, counterVars, logged, from>>

\* EAGAIN: the reader has caught up.
CaughtUp ==
  /\ draining /\ pos > logged
  /\ EndDrain(dropped) /\ UNCHANGED pos

\* The cap was reached and one more read succeeds: that record is lost, the
\* rest waits for the next tick.
PastCap ==
  /\ draining /\ Oldest <= pos /\ pos <= logged
  /\ Len(took) = PerTick
  /\ pos' = pos + 1
  /\ EndDrain(dropped + 1)
-----------------------------------------------------------------------------
SamplerNext ==
  \/ Stop
  \/ ReadNone
  \/ \E v \in Readings : ReadLevel(v)
  \/ \E n \in 0 .. MaxStep, restarts \in BOOLEAN : ReadCounter(n, restarts)
  \/ KernelLogs
  \/ BeginDrain
  \/ Overrun
  \/ TakeRecord
  \/ CaughtUp
  \/ PastCap

SamplerSpec == SamplerInit /\ [][SamplerNext]_samplerVars
-----------------------------------------------------------------------------
(* Properties.                                                             *)

EventRecord == [records : Seq(Nat), dropped : Nat]

\* The variables hold what the code's fields can hold, the ring included; a
\* sample's number is the ring's newest.
TypeOK ==
  /\ RingOK(ring)
  /\ setup \in Setups
  /\ phase \in {"probe", "second", "prime", "running", "stopped"}
  /\ tick \in 0 .. (MaxSeq + 3) /\ cur \in 0 .. 1
  /\ Running => tick = ring.last + (IF setup.perf THEN 3 ELSE 2)
  /\ {last, seen, shown} \subseteq Readings /\ lastTick \in 0 .. tick /\ age \in Nat
  /\ count \in Nat /\ (setup.wide \/ count < Word)
  /\ \A i \in 0 .. 1 :
       /\ raw[i] \in [has : BOOLEAN, ok : BOOLEAN, value : Nat]
       /\ perfBuf[i] \in Nat /\ rawDropped[i] \in 0 .. dropped
  /\ logged \in 0 .. MaxLogged /\ pos \in 1 .. (MaxLogged + 1) /\ from \in 1 .. pos
  /\ draining \in BOOLEAN /\ took \in Seq(Nat) /\ Len(took) <= PerTick
  /\ dropped \in Nat /\ events \in EventRecord

\* Since answers exactly what is owed, wherever the head is ("oldest first").
SinceExact ==
  \A after, limit \in 0 .. (MaxSeq + 1) :
    SinceOf(ring, after, limit) = Owed(ring, after, limit)

\* Tail answers exactly the newest n samples held.
TailExact ==
  \A n \in 0 .. (MaxSeq + 1) :
    TailOf(ring, n) =
      Run(ring.last - (IF n < ring.count THEN n ELSE ring.count) + 1, ring.last)

\* A gap is declared to a cursor exactly when some sample after it was
\* overwritten; the cursor 0 asks for everything held and is told nothing.
GapExact ==
  \A after \in 0 .. (MaxSeq + 1) :
    GapAfter(ring, after) <=>
      after # 0 /\ \E s \in (after + 1) .. ring.last : s <= ring.last - ring.len

\* What every reader of the ring relies on: /snapshot and /stream on the
\* samples after a cursor and on the gap before them, a capture on the tail.
ReadsExact == SinceExact /\ TailExact /\ GapExact

\* Samples that may pass without a value: every level is told again within
\* a heartbeat and a cadence, thermal at its cadence.
Silence ==
  IF setup.source = "thermal" THEN Cadence - 1
  ELSE Heartbeat + Cadence - 2

\* A consumer that keeps the newest value each sample carried has the value
\* of the newest read: the filters drop no change, and neither the probes
\* nor the priming read count as having told it (ReArm).  It is told again
\* once a heartbeat, so that a window wider than one has every level.
LevelsShown ==
  Running => shown = seen /\ age <= Silence

\* A reset that looks like a wrap, which sub does not tell from one.
Ambiguous == sample.before < Word /\ sample.before >= Word - Word \div 16

\* A difference is the events between its two reads, across a 32-bit wrap
\* too; when the counter started again it is a lower bound; a row left out
\* says nothing happened.  The agent's own counters are held to it when
\* both reads succeeded.
DeltasTrue ==
  sample.both /\ Running =>
    /\ sample.carried \/ sample.happened = 0 \/ sample.restarted
    /\ sample.carried /\ ~sample.restarted =>
         sample.delta = sample.happened /\ sample.resets = 0
    /\ sample.restarted /\ ~Ambiguous => sample.delta <= sample.happened

\* A sample says what was read, of levels and of counters.
SamplesTruthful == LevelsShown /\ DeltasTrue

\* Every record the kernel logged since the previous read is in the sample,
\* once and in order, or the sample says that some were dropped, and it
\* never says more than were ("so dropped stays a fact", kmsg_linux.go).
EventsAccounted ==
  LET lost == (pos - from) - Len(events.records)
  IN  Running /\ ~draining =>
        /\ \A i \in DOMAIN events.records :
             /\ events.records[i] \in from .. (pos - 1)
             /\ i > 1 => events.records[i - 1] < events.records[i]
        /\ ring.last > 0 => lost >= events.dropped
        /\ ring.last > 0 /\ events.dropped = 0 => lost = 0
=============================================================================
