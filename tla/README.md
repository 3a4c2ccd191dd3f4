# Verification of mikroscope

mikroscope samples a MikroTik router's kernel from a container on the router
and merges those samples with what RouterOS's API says. This directory holds
TLA+ models of the parts where that can go wrong in ways a test hardly
reaches, the TLC configurations that check them on small instances, and TLAPS
proofs of what holds for every value of the constants. `PROJECT.json` maps
every definition to the source lines it stands for.

## Inventory of the system

| component | code | state it keeps | operations | talks to | modelled in |
|---|---|---|---|---|---|
| agent ring | `internal/agent/ring.go` | circular buffer, head, count, last | Push, Last, Oldest, Since, Tail | sampler pushes, HTTP reads | `Ring` |
| sampler loop | `internal/agent/sampler.go`, `source.go` | sequence number, prev and cur | probe, prime, one tick: read, Delta, Observe, Push, AfterPush | sources, ring, captures | `Sampler`, `Captures` |
| sources and samples | `internal/agent/discovered.go`, `kmsg_linux.go`, `internal/sample`, `internal/procfs` | cadences, what was emitted last and when, two Raws, the counter buffers, the log's position | read, filter, ReArm, drain, difference | the kernel's files | `Sampler` |
| agent captures | `internal/agent/capture.go` | last fires, pending capture, held captures and their bytes, counters, last 64 markers | Observe, fire, AfterPush, collect, Finalize, Fire, Delete, MarkersBetween | sampler, HTTP, ring | `Captures` |
| agent HTTP | `internal/agent/http.go` | none of its own | /snapshot, /stream, /healthz, /capture, /captures | ring, captures | `Captures`, `Pipeline` |
| agent process | `internal/agent/agent.go`, `config.go` | everything above, lost at a restart | Run, shutdown | | `Pipeline` (restart) |
| transports | `internal/transport` | none | Health, Pull, Capabilities | agent HTTP, or RouterOS's fetch | `Pipeline` (loss, caps, the relay's reply limit) |
| collector | `internal/forward` | cursor, skew, resync and gap counters, boot-log deadline | poll, drain, skew tick, API tick, noteBoot, readBootLog | transport, derive, API tier, sinks | `Pipeline`, `Collector` |
| recorder | `internal/record` | cursor, rows, notes | poll, drain | transport, files | `Pipeline` |
| sinks with a queue | `internal/sinks`: influx, loki, graphite, telegraf, postgres, otlp, elasticsearch, stdout | current batch, queue, byte count, backoff, counters | Write, rotate, deliver, fail, Close | collector, a remote store | `SinkQueue` |
| other sinks | file, sql, prometheus | a file, a map | Write, Close | collector | not modelled |
| derive stage | `internal/derive` | baselines, boot id, boot-log wait, held detection, frozen summary | Kernel, API, NoteBoot, AwaitBootLog, NoteBootLog | collector | `Collector` (reboots) |
| API tier | `internal/apitier`, `internal/rosapi` | one connection, inventory, redial clock | Read, exec, redial, LoadInventory, BootLog | RouterOS | `ApiTier` |
| install plan | `internal/router`, `internal/teardown`, `cmd/mikroscope` | the router's objects and manifest, the stores | Install, script, Upgrade, Uninstall, Sweep, Verify | RouterOS over ssh | `Deploy` |
| doctor | `internal/router/traps.go`, `exposure.go` | none | walk of the firewall, proposed fixes | a dump of the router's rules | `Firewall` |
| expo, dashboards, chart, image | | none | render | | not modelled (rendering) |
| lab | `internal/lab` | a container, a chain of disks, a lock and credentials per state directory | up, down, reset, provision, power-cycle, device-mode, cli, lock | docker, QEMU, the router over ssh | `Lab` |
| commands | `cmd` | | flags and wiring | | not modelled |

### How they interact, and what is hard

* **Agent.** One sampler goroutine reads the sources, numbers samples from 1,
  evaluates the triggers, pushes the sample into the ring and collects a
  finished capture. HTTP goroutines read the ring and arm or delete captures at
  any moment. Ring and captures have a mutex each and no operation holds both
  except collect. Hard: values left out because nobody was told twice, or left
  out before anybody was told once; a counter that wraps or starts again
  between two reads; a log that grows while it is drained and wraps past its
  reader; the order marker, sample, cursor; one pending slot several fires race
  for; bytes accounted over four ways to leave the list; index arithmetic at
  the wrap.
* **Pull.** A client asks for the samples after its cursor and drains while
  full batches come back. An answer is put together in up to three critical
  sections, may be lost before or after that, and the agent may restart in the
  middle, which numbers samples from 1 again. Hard: a restart is only visible
  as a newest sample behind the cursor; a lapped ring is only visible as a
  gap; a client may stop half way through a drain.
* **Sinks.** The collector must never wait for a store. Each sink renders into
  memory and a flusher posts once a second with the mutex released, retries
  after a backoff, and evicts the oldest batches past a byte budget. Hard: four
  different locking disciplines, eviction during a post, a failed post the
  store applied all the same, Close while any of it is going on.
* **API tier.** One connection without tags: replies are matched to commands
  by their order alone. A round is several commands, any of which may find the
  connection dead and reopen it, at most once a while. Hard: a reply that comes
  late; an inventory parsed before a reconnection in the middle of its own
  read; the handing-on of what was read at a time no sink was asked.
* **Reboots.** The boot id comes with a health read, the samples with pulls,
  RouterOS's own log with a round of the API tier, each on its own schedule.
  The derive stage tells a reboot by the boot id or by the kernel's log, holds
  the detection back for the log, and summarises the samples before it. Hard:
  every order of the three, an agent that restarts under the same boot, a
  second reboot before the first is settled, a wall clock that steps back.
* **Install.** A command is a script of console commands, each of which may
  stop half way, against a router whose operator has objects of his own. Hard:
  that what a run cut short leaves is recognised by the next, and that nothing
  else is ever taken for ours.
* **Doctor.** Judges a firewall it cannot fully read. Hard: three-valued
  answers composed over two chains, negations, deleted lists.
* **Lab.** Several runs of a command line drive one container over disks that
  stand on each other, and each of their commands may be the last. Hard: a run
  that decides by which files there are, after one that was killed between
  making two of them; a credential that must be on the live disk and never on
  the snapshot under it; two runs that wait for one lock.

What makes each component correct: a sample says what was read; the ring
answers every cursor exactly; the captures lose nothing uncounted and never pin
more than the budget; a client gets every sample once, in order, or is told it
is gone; a queue keeps its counts true, its order, its budget, and ends; the
inventory follows the connection; one reboot is one detection with the right
log; records outlive what they record; a certain verdict is never wrong; a reset
repairs whatever a run left, and a snapshot is what provisioning made of it.

## Modules

* **`Ring`** is `ring.go` as operators on a record (`NewRing`, `PushTo`,
  `SinceOf`, `TailOf`, `OldestOf`, `GapAfter`), with `RingOK`, the structure a
  ring keeps. An entry is its sequence number. `Sampler`, `Captures` and
  `Pipeline` each hold such a record in their variable `ring`, and their type
  invariants check `RingOK` of it.
* **`SeqFolds`** is the two loops over a slice that the queues, captures and
  markers share: adding up what the elements count for (`Total`) and copying
  those that qualify (`Kept`), as recursive functions of the prefixes.
* **`Sampler`** is the sampler loop over its sources. No source looks at
  another, so a behaviour follows one of them: a level with its cadence, change
  filter and heartbeat (`ReadLevel`), a counter with its two reads
  (`ReadCounter`), the kernel's log (`KernelLogs`, `BeginDrain`, `Overrun`,
  `TakeRecord`, `CaughtUp`, `PastCap`) or none. `AfterRead` is the end of every
  read: the probes of `NewProcSource` are thrown away, the first read of `Run`
  primes the differences and is followed by `ReArm`, and from then on prev and
  cur change places and a sample is pushed. What a file holds is chosen freely
  at each read, and a read may fail.
* **`Captures`** composes the sampler, the captures, the ring, concurrent
  requests to POST /capture and DELETE, and one puller. A critical section is
  one action; `Fire` in the code is four steps (`BeginFire` reads nextID with
  no lock, `ReadLast` takes the ring's, `FireManual` and `Reply` the
  captures'). Which conditions hit a sample is chosen freely. The unsigned
  subtraction of the refractory test keeps its wrap (`Word`). `Fire` counts
  suppressions in one counter where the code keeps one per cause and reason.
* **`Pipeline`** composes the agent's ring across restarts with one client,
  the collector or the recorder, and a network that loses requests or answers.
  A sample is a pair of the agent's life and a number, which is what the code
  cannot see. The steps of a request are the reads the server makes:
  `ServeSince`, `ServeGap` (a second read of the oldest), `ServeMarkers`;
  `ServeLast` and `ServeOldest` for /healthz. A trigger has a line of its own,
  on top of the samples asked for. Over the relay an answer of `ReplyMax` lines
  is cut short and refused whole (`Refuse`); a recorder that cannot write ends
  with part of an answer handed on (`WriteFails`).
* **`SinkQueue`** is the queue and flusher of every queued sink. `disc` chooses
  between the disciplines the package has: only the flusher touches the queue
  (`batchQueue`, and OTLP's copy of the loop), another goroutine pushes too
  (the contract `queue_test.go` exercises), Write appends and the flusher
  evicts (Elasticsearch), and the head is taken off during the write (stdout).
  A batch is an id and a size. A failed post may have been applied.
* **`SinkPromise`** is the abstract specification all four disciplines
  implement: in order, at most once, shed only at the old end, never the newest.
  `SinkQueue` is shown to refine it with `waiting <- Held`.
* **`ApiTier`** is the reader, its client and the router. A connection is the
  router's session it was opened in and the replies still to come over it
  (`client`), so that a reply that was not waited for is met by the next
  command. `Command` is `exec`, with `Redial` as the step in its middle; a
  round is a list of commands, `LoadInventory` three of them. `inv` carries the
  session it was read in.
* **`Collector`** is `noteBoot`, `pull`, `readBootLog` and the deadline of the
  forward loop with the reboot rules of the derive stage: `NoteBoot`,
  `AwaitBootLog`, `NoteBootLog`, the kernel-log rule, the refractory window by
  the router's wall clock, the summary frozen when the agent restarts, and the
  held detection. A summary is the set of boots whose samples it is of.
* **`Deploy`** is a command on one router at a time, as the script of console
  commands its code sends, any of which fails before or after it acted, or is
  the last one before the command is killed. An object is the step that makes
  it, what its find selects it by and whose tag it carries. The plan, the
  collision check, install with the undo of its upload, the generated script,
  upgrade, uninstall by the manifest or by the flags, the sweep of untracked
  objects, and the listing and dropping of the stores are each their own
  operators; the operator may add or remove things in between.
* **`Firewall`** lets doctor's walk and the packet meet the same rules side by
  side. `walker`, `raw` and `report` are doctor's, `real` and `by` the
  packet's. A matcher's answer is one of no, maybe and yes, as in the code;
  RouterOS knows each one.
* **`Lab`** is the runs of the lab's command line as lists of steps, one per
  host command and the disk it is about (`On`; `Script`, `Provisioning`,
  `Guards`), any of which may fail, be canceled or be the last (`Break`,
  `HalfDone`, `RemoveFails`). A file is a name for an inode, so that a machine still running on a removed disk keeps it; what
  a disk holds is what the steps put there and what was under it. Runs
  under `lock` find their lock in the environment (`inherits`), and go on when
  its holder is killed (`KillHolder`). Waiting for the router is waiting for
  what it will do; how long is left out, but a wait may always end in an error.
* **`SinkQueueProofs`, `SamplerProofs`, `CapturesProofs`, `PipelineProofs`,
  `CollectorProofs`, `RouterProofs`, `LabProofs`** hold the theorems of their
  component (`CollectorProofs` those of `Collector` and `ApiTier`,
  `RouterProofs` those of `Deploy` and `Firewall`), and **`DataLemmas`** what
  they share about sequences, sums and the ring. `ApiTier` names its
  specification `ApiSpec` and its variables `apiVars`, so that one module can
  hold the theorems of both.
* **`MC*`** give the constants their values for TLC.

Operators named `..._Mutant` are faulty versions of the definition below them
(a dropped guard, an off-by-one, a missing reset). They are in no
specification; substituting one must break the property `PROJECT.json` pairs
it with, which shows that the property depends on that line of the code.

## Runs and bounds

| run | checks | bounds and why they are enough |
|---|---|---|
| `sink_queue` | types, conservation, exact bytes, budget, refinement; `CloseEnds` and `Drains` | four events of one or two bytes against a budget of three: the third batch already evicts, with a post in flight, and two failures occur anywhere; all four disciplines |
| `sampler` | types and the ring's structure, exact reads, truthful samples, kernel-log records accounted | three samples a second, slabinfo every second tick, MTD and thermal every third, a heartbeat of six ticks and twelve samples, so that two heartbeats pass; with and without FLOOR_HZ; counters at zero and just short of a wrap at 32; a log of two records under a cap of two, seven records; the ring alone at capacities 0 to 7 with 17 pushes (the largest wraps twice), every cursor and limit |
| `captures` | accounting with the exact budget, windows, markers | windows of three samples in a ring of three, so collection happens at the last possible push; two conditions, one caller, four samples; a budget of one to two windows, two markers kept, both policies |
| `pipeline` | order, no silent loss, resync, convergence | a ring of two and pulls of two: a client three samples behind is lapped; two lives, one lost request or failed write, one trigger, four samples a life; two samples fit the relay's reply and two with a trigger do not; the collector over both transports and the recorder |
| `api_tier` | `StaleIsReread`, `SinksHoldInventory`, `Reconnects` | one reboot and two failures, of any kind, in any step of any round; one unread reply; a redial and an inventory every second tick |
| `collector` | `LogOfItsBoot`, `DetectedOnce`, `BootLogSettles` | three starts of the agent, under up to three boots, two samples each; the clock kept or lost at a reboot; every window longer than a sample and shorter than a life |
| `deploy` | `RecordsOutlive`, `RefusalsRight`, `UninstallTruthful`, `ForeignUntouched` | three commands with two failures anywhere and one act of the operator; a tar install and a pulled and exposed one on different veths; an install older than the manifest |
| `firewall` | `VerdictSound`, `DropperNamed`, `FixPasses` | every firewall of up to four of eighteen rules, in every order, for the three packets doctor judges, with and without the fix followed |
| `lab` | `SnapshotExact`, `ResetRestores` | three runs by two drivers of one state directory, of one RouterOS version or of two, one thing going wrong at any step; so a run can be cut short, another be made of what it left, and a third wait for the lock meanwhile; starting with no lab or with one put down |
| `captures_manual`, `api_replies`, `collector_clock` | one documented claim each, violated | as above; see Findings |

Every bound is a constant named in its module (`MaxEvents`, `MaxErrors`,
`MaxSeq`, `MaxManual`, `MaxLives`, `MaxTriggers`, `MaxFailures`, `MaxStep`,
`MaxLogged`, `MaxReboots`, `MaxUnread`, `MaxWall`, `MaxRuns`, `MaxFaults`, `MaxOperator`,
`MaxRules`) and only limits how much happens. `CHECK_DEADLOCK FALSE` is set
where a behaviour really ends: the sink is closed, the sampler has stopped,
doctor has reported, the bounds are used up. The drivers of `lab` are alike, and
`Alike` is their symmetry. `api_tier` checks deadlock.

## Fairness

* `SinkQueue`: the flusher's goroutine runs and its ticker fires (WF on `Tick`,
  `Idle`, `StartPost`, `CountFailure`). Both branches of its select may stay
  ready and Go picks at random, so the stop branch is strongly fair. A network
  post returns because every client has a deadline; nothing is assumed of a
  write to standard output. `CloseReturns` is fair because Close is waiting on
  a channel, or a timer on stdout. Nothing is assumed of writers.
* `Pipeline`: poll and skew ticks are strongly fair for the same reason, a
  request ends because of the client's deadline, the client handles its answer.
  Nothing is assumed of the agent, of restarts or of losses; those are bounded,
  so `CatchesUp` speaks of what happens after the last of them.
* `ApiTier`: the forwarder's ticker starts rounds and a round goes on (WF on
  `BeginLoad`, `BeginRead`, `Command`, `Redial`, `Tick`), because every command
  has a deadline. A router that is down comes up (`Up`); it need not stay up,
  but reboots and failures are bounded, so `Reconnects` speaks of what happens
  after them.
* `Collector`: the API ticker fires (WF on a round that finds the boot log due)
  and time passes (`Tick`). Nothing is assumed of health reads, pulls, the
  agent or the router.

`Sampler`, `Captures`, `Deploy`, `Firewall` and `Lab` state safety only.

## Findings

| run | what the code does | what it says |
|---|---|---|
| `captures_manual` | a condition firing between the unlocked read of nextID and the fire makes a refused request answer another capture's id as armed (`capture.go:390`) | "Fire arms a manual capture" (`capture.go:385`), the 409 text (`http.go:347`) |
| `api_replies` | after a command timed out and the redial was refused or not yet due, the same connection is used again and the late reply is taken for the next command's (`apitier.go:328`) | "this tier's single connection cannot be trusted once it has" (`apitier.go:336`) |
| `collector_clock` | the refractory window is measured on the router's wall clock; a reboot that sets it back makes the difference negative and the reboot is withheld for good (`derive.go:363`) | "the next kernel sample fires reboot for it" (`derive.go:723`), "comes back from a reboot with a wrong time until NTP corrects it" (`derive.go:883`) |

## Observations

Met while modelling; no run is spent on them, and most change nothing a user
sees. They are kept here for whoever changes the code next.

* **Sinks.** A post is only made once the backoff is 0, so a failure always
  sets 2 s and the doubling is never taken (`queue.go:71`, `queue.go:115`).
  Close during a backoff or a failure leaves what is queued uncounted
  (`queue.go:79` against `sinks.go:79`). A short write makes stdout write the
  whole batch again, part of a line with it (`stdout.go:317`).
* **Captures.** A manual marker carries the newest sample already in the ring,
  so a puller that keeps up never gets it (`capture.go:391`). A manual fire
  aimed at a sample older than the last fire underflows the unsigned refractory
  test and is armed (`capture.go:358`), harmlessly.
* **Sampler.** A source that cannot be read ends the loop without Finalize
  (`sampler.go:75`). The first sample does not carry every source as ReArm's
  comment says: slabinfo waits for its tick and thermal for its cadence; the
  first read of the memory ceiling is the probe's, before the limits are known.
  Kernel-log records drained by the probe and the priming read are in no sample
  and not counted; one that does not parse is dropped uncounted; past the cap
  one record is counted and lost, the rest waits for the next tick
  (`kmsg_linux.go:17` says the rest is dropped). A source absent for one tick
  silently loses the differences of two. `readSystem` leaves Mem and Load as
  they were two ticks earlier when a read fails, though its comment says they
  are left absent. One failed read of the agent's own cgroup files makes the
  next sample tell the counters' whole value as one tick's difference
  (`sample.go:484`), though "Sources absent in either read are absent in the
  sample" (`sample.go:422`); the model has it, and `SamplesTruthful` holds those
  counters to what happened only when both reads succeeded.
* **Pipeline.** A restarted agent that has overtaken the cursor is not noticed
  and its samples up to there are skipped (`forward.go:389`). The recorder
  takes a trigger line for a sample numbered 0 (`record.go:195`). The relay's
  cap counts samples while trigger lines ride on top of them: a full batch with
  triggers may pass the limit, and is then asked for again with the same cursor
  until the ring has dropped those samples (`transport.go:374`).
* **API tier.** A reply word the client does not know leaves the rest of the
  reply in the stream without a redial.
* **Reboots.** A second reboot during the hold overwrites `bootFrom` and does
  not restart the hold. When a new agent's samples outran the cursor before a
  health read, the kernel-log rule and the boot id tell the same reboot twice
  (the exemption `met` of `DetectedOnce`), and the summary of the time before
  can be of the new boot; a second restart of the agent refreezes it.
* **Install.** Undo keeps the upload of a container on its way out; a rerun
  with a remote image then strands the tar while uninstall reports clean
  (`steps.go:74`, `deploy.go:175`, `deploy.go:188`). A rerun after the wait for
  the extraction failed says "already present" and starts nothing. A failed scp
  is not undone (`deploy.go:155`).
* **Doctor.** `collisionChecks` reads a count it could not get as 0 and says
  OK, against the comment at `doctor.go:118`. `candidateLists` may propose a
  deleted list ("*2000010"), which the options refuse. A jump it cannot follow
  ends in "passes" when nothing else stands in the way, though the comment says
  "may be dropped"; `return` and raw `notrack` are ignored. The DNS exposure
  item judges UDP only though its fix drops TCP too, and the uplink query keeps
  the last of several default routes.
* **Lab.** The verbs are said to take the lock first and then check whose the
  container is (`lab.go:215`), but `guardState` comes before `takeLock`
  (`lab.go:281`), and each state directory has a lock of its own. A run that
  found no container, or waited, drives or removes what another state directory
  made meanwhile; with the homes of `MCLab` in two state directories and
  without that condition of `OneLab`, TLC breaks both properties, which is why
  they speak of one. A `docker rm -f`
  that fails is not noticed (`docker.go:220`): a reset then goes on with the old
  machine, and a provision with the layer it is about to replace. A run killed
  after the snapshot's rename leaves the old live layer over the new snapshot,
  and `up` starts it: `CheckChain` reads names (`provision.go:182`). A base
  that was half converted, or not grown, by a run that was killed passes for a
  finished one (`disk.go:33`). `up` after an interrupted FORCE=1 provision
  powers on the container it left, on the provisioning disk. A key given
  without its password is never completed (`provision.go:323`). A session whose
  holder is killed leaves its runs going without the lock.

## What is proved

All theorems hold for every value of the constants allowed by the modules'
named assumptions, with no bound on the data beyond those constants.

* **Sinks** (`SinkQueueProofs`, from `SinkAssumption`). `TypeOK` alone is not
  inductive, and neither is `Conservation`: removing the head on success is
  only right if the head is the batch that was posted, and that the destination
  sees batches in order needs to know that ids in the queue are consecutive and
  end with the newest. The inductive invariant `QueueInv` conjoins the types,
  conservation, the shape of `Held` (consecutive ids up to `made`, preceded
  only by what is shed or delivered) and the batch in flight being its first.
  One lemma per action shows it preserved; `QueueInvariance` is the result, and
  `SinkTypes`, `SinkConservation`, `SinkInFlight`, `SinkInOrder`, `SinkBudget`
  and `SinkImplementsPromise` follow from it, the last by mapping each action
  to a step of `SinkPromise` or a stutter. `SinkBytes` goes on from there: the
  byte count is the sum over what is held through every way in and out, because
  the sum of a concatenation is the sum of its parts (`TotalConcat`).
* **Ring and sequences** (`DataLemmas`). `NewKeeps` and `PushKeeps`: a ring
  made and only pushed to keeps `RingOK`, which says where each of the newest
  `count` samples sits relative to `head`. From it, with arithmetic modulo the
  length, Since, Tail and the gap test answer exactly. What is computed by
  recursion (`Total`, `Kept`) is followed with `EveryNat`, which is induction
  over a *set* of numbers and comes from the least number principle.
* **Sampler** (`SamplerProofs`, from `SamplerAssumption`). Three invariants,
  one per kind of source.
  `SamplerTypes` is `TypesInv`, over all three: the number of reads made tells
  where the sampler is, the log's reader is never ahead of the log, and no Raw
  holds a count of drops above the reader's.
  `SampledReads`: every step pushes the next sample or leaves the ring alone,
  so the ring's lemmas apply.
  `EventsAreAccounted`: a count of drops is right at the end of a drain only if
  it was right all along, so `EventsInv` says of a drain in progress that the
  records passed over are as many as the drops counted since the last read, or
  more, and none if none; and that between drains the Raw that is not being
  filled holds the reader's count.
  `SamplesAreTruthful`: `LevelsInv` says that what is remembered as sent is
  what was shown, and bounds its age by the time since and by the place in the
  cadence; `CountersInv` says that the Raw not being filled holds the count of
  the last read, for the hardware counters through the number of a buffer the
  next read leaves alone. `DifferenceExact` is the arithmetic of a wrap.
* **Captures** (`CapturesProofs`, from `CaptureAssumption`). `CaptureTypes`,
  `CapturesCounted`, `CapturesExact` and `MarkersInTime`, from `CaptureInv`.
  None is inductive. That a condition's capture is whole needs to know that it
  is collected at the very sample that completes its window, so `PendingInv`
  says that a pending window is not over yet and `SamplerInv` that the ring is
  one sample behind the sampler exactly while conditions are evaluated; with
  `RingOK` of its ring, what `Tail` then answers is the window (`TailNewest`).
  That the pinned bytes are exact follows the sum through collection, eviction
  and deletion from the middle. `MarkerInv` says that ids ascend, so that a
  marker listed or added later is none the puller was sent already, and that
  none at or before the cursor is added behind its back by a condition.
* **Pipeline** (`PipelineProofs`, from `PipelineAssumption`). `PipelineTypes`,
  `ArriveInOrder`, `NothingLostSilently` and `ResyncsAreRestarts`. None of the
  invariants is inductive: an answer on its way was put together before the
  agent may have pushed, lapped or restarted. `PipelineInv` therefore says of
  the answer (`AnswerOK`) that its life is not past the agent's, its lines are
  consecutive and begin past the cursor, and that the gap it declares reaches
  from the cursor to where they begin, whether or not the oldest sample moved
  between the two reads; of a health (`HealthOK`) that a newest sample behind
  the cursor was read in another life than the one followed; and of the history
  (`CursorOK`, `LivesOK`) that nothing handed on is past the cursor or of a
  later life. `SinceShape` and `OldestIn` take the ring's facts from
  `DataLemmas`.
* **API tier** (`CollectorProofs`, from `ApiAssumption`). `StaleIsRereadHolds`
  and `SinksHoldInventoryHolds`: an inventory of another session is either
  marked as untried or was last tried over the connection in use, and so is one
  still being parsed (`StaleInv`); what the sinks were handed is the inventory
  unless it is marked unsent (`CarriedInv`); through every command, redial and
  round. `ApiTierTypes` needs besides the types that an inventory still being
  parsed is of a session there was (`TypeInv`).
* **Reboots** (`CollectorProofs`, from `CollectorAssumption`). `CollectorTypes`,
  `LogsOfTheirBoot` and `RebootsOnce`, from `CollectorInv`. A detection is
  only made when a reboot is told or inferred from the samples, both of which
  look back at what the stage remembers, so the invariant speaks of that: a
  log that waits to be quoted is of the boot it waits for or a later one
  (`LogKept`); what was told is not what is still to be told (`Told`); and
  once a boot is told or to be told, no sample still to be pulled
  is below the kernel log's clock the stage compares with, so the kernel-log
  rule cannot tell it again (`Fresh`, which needs that a life's samples carry
  its boot and an ascending clock, `RingHolds`). `Once` is `DetectedOnce` by
  pairs of detections. `DetectedOnce`'s exemption `met` is the code's own gap;
  see Observations.
* **Install** (`RouterProofs`, from `DeployAssumption`: shapes are shapes, a
  step of the operator's is one a plan could have, our items are among the
  items). `DeployTypes`, `RecordsOutliveHolds`, `RefusalsRightHolds`,
  `UninstallTruthfulHolds` and the action property `ForeignUntouchedHolds`,
  from `DeployInv`. None is inductive alone: whether a line may be sent depends
  on what the lines before it left, and a failure may have cut any of them
  short. So the invariant joins what is left of the run with what holds of the
  router. `TodoFits` says what scripts look like at any point: one that
  installs has its manifest in front and its container behind the upload
  (`Installs`); an uninstall's entries go up in stages (`Removes`). `Recorded`:
  past the manifest a run works under it. `Unopposed`: beside the operator's
  envlist a run only reads. `TarAccounted`: an uploaded image is signed for by
  the marker, is the next entry's or the undo's to take, or the history says
  who left it. `Removed` ties the stage of an uninstall in which nothing failed
  to what is gone, `Verified` what the count found to what may be dropped. The
  lines are argued once each (`CreateContainerLine`, `RemoveContainerLine` and
  the rest, put together in `LineSafe`), for every state a line passes through
  and every wait that may run out, so success, failure and kill are the same
  argument.
* **Doctor** (`RouterProofs`, from `FirewallAssumption`: deleted lists hold
  no member and the lists joined are not built in). `VerdictIsSound`: every
  matcher's answer is sound for the inbound packet and for the replies
  (`InboundSound`, `ReplySound`, `MatchesSound`), so one rule met by both keeps
  the walk sound (`MeetSound`), over both tables and the fix. `DropsAreNamed`:
  the rule named is the one the packet was dropped at or one after it, through
  the change of tables because raw's rules come first (`Dropped`). `FixesPass`:
  `Followed` says that the walk that follows the packet stands where walk's
  loop over the same prefix of the rules stands (`Turns`), so that the pair of
  lists doctor judged passes when it judges again.

* **Lab** (`LabProofs`, from `LabAssumption`: there is a home, and nobody is
  a driver or a state directory). `SnapshotsExact`, `ResetsRestore` and
  `LabTypes`, from `LabInv`. None is inductive: a run may stop after any of its
  steps, and the next finds what it left. The invariant therefore says what is
  left of each run (`Along`: which step may come after which, so the step a run
  is at tells the steps behind it) and what holds before the step it is at
  (`Heads`). `Provisions` says what the disk being provisioned holds at each of
  nineteen stages, from the base to the rename, and that its machine is the
  container there is; the snapshot is exact because the last stage is. `Resets`
  says what a reset that met no fault has left: no container, then a live layer
  that is new over the snapshot, then a machine that boots it, which is why its
  login cannot be refused. `World` keeps files from sharing a disk, a base from
  being written and a layer under itself, whoever drives; `Control` gives the
  lock to whoever is past its guards, so that in one state directory no other
  driver's step comes between (`AloneKeeps`). Each action's lemma is argued for
  success and for failure (`FailKeeps`).

TLC checked the inductive invariants of `Captures`, `Collector`, `ApiTier`,
`Deploy`, `Firewall`, `Lab` and the types of `Sampler` on the instances of the
runs as well.

Only model-checked: the liveness properties (`CloseEnds`, `Drains`,
`CatchesUp`, `Reconnects`, `BootLogSettles`) and everything else about fairness
and ENABLED, which TLAPS cannot state here; and that the documented claims of
the three findings fail, which is a counterexample and not a theorem.
`InFlightIsOldest` and `InOrder` of the sinks are only proved: no run
repeats them.

## What is not modelled

* The contents of samples and batches: parsing procfs, ranking interrupts,
  rendering line protocol, SQL, JSON, dashboards, charts and images. A wrong
  byte there is found by the golden tests the repository has; no interleaving
  and no state is involved. This is most of the code by lines.
* Synchronous sinks (file, SQL text, the Prometheus map): a mutex and no queue.
* The numeric detections and rates of the derive stage: sequential arithmetic
  over floats, which TLC cannot represent.
* Authentication, requests the server refuses before touching any state, and
  the shutdown of the process.
* Timing as such: how late a tick is, clock skew estimation. Where an order or
  a window matters it is counted in ticks.
* Of the modelled parts: the recorder's files and notes, short writes on stdout, the per-cause breakdown of capture counters,
  the encoding of RouterOS words and the login, the size and listing checks of
  an install, doctor's checks of one reading against one threshold.
* Of the lab: the downloads and their sums, the installation from an ISO, the
  image, the container's network and console, the files the credentials are kept
  in, what an import or the CLI does to the router (one step that uses it), and
  the verbs that only read.
* The command lines.

`PROJECT.json` lists the hazards among these with a note.

## Plan

1. `Ring`, `SinkQueue` with `SinkPromise`, `Captures`, `Pipeline`, `ApiTier`,
   `Collector`, `Deploy`, `Firewall`, `Sampler`, `Lab`: done, with proofs of all.
2. An abstract timeline that `Pipeline` implements.
3. The recorder's files and notes, as an extension of `Pipeline`.
4. The counters of the derive stage as integers: held detections and the
   refractory window across agents.
