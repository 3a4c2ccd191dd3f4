----------------------------- MODULE Collector -----------------------------
(***************************************************************************)
(* What the collector says of restarts and reboots: the loop's health read  *)
(* and pulls (internal/forward) and the rules of the derive stage           *)
(* (internal/derive) that need to know which boot of the router, and which  *)
(* life of the agent, a sample is of.                                       *)
(* The boot id comes with a health read, the samples with pulls, what       *)
(* RouterOS logged about the boot with a round of the API tier; each of     *)
(* them may fail or come late, the router may reboot again, the agent may   *)
(* restart under the same boot, and the router's wall clock, which every    *)
(* sample carries, may step back with a reboot.                             *)
(* The collector's own clock is counted in Tick, the router's in the wall   *)
(* of its samples.  Values and wording are left out: a summary is the set   *)
(* of boots whose samples it is of, a log clause the boot it is about.  The *)
(* agent's ring is large enough here to hold what one life sampled.        *)
(***************************************************************************)
EXTENDS Integers, Sequences, FiniteSets, SequencesExt

CONSTANTS
  HasAPI,      \* the collector has an API tier
  Refractory,  \* Options.RefractoryNS
  LeadUp,      \* leadUpNS
  FrozenKeep,  \* frozenKeepNS
  Hold,        \* bootLogHoldNS
  LogWait,     \* bootLogWait, in Ticks
  ReportsIDs,  \* whether agents report a boot id: a set of BOOLEAN
  Jumps,       \* what the wall clock can do at a reboot
  MaxLives,    \* bound: starts of the agent
  MaxSeq,      \* bound: samples of one life
  MaxWall      \* bound: the wall clock

VARIABLES
  router,    \* boot, wall clock, and the kernel log's clock
  agent,     \* its life, whether it reports a boot id, and its ring
  since,     \* the collector's cursor
  stage,     \* derive.Stage, the part of it these rules use
  due,       \* bootLogDue: ticks until the collector gives up, or None
  fired,     \* history: the detections handed to the sinks
  noted,     \* history: the boot changes NoteBoot saw
  met        \* history: the boots whose samples came before their boot id

vars == <<router, agent, since, stage, due, fired, noted, met>>

ASSUME CollectorAssumption ==
  /\ HasAPI \in BOOLEAN /\ ReportsIDs \subseteq BOOLEAN
  /\ Refractory \in Nat /\ LeadUp \in Nat /\ FrozenKeep \in Nat
  /\ Hold \in Nat /\ LogWait \in Nat
  /\ Jumps \subseteq Int
  /\ MaxLives \in Nat \ {0} /\ MaxSeq \in Nat /\ MaxWall \in Nat

None == 0   \* no boot, no life, no time
NoTime == -1

\* What a reboot detection says of RouterOS's log: the boot its lines are
\* about, or that there is no clause, or one of the three reasons for none.
NoLog == 0
Refused == -1
Unread == -2
Late == -3

Rules == {"agent-restart", "reboot"}

\* New.
NewStage ==
  [prevSeq |-> 0, prevKmsg |-> 0, lastFire |-> [r \in Rules |-> NoTime],
   suppressed |-> 0, recent |-> <<>>, frozen |-> {}, hasFrozen |-> FALSE,
   frozenAt |-> 0, bootID |-> None, bootSame |-> FALSE, bootFrom |-> None,
   bootLog |-> NoLog, wait |-> FALSE, heldAt |-> NoTime]
-----------------------------------------------------------------------------
(* The stage.                                                               *)

\* Any detection of the same rule is far enough back, on the wall clock of
\* the samples.
Quiet(st, rule, wall) ==
  st.lastFire[rule] # NoTime /\ wall - st.lastFire[rule] < Refractory

\* fire: the stage and the detections after one more.
Fire(st, out, d) ==
  IF Quiet(st, d.rule, d.wall)
  THEN [st |-> [st EXCEPT !.suppressed = @ + 1], out |-> out]
  ELSE [st |-> [st EXCEPT !.lastFire[d.rule] = d.wall], out |-> Append(out, d)]

\* leadUp: the boots whose samples the window holds.
Summary(st) == {v.boot : v \in Range(st.recent)}

\* remember: this sample joins, the old ones at the front go.
Remember(st, s) ==
  LET all  == Append(st.recent, [wall |-> s.wall, boot |-> s.boot])
      kept == {i \in DOMAIN all : s.wall - all[i].wall <= LeadUp}
      cut  == CHOOSE i \in kept : \A j \in kept : i <= j
  IN  [st EXCEPT !.recent = SubSeq(all, cut, Len(all))]

\* bootClause, in an agent-restart.
BootClause(st) ==
  IF st.bootFrom # None THEN "changed" ELSE IF st.bootSame THEN "same" ELSE "unknown"

\* heldForBootLog: whether the detection still waits, and the stage after.
Held(st, wall) ==
  LET at == IF st.heldAt = NoTime THEN wall ELSE st.heldAt
      on == st.wait /\ wall >= at /\ wall - at < Hold
  IN  [held |-> on,
       st |-> IF ~st.wait THEN st
              ELSE IF on THEN [st EXCEPT !.heldAt = at]
              ELSE [st EXCEPT !.heldAt = at, !.wait = FALSE, !.bootLog = Late]]

\* leadUpForReboot: the summary frozen at the restart, once, while it is
\* recent.
Frozen(st, wall) ==
  st.hasFrozen /\ wall >= st.frozenAt /\ wall - st.frozenAt <= FrozenKeep
RebootSummary(st, wall) ==
  IF Frozen(st, wall) THEN [of |-> st.frozen, st |-> [st EXCEPT !.frozen = {}, !.hasFrozen = FALSE]]
  ELSE [of |-> Summary(st), st |-> st]

\* The agent numbers its samples from 1 again: the window is frozen before
\* the new life's first sample joins it.
AgentRestart(st, s) ==
  IF st.prevSeq = 0 \/ s.seq >= st.prevSeq THEN [st |-> st, out |-> <<>>]
  ELSE LET cold == [st EXCEPT !.frozen = Summary(st), !.hasFrozen = TRUE,
                              !.frozenAt = s.wall, !.recent = <<>>]
       IN  Fire(cold, <<>>, [rule |-> "agent-restart", wall |-> s.wall, life |-> s.life,
                             clause |-> BootClause(st), of |-> cold.frozen])

\* The reboot a boot id told, unless it waits for the boot log.
RebootByID(r, s) ==
  LET h == Held(r.st, s.wall)
      u == RebootSummary(h.st, s.wall)
      f == Fire(u.st, r.out, [rule |-> "reboot", wall |-> s.wall, by |-> "id",
                              from |-> r.st.bootFrom, to |-> r.st.bootID,
                              log |-> h.st.bootLog, of |-> u.of])
  IN  IF r.st.bootFrom = None THEN r
      ELSE IF h.held THEN [r EXCEPT !.st = h.st]
      ELSE [f EXCEPT !.st.bootFrom = None, !.st.bootLog = NoLog, !.st.heldAt = NoTime]

\* kmsgRules, as to its clock: a record below the one before it is of another
\* boot.
RebootByKmsg(r, s) ==
  LET u == RebootSummary(r.st, s.wall)
      f == Fire(u.st, r.out, [rule |-> "reboot", wall |-> s.wall, by |-> "kmsg",
                              to |-> s.boot, of |-> u.of])
  IN  IF s.kmsg = 0 THEN r
      ELSE IF r.st.prevKmsg > 0 /\ s.kmsg < r.st.prevKmsg
      THEN [f EXCEPT !.st.prevKmsg = s.kmsg]
      ELSE [r EXCEPT !.st.prevKmsg = s.kmsg]

\* Kernel, in the order of its rules.
Kernel(st, s) ==
  LET told  == RebootByID(AgentRestart(st, s), s)
      known == [told EXCEPT !.st = Remember([told.st EXCEPT !.prevSeq = s.seq], s)]
  IN  RebootByKmsg(known, s)

\* The new kernel's log is taken for the old one's.
NoteBoot_Mutant(st, id) ==
  LET same == [st EXCEPT !.bootSame = id # None /\ id = st.bootID]
  IN  IF id = None \/ id = st.bootID THEN [st |-> same, changed |-> FALSE]
      ELSE IF st.bootID = None
      THEN [st |-> [same EXCEPT !.bootID = id], changed |-> FALSE]
      ELSE [st |-> [same EXCEPT !.bootID = id, !.bootFrom = st.bootID], changed |-> TRUE]

\* NoteBoot: an id is unknown, known, the first, or a change.
NoteBoot(st, id) ==
  LET same == [st EXCEPT !.bootSame = id # None /\ id = st.bootID]
  IN  IF id = None \/ id = st.bootID THEN [st |-> same, changed |-> FALSE]
      ELSE IF st.bootID = None
      THEN [st |-> [same EXCEPT !.bootID = id], changed |-> FALSE]
      ELSE [st |-> [same EXCEPT !.bootID = id, !.bootFrom = st.bootID, !.prevKmsg = 0],
            changed |-> TRUE]

\* What a read before this boot left is what the detection quotes.
AwaitBootLog_Mutant(st) == st

\* AwaitBootLog.
AwaitBootLog(st) == IF st.bootFrom = None THEN st ELSE [st EXCEPT !.wait = TRUE]

\* NoteBootLog: the lines about a boot, or that they could not be read.
NoteBootLog(st, log) == [st EXCEPT !.bootLog = log, !.wait = FALSE]
-----------------------------------------------------------------------------
(* The router and its agent.                                                *)

Init ==
  /\ \E id \in ReportsIDs : agent = [life |-> 1, ids |-> id, ring |-> <<>>]
  /\ router = [boot |-> 1, wall |-> 1, kmsg |-> 1]
  /\ since = 0 /\ due = None
  /\ stage = [NewStage EXCEPT !.bootID = IF agent.ids THEN 1 ELSE None]
  /\ fired = <<>> /\ noted = {} /\ met = {}

\* A sample, with a record of the kernel log or without.  The kernel log's
\* clock starts again with a boot.
Sample ==
  /\ Len(agent.ring) < MaxSeq
  /\ \E step \in {0, 1}, record \in BOOLEAN :
       /\ router.wall + step <= MaxWall
       /\ router' = [router EXCEPT !.wall = @ + step, !.kmsg = IF record THEN @ + 1 ELSE @]
       /\ agent' = [agent EXCEPT !.ring =
            Append(@, [seq |-> Len(@) + 1, wall |-> router.wall + step,
                       life |-> agent.life, boot |-> router.boot,
                       kmsg |-> IF record THEN router.kmsg ELSE 0])]
  /\ UNCHANGED <<since, stage, due, fired, noted, met>>

\* The agent starts again, under the same boot or under a new one; with a
\* new boot the wall clock may be wrong until it is corrected.
Restart ==
  /\ agent.life < MaxLives
  /\ \E id \in ReportsIDs :
       agent' = [life |-> agent.life + 1, ids |-> id, ring |-> <<>>]
  /\ \/ UNCHANGED router
     \/ \E jump \in Jumps :
          LET wall == router.wall + jump
          IN  router' = [boot |-> router.boot + 1, kmsg |-> 1,
                         wall |-> IF wall < 1 THEN 1
                                  ELSE IF wall > MaxWall THEN MaxWall ELSE wall]
  /\ UNCHANGED <<since, stage, due, fired, noted, met>>
-----------------------------------------------------------------------------
(* The collector.                                                           *)

\* pullOnce, one line of it: the next sample after the cursor.
Pull ==
  /\ since < Len(agent.ring)
  /\ LET s == agent.ring[since + 1]
         k == Kernel(stage, s)
     IN  /\ stage' = k.st
         /\ fired' = fired \o k.out
         /\ since' = s.seq
         /\ met' = IF s.boot > stage.bootID THEN met \cup {s.boot} ELSE met
  /\ UNCHANGED <<router, agent, due, noted>>

\* The boot log as the API tier answers it: of the boot the router is in; a
\* refusal, which is an answer too; nothing, while the connection is down.
LogAnswers == {router.boot, Refused}

\* The wait ends and the stage is not told.
Settled_Mutant(st, log) == stage' = st /\ due' = None

\* readBootLog, when a read is due: the lines, the refusal, or that the wait
\* is over.
Settled(st, log) == stage' = NoteBootLog(st, log) /\ due' = None

\* resync, with the ring's oldest sample its first: from the start of the new
\* life.
Resynced(cursor) == IF cursor <= Len(agent.ring) THEN cursor ELSE 0

\* Every health read while the reboot is not told starts the wait again.
Health_Mutant ==
  LET n == NoteBoot(stage, IF agent.ids THEN router.boot ELSE None)
  IN  /\ since' = Resynced(since)
      /\ noted' = IF n.changed THEN noted \cup {router.boot} ELSE noted
      /\ stage' = AwaitBootLog(n.st)
      /\ due' = IF n.st.bootFrom = None THEN due ELSE LogWait + 1
      /\ UNCHANGED <<router, agent, fired, met>>

\* remeasure: resync, then noteBoot with its first read of the boot log.  A
\* health read that fails changes nothing.
Health ==
  LET n == NoteBoot(stage, IF agent.ids THEN router.boot ELSE None)
      st == IF n.changed /\ HasAPI THEN AwaitBootLog(n.st) ELSE n.st
  IN  /\ since' = Resynced(since)
      /\ noted' = IF n.changed THEN noted \cup {router.boot} ELSE noted
      /\ \/ n.changed /\ HasAPI /\ \E log \in LogAnswers : Settled(st, log)
         \/ /\ n.changed /\ HasAPI
            /\ stage' = st /\ due' = LogWait + 1
         \/ /\ ~n.changed \/ ~HasAPI
            /\ stage' = st /\ due' = due
      /\ UNCHANGED <<router, agent, fired, met>>

\* An API round, and readBootLog after it.  Once the wait is over the
\* connection's error is handed on.
ApiRound ==
  /\ HasAPI /\ due # None
  /\ \/ \E log \in LogAnswers : Settled(stage, log)
     \/ due = 1 /\ Settled(stage, Unread)
  /\ UNCHANGED <<router, agent, since, fired, noted, met>>

\* The collector's clock, as far as a wait for the boot log tells it.
Tick ==
  /\ due > 1
  /\ due' = due - 1
  /\ UNCHANGED <<router, agent, since, stage, fired, noted, met>>

Next == Sample \/ Restart \/ Pull \/ Health \/ ApiRound \/ Tick

Spec == Init /\ [][Next]_vars

\* API rounds keep coming whatever they bring, and the clock passes: the
\* round after the wait is over settles it.  No answer before it is assumed.
Fairness == WF_vars(due = 1 /\ ApiRound) /\ WF_vars(Tick)
FairSpec == Spec /\ Fairness
-----------------------------------------------------------------------------
(* Properties.                                                              *)

Boots == 1 .. MaxLives
Logs == {NoLog, Refused, Unread, Late} \cup Boots
Rebooted(i) == fired[i].rule = "reboot"

\* The collector's cursor never passes what one life samples, the stage's
\* boots are boots the router was in, and a detection that waits has a read
\* of the boot log to wait for (derive.go:AwaitBootLog, forward.go:noteBoot).
TypeOK ==
  /\ router.boot \in Boots /\ router.boot <= agent.life
  /\ agent.life \in 1 .. MaxLives /\ Len(agent.ring) <= MaxSeq
  /\ since \in 0 .. MaxSeq
  /\ stage.bootID \in 0 .. router.boot /\ stage.bootFrom \in 0 .. stage.bootID
  /\ stage.bootLog \in Logs
  /\ stage.wait => due # None
  /\ due \in 0 .. LogWait + 1

\* The lines a reboot detection quotes from RouterOS's log are never about a
\* boot before the one it tells: what an earlier read left behind is not
\* handed to a later reboot (derive.go:AwaitBootLog, heldForBootLog).
LogOfItsBoot ==
  \A i \in DOMAIN fired :
    Rebooted(i) /\ fired[i].by = "id" /\ fired[i].log > 0 => fired[i].log >= fired[i].to

\* One reboot is one detection, by its boot id or by its kernel log, however
\* health reads, pulls and restarts of the agent interleave; except for a boot
\* whose samples were pulled before a health read told its id
\* (derive.go:NoteBoot, "fire reboot a second time").
DetectedOnce ==
  \A b \in Boots \ met :
    Cardinality({i \in DOMAIN fired : Rebooted(i) /\ fired[i].to = b}) <= 1

\* A read of the boot log that is due is settled, whether RouterOS answers or
\* not, whatever health reads come meanwhile (forward.go:readBootLog).
BootLogSettles == due # None ~> due = None

\* What NoteBoot's comment says: after a change of the boot id the next kernel
\* sample fires reboot for it.
RebootTold ==
  stage.bootFrom = None /\ stage.bootID \in noted =>
    \E i \in DOMAIN fired : Rebooted(i) /\ fired[i].to = stage.bootID
=============================================================================
