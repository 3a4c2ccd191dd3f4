--------------------------- MODULE CollectorProofs ---------------------------
(***************************************************************************)
(* Proofs about the collector, for every value of the constants.           *)
(* Collector: any refractory and holding time, any jumps of the wall       *)
(* clock, any number of reboots, restarts and samples, with an API tier or *)
(* without, agents that report a boot id or not.  The inductive invariant  *)
(* CollectorInv says, besides the types, what the agent's ring holds       *)
(* (RingHolds), which boot a log that waits to be quoted is about          *)
(* (LogKept), that a reboot detected is one the stage is not waiting to    *)
(* tell (Told, Once), and that the kernel log clock the stage compares     *)
(* with is of this boot once this boot's reboot is told or is to be told   *)
(* (Fresh).                                                                *)
(* ApiTier: any cadence, any number of reboots and faults, any depth of    *)
(* unread replies.  An inventory of an earlier connection is asked for     *)
(* again, the sinks are handed the one the rows are labelled with, and no  *)
(* countdown, stream or round leaves its range.                            *)
(***************************************************************************)
EXTENDS Collector, ApiTier, DataLemmas, FiniteSetTheorems

\* What a sample, the stage's window and the stage hold.
SampleRecord ==
  [seq : Nat, wall : Nat, life : Nat, boot : Nat, kmsg : Nat]
WindowRecord == [wall : Nat, boot : Nat]
StageRecord ==
  [prevSeq : Nat, prevKmsg : Nat, lastFire : [Rules -> Int], suppressed : Nat,
   recent : Seq(WindowRecord), frozen : SUBSET Nat, hasFrozen : BOOLEAN,
   frozenAt : Nat, bootID : Nat, bootSame : BOOLEAN, bootFrom : Nat,
   bootLog : Int, wait : BOOLEAN, heldAt : Int]

\* The detections of the three rules.
RestartDetection ==
  [rule : {"agent-restart"}, wall : Nat, life : Nat,
   clause : {"changed", "same", "unknown"}, of : SUBSET Nat]
IdDetection ==
  [rule : {"reboot"}, wall : Nat, by : {"id"}, from : Nat, to : Nat, log : Int,
   of : SUBSET Nat]
KmsgDetection ==
  [rule : {"reboot"}, wall : Nat, by : {"kmsg"}, to : Nat, of : SUBSET Nat]
Detection == RestartDetection \cup IdDetection \cup KmsgDetection

\* The records are what the code's fields can hold.
Records ==
  /\ router \in [boot : Nat \ {0}, wall : Nat, kmsg : Nat \ {0}]
  /\ agent \in [life : Nat, ids : BOOLEAN, ring : Seq(SampleRecord)]
  /\ stage \in StageRecord
  /\ fired \in Seq(Detection)
  /\ since \in Nat /\ due \in Nat

\* A life's samples are numbered from 1 and of the router's boot; the kernel
\* log records among them ascend, up to the log's clock.
RingHolds ==
  /\ \A i \in 1 .. Len(agent.ring) :
       /\ agent.ring[i].seq = i /\ agent.ring[i].boot = router.boot
       /\ agent.ring[i].kmsg < router.kmsg
  /\ \A i, j \in 1 .. Len(agent.ring) :
       i < j /\ agent.ring[i].kmsg # 0 /\ agent.ring[j].kmsg # 0
         => agent.ring[i].kmsg < agent.ring[j].kmsg

\* A reboot to be told quotes its own boot's log, unless it waits for it.
LogKept ==
  /\ stage.bootFrom # None /\ ~stage.wait /\ stage.bootLog > 0
       => stage.bootLog >= stage.bootID
  /\ ~HasAPI => ~stage.wait /\ stage.bootLog = NoLog

\* Of the boots whose samples never came before their id: no reboot was
\* detected beyond the one the stage knows, which is not still to be told.
Told ==
  \A i \in 1 .. Len(fired) :
    Rebooted(i) /\ fired[i].to \notin met =>
      /\ fired[i].to \in 1 .. stage.bootID
      /\ stage.bootFrom # None => fired[i].to # stage.bootID

\* DetectedOnce, detection by detection.
Once ==
  \A i, j \in 1 .. Len(fired) :
    Rebooted(i) /\ Rebooted(j) /\ fired[i].to = fired[j].to /\ fired[i].to \notin met
      => i = j

\* A reboot to be told, or told, of a boot that is not in met.
Settling ==
  /\ stage.bootID = router.boot /\ router.boot \notin met
  /\ \/ stage.bootFrom # None
     \/ \E i \in 1 .. Len(fired) : Rebooted(i) /\ fired[i].to = stage.bootID

\* Then no record still to be pulled is below the last one pulled.
Fresh ==
  Settling =>
    /\ stage.prevKmsg < router.kmsg
    /\ \A i \in (Resynced(since) + 1) .. Len(agent.ring) :
         agent.ring[i].kmsg # 0 => stage.prevKmsg < agent.ring[i].kmsg

\* The inductive invariant.
CollectorInv ==
  /\ Records
  /\ TypeOK
  /\ RingHolds
  /\ LogOfItsBoot
  /\ LogKept
  /\ Told
  /\ Once
  /\ Fresh
-----------------------------------------------------------------------------
(* The stage, rule by rule.                                                *)

\* The two stages agree on the router's boot.
SameBoot(a, b) ==
  /\ a.bootID = b.bootID /\ a.bootFrom = b.bootFrom /\ a.wait = b.wait
  /\ a.bootLog = b.bootLog /\ a.prevKmsg = b.prevKmsg

\* A stage and detections, as the rules hand them on.
IsResult(r, S) ==
  /\ r = [st |-> r.st, out |-> r.out]
  /\ r.st \in StageRecord /\ r.out \in Seq(S)

LEMMA CollectorConstants ==
  /\ HasAPI \in BOOLEAN /\ ReportsIDs \subseteq BOOLEAN
  /\ LeadUp \in Nat /\ Hold \in Nat /\ LogWait \in Nat /\ Refractory \in Nat
  /\ Jumps \subseteq Int /\ FrozenKeep \in Nat
  /\ MaxLives \in Nat \ {0} /\ MaxSeq \in Nat /\ MaxWall \in Nat
BY CollectorAssumption

\* fire adds the detection or does not, and leaves the rest of the stage.
LEMMA FireShape ==
  ASSUME NEW st \in StageRecord, NEW S, NEW out \in Seq(S), NEW d \in S,
         d.rule \in Rules, d.wall \in Nat, NEW r, r = Fire(st, out, d)
  PROVE  /\ IsResult(r, S) /\ SameBoot(r.st, st)
         /\ r.out = out \/ r.out = Append(out, d)
<1>1. CASE Quiet(st, d.rule, d.wall)
  <2>1. r = [st |-> [st EXCEPT !.suppressed = @ + 1], out |-> out]
    BY <1>1 DEF Fire
  <2>2. [st EXCEPT !.suppressed = @ + 1] \in StageRecord
    <3>1. st.suppressed + 1 \in Nat
      BY DEF StageRecord
    <3> QED BY <3>1 DEF StageRecord
  <2>3. SameBoot([st EXCEPT !.suppressed = @ + 1], st)
    BY DEF StageRecord, SameBoot
  <2> QED BY <2>1, <2>2, <2>3 DEF IsResult
<1>2. CASE ~ Quiet(st, d.rule, d.wall)
  <2>1. r = [st |-> [st EXCEPT !.lastFire[d.rule] = d.wall], out |-> Append(out, d)]
    BY <1>2 DEF Fire
  <2>2. [st EXCEPT !.lastFire[d.rule] = d.wall] \in StageRecord
    <3> DEFINE f == [st.lastFire EXCEPT ![d.rule] = d.wall]
    <3>1. f \in [Rules -> Int]
      BY DEF StageRecord
    <3>2. [st EXCEPT !.lastFire = f] \in StageRecord
      <4> HIDE DEF f
      <4> QED BY <3>1 DEF StageRecord
    <3> QED BY <3>2
  <2>3. SameBoot([st EXCEPT !.lastFire[d.rule] = d.wall], st)
    BY DEF StageRecord, SameBoot
  <2>4. Append(out, d) \in Seq(S)
    OBVIOUS
  <2> QED BY <2>1, <2>2, <2>3, <2>4 DEF IsResult
<1> QED
  BY <1>1, <1>2

\* The boots of the window are numbers.
LEMMA SummaryType ==
  ASSUME NEW st \in StageRecord PROVE Summary(st) \in SUBSET Nat
<1>1. st.recent \in Seq(WindowRecord)
  BY DEF StageRecord
<1>2. \A v \in Range(st.recent) : v \in WindowRecord
  <2>1. DOMAIN st.recent = 1 .. Len(st.recent)
    BY <1>1, LenProperties
  <2>2. \A i \in 1 .. Len(st.recent) : st.recent[i] \in WindowRecord
    BY <1>1, ElementOfSeq
  <2> QED BY <2>1, <2>2 DEF Range
<1> QED
  BY <1>2 DEF Summary, WindowRecord

\* A restart of the agent is told, or nothing is.
LEMMA RestartShape ==
  ASSUME NEW st \in StageRecord, NEW s \in SampleRecord,
         NEW r, r = AgentRestart(st, s)
  PROVE  IsResult(r, RestartDetection) /\ SameBoot(r.st, st)
<1>0. s.seq \in Nat /\ s.wall \in Nat /\ s.life \in Nat
  BY DEF SampleRecord
<1>1. CASE st.prevSeq = 0 \/ s.seq >= st.prevSeq
  <2>1. r = [st |-> st, out |-> <<>>]
    BY <1>1 DEF AgentRestart
  <2> QED BY <2>1 DEF IsResult, SameBoot
<1>2. CASE ~ (st.prevSeq = 0 \/ s.seq >= st.prevSeq)
  <2> DEFINE cold == [st EXCEPT !.frozen = Summary(st), !.hasFrozen = TRUE,
                                !.frozenAt = s.wall, !.recent = <<>>]
             d == [rule |-> "agent-restart", wall |-> s.wall, life |-> s.life,
                   clause |-> BootClause(st), of |-> cold.frozen]
  <2>1. r = Fire(cold, <<>>, d)
    BY <1>2 DEF AgentRestart
  <2>2. cold \in StageRecord /\ SameBoot(cold, st) /\ cold.frozen \in SUBSET Nat
    <3>1. Summary(st) \in SUBSET Nat /\ <<>> \in Seq(WindowRecord)
      BY SummaryType
    <3>2. cold \in StageRecord
      BY <1>0, <3>1 DEF StageRecord
    <3>3. SameBoot(cold, st)
      BY DEF StageRecord, SameBoot
    <3> QED BY <3>2, <3>3 DEF StageRecord
  <2>3. BootClause(st) \in {"changed", "same", "unknown"}
    BY DEF BootClause
  <2>4. d \in RestartDetection /\ d.rule \in Rules /\ d.wall \in Nat
    BY <1>0, <2>2, <2>3 DEF RestartDetection, Rules
  <2> HIDE DEF cold, d
  <2>5. IsResult(r, RestartDetection) /\ SameBoot(r.st, cold)
    <3>1. <<>> \in Seq(RestartDetection)
      OBVIOUS
    <3> QED BY <2>1, <2>2, <2>4, <3>1, FireShape
  <2> QED BY <2>2, <2>5 DEF SameBoot
<1> QED
  BY <1>1, <1>2

\* Whether the detection waits for the boot log: then it did before, and
\* otherwise it gives up on a log it waited for.
LEMMA HeldShape ==
  ASSUME NEW st \in StageRecord, NEW wall \in Nat, NEW h, h = Held(st, wall)
  PROVE  /\ h.st \in StageRecord /\ h.held \in BOOLEAN
         /\ h.st.bootID = st.bootID /\ h.st.bootFrom = st.bootFrom
         /\ h.st.prevKmsg = st.prevKmsg
         /\ h.held => st.wait /\ h.st.wait /\ h.st.bootLog = st.bootLog
         /\ ~ h.held => /\ ~ h.st.wait
                        /\ h.st.bootLog = IF st.wait THEN Late ELSE st.bootLog
<1> DEFINE at == IF st.heldAt = NoTime THEN wall ELSE st.heldAt
           on == st.wait /\ wall >= at /\ wall - at < Hold
           next == IF ~st.wait THEN st
                   ELSE IF on THEN [st EXCEPT !.heldAt = at]
                   ELSE [st EXCEPT !.heldAt = at, !.wait = FALSE, !.bootLog = Late]
<1>1. h.held = on /\ h.st = next
  BY DEF Held
<1>2. at \in Int /\ st.wait \in BOOLEAN /\ on \in BOOLEAN /\ Late \in Int
  BY DEF StageRecord, Late
<1> HIDE DEF at
<1>3. CASE ~ st.wait
  BY <1>1, <1>3
<1>4. CASE st.wait /\ on
  <2>1. next = [st EXCEPT !.heldAt = at]
    BY <1>4
  <2>2. [st EXCEPT !.heldAt = at] \in StageRecord
    BY <1>2 DEF StageRecord
  <2>3. /\ [st EXCEPT !.heldAt = at].bootID = st.bootID
        /\ [st EXCEPT !.heldAt = at].bootFrom = st.bootFrom
        /\ [st EXCEPT !.heldAt = at].prevKmsg = st.prevKmsg
        /\ [st EXCEPT !.heldAt = at].wait = st.wait
        /\ [st EXCEPT !.heldAt = at].bootLog = st.bootLog
    BY DEF StageRecord
  <2> HIDE DEF next, on
  <2> QED BY <1>1, <1>4, <2>1, <2>2, <2>3
<1>5. CASE st.wait /\ ~ on
  <2> DEFINE n == [st EXCEPT !.heldAt = at, !.wait = FALSE, !.bootLog = Late]
  <2>1. next = n
    BY <1>5
  <2>2. n \in StageRecord
    BY <1>2 DEF StageRecord
  <2>3. /\ n.bootID = st.bootID /\ n.bootFrom = st.bootFrom
        /\ n.prevKmsg = st.prevKmsg /\ n.wait = FALSE /\ n.bootLog = Late
    BY DEF StageRecord
  <2> HIDE DEF next, on, n
  <2> QED BY <1>1, <1>2, <1>5, <2>1, <2>2, <2>3
<1> QED
  BY <1>2, <1>3, <1>4, <1>5

LEMMA RebootSummaryShape ==
  ASSUME NEW st \in StageRecord, NEW wall, NEW u, u = RebootSummary(st, wall)
  PROVE  u.st \in StageRecord /\ SameBoot(u.st, st) /\ u.of \in SUBSET Nat
<1> DEFINE n == [st EXCEPT !.frozen = {}, !.hasFrozen = FALSE]
<1>1. CASE Frozen(st, wall)
  <2>1. u = [of |-> st.frozen, st |-> n]
    BY <1>1 DEF RebootSummary
  <2>2. n \in StageRecord /\ SameBoot(n, st) /\ st.frozen \in SUBSET Nat
    BY DEF StageRecord, SameBoot
  <2> HIDE DEF n
  <2> QED BY <2>1, <2>2
<1>2. CASE ~ Frozen(st, wall)
  <2>1. u = [of |-> Summary(st), st |-> st]
    BY <1>2 DEF RebootSummary
  <2>2. SameBoot(st, st)
    BY DEF SameBoot
  <2> QED BY <2>1, <2>2, SummaryType
<1> QED
  BY <1>1, <1>2

\* The detection of the reboot the stage was told of by its boot id.
IsIdOf(d, st) ==
  /\ d \in IdDetection /\ d.to = st.bootID
  /\ d.log > 0 => ~ st.wait /\ d.log = st.bootLog

\* What the stage still has to tell after a sample, or has told with it.
NotTold(a, st) ==
  /\ a.bootFrom = st.bootFrom /\ a.wait = st.wait /\ a.bootLog = st.bootLog
  /\ st.bootFrom = None \/ st.wait
JustTold(a, st) ==
  st.bootFrom # None /\ a.bootFrom = None /\ a.wait = FALSE /\ a.bootLog = NoLog

\* Once told, the stage is as it was but for what there was to tell.
LEMMA ToldShape ==
  ASSUME NEW st \in StageRecord,
         NEW n, n = [st EXCEPT !.bootFrom = None, !.bootLog = NoLog, !.heldAt = NoTime]
  PROVE  /\ n \in StageRecord /\ n.bootFrom = None /\ n.bootLog = NoLog
         /\ n.wait = st.wait /\ n.bootID = st.bootID /\ n.prevKmsg = st.prevKmsg
<1>1. None \in Nat /\ NoLog \in Int /\ NoTime \in Int
  BY DEF None, NoLog, NoTime
<1>2. n \in StageRecord
  BY <1>1 DEF StageRecord
<1>3. /\ n.bootFrom = None /\ n.bootLog = NoLog
      /\ n.wait = st.wait /\ n.bootID = st.bootID /\ n.prevKmsg = st.prevKmsg
  BY DEF StageRecord
<1> QED
  BY <1>2, <1>3

\* The rule of the boot id: nothing is due, or it waits, or it is told.
LEMMA ByIDShape ==
  ASSUME NEW r, IsResult(r, RestartDetection), NEW s \in SampleRecord,
         NEW q, q = RebootByID(r, s)
  PROVE  /\ IsResult(q, RestartDetection \cup IdDetection)
         /\ q.st.bootID = r.st.bootID /\ q.st.prevKmsg = r.st.prevKmsg
         /\ \/ NotTold(q.st, r.st) /\ q.out = r.out
            \/ /\ JustTold(q.st, r.st)
               /\ \/ q.out = r.out
                  \/ \E d : IsIdOf(d, r.st) /\ q.out = Append(r.out, d)
<1> DEFINE S == RestartDetection \cup IdDetection
           st == r.st
           h == Held(st, s.wall)
           u == RebootSummary(h.st, s.wall)
           d == [rule |-> "reboot", wall |-> s.wall, by |-> "id",
                 from |-> st.bootFrom, to |-> st.bootID,
                 log |-> h.st.bootLog, of |-> u.of]
           f == Fire(u.st, r.out, d)
<1>1. /\ r = [st |-> st, out |-> r.out] /\ st \in StageRecord
      /\ r.out \in Seq(RestartDetection) /\ r.out \in Seq(S)
  <2>1. r = [st |-> st, out |-> r.out] /\ st \in StageRecord /\ r.out \in Seq(RestartDetection)
    BY DEF IsResult
  <2>2. \A i \in 1 .. Len(r.out) : r.out[i] \in S
    BY <2>1, ElementOfSeq
  <2> QED BY <2>1, <2>2, Retyped
<1>2. s.wall \in Nat
  BY DEF SampleRecord
<1>3. st.bootFrom \in Nat /\ st.bootID \in Nat /\ st.wait \in BOOLEAN
  BY <1>1 DEF StageRecord
<1>4. CASE st.bootFrom = None
  <2>1. q = r
    BY <1>4 DEF RebootByID
  <2> QED BY <1>1, <1>4, <2>1 DEF IsResult, NotTold
<1>5. CASE st.bootFrom # None
  <2>1. q = IF h.held THEN [r EXCEPT !.st = h.st]
            ELSE [f EXCEPT !.st.bootFrom = None, !.st.bootLog = NoLog, !.st.heldAt = NoTime]
    BY <1>5 DEF RebootByID
  <2>2. /\ h.st \in StageRecord /\ h.held \in BOOLEAN
        /\ h.st.bootID = st.bootID /\ h.st.bootFrom = st.bootFrom
        /\ h.st.prevKmsg = st.prevKmsg
        /\ h.held => st.wait /\ h.st.wait /\ h.st.bootLog = st.bootLog
        /\ ~ h.held => /\ ~ h.st.wait
                       /\ h.st.bootLog = IF st.wait THEN Late ELSE st.bootLog
    BY <1>1, <1>2, HeldShape
  <2>3. CASE h.held
    <3> HIDE DEF h
    <3>1. q = [st |-> h.st, out |-> r.out]
      BY <1>1, <2>1, <2>3
    <3>2. NotTold(q.st, st)
      <4>1. h.st.wait = st.wait
        BY <1>3, <2>2, <2>3 DEF StageRecord
      <4> QED BY <2>2, <2>3, <3>1, <4>1 DEF NotTold
    <3> QED BY <1>1, <2>2, <3>1, <3>2 DEF IsResult
  <2>4. CASE ~ h.held
    <3>1. u.st \in StageRecord /\ SameBoot(u.st, h.st) /\ u.of \in SUBSET Nat
      <4> HIDE DEF h
      <4> QED BY <2>2, RebootSummaryShape
    <3>2. /\ d \in S /\ d.rule \in Rules /\ d.wall \in Nat
          /\ IsIdOf(d, st)
      <4>1. h.st.bootLog \in Int
        BY <2>2 DEF StageRecord
      <4> HIDE DEF h, u
      <4>2. d \in IdDetection /\ d.rule \in Rules /\ d.wall \in Nat
            /\ d.to = st.bootID /\ d.log = h.st.bootLog
        BY <1>2, <1>3, <3>1, <4>1 DEF IdDetection, Rules
      <4> HIDE DEF d
      <4>3. d.log > 0 => ~ st.wait /\ d.log = st.bootLog
        BY <2>2, <2>4, <4>2 DEF Late
      <4> QED BY <4>2, <4>3 DEF IsIdOf
    <3> HIDE DEF d, S
    <3>3. /\ IsResult(f, S) /\ SameBoot(f.st, u.st)
          /\ f.out = r.out \/ f.out = Append(r.out, d)
      <4> HIDE DEF u
      <4> QED BY <1>1, <3>1, <3>2, FireShape
    <3> HIDE DEF h, u, f
    <3>4. f = [st |-> f.st, out |-> f.out] /\ f.st \in StageRecord
          /\ f.out \in Seq(S)
      BY <3>3 DEF IsResult
    <3> DEFINE n == [f.st EXCEPT !.bootFrom = None, !.bootLog = NoLog, !.heldAt = NoTime]
    <3>5. q = [st |-> n, out |-> f.out]
      BY <2>1, <2>4, <3>4
    <3>6. /\ n \in StageRecord /\ n.bootFrom = None /\ n.bootLog = NoLog
          /\ n.wait = f.st.wait /\ n.bootID = f.st.bootID /\ n.prevKmsg = f.st.prevKmsg
      BY <3>4, ToldShape
    <3>7. /\ f.st.wait = FALSE /\ f.st.bootID = st.bootID
          /\ f.st.prevKmsg = st.prevKmsg
      BY <2>2, <2>4, <3>1, <3>3 DEF SameBoot, StageRecord
    <3> HIDE DEF n
    <3>8. JustTold(q.st, st) /\ IsResult(q, S)
          /\ q.st.bootID = st.bootID /\ q.st.prevKmsg = st.prevKmsg
          /\ q.out = f.out
      BY <1>5, <3>4, <3>5, <3>6, <3>7 DEF JustTold, IsResult
    <3> QED BY <3>2, <3>3, <3>8 DEF S
  <2> QED BY <2>2, <2>3, <2>4
<1> QED
  BY <1>4, <1>5

\* The window after a sample is a window, and the rest is left alone.
LEMMA RememberShape ==
  ASSUME NEW st \in StageRecord, NEW s \in SampleRecord, NEW n, n = Remember(st, s)
  PROVE  n \in StageRecord /\ SameBoot(n, st)
<1> DEFINE e == [wall |-> s.wall, boot |-> s.boot]
           all == Append(st.recent, e)
           kept == {i \in DOMAIN all : s.wall - all[i].wall <= LeadUp}
           cut == CHOOSE i \in kept : \A j \in kept : i <= j
           w == SubSeq(all, cut, Len(all))
<1>1. st.recent \in Seq(WindowRecord) /\ e \in WindowRecord /\ e.wall = s.wall
      /\ s.wall \in Nat /\ LeadUp \in Nat
  BY CollectorConstants DEF StageRecord, SampleRecord, WindowRecord
<1> HIDE DEF e
<1>2. /\ all \in Seq(WindowRecord) /\ Len(all) = Len(st.recent) + 1
      /\ all[Len(st.recent) + 1] = e
  BY <1>1, AppendShape
<1>3. Len(st.recent) \in Nat /\ DOMAIN all = 1 .. Len(all)
  BY <1>1, <1>2, LenProperties
<1> HIDE DEF all
<1>4. Len(all) \in kept /\ kept \in SUBSET Nat
  <2>1. Len(all) \in 1 .. Len(all)
    BY <1>2, <1>3
  <2>2. s.wall - all[Len(all)].wall = 0
    BY <1>1, <1>2
  <2> QED BY <1>1, <1>3, <2>1, <2>2
<1>5. cut \in kept
  <2>1. \E x \in kept : \A y \in kept : x <= y
    <3> HIDE DEF kept
    <3> QED BY <1>4, LeastOf
  <2> HIDE DEF kept
  <2> QED BY <2>1
<1>6. cut \in 1 .. Len(all)
  BY <1>3, <1>5
<1>7. w \in Seq(WindowRecord)
  <2> HIDE DEF cut, kept
  <2>1. \A i \in cut .. Len(all) : all[i] \in WindowRecord
    BY <1>2, <1>6, ElementOfSeq
  <2>2. cut \in Int /\ Len(all) \in Int
    BY <1>2, <1>3, <1>6
  <2> QED BY <2>1, <2>2, SubSeqProperties
<1>8. n = [st EXCEPT !.recent = w]
  BY DEF Remember, all, e
<1> HIDE DEF w
<1>9. [st EXCEPT !.recent = w] \in StageRecord
  BY <1>7 DEF StageRecord
<1>10. SameBoot([st EXCEPT !.recent = w], st)
  BY DEF StageRecord, SameBoot
<1> QED
  BY <1>8, <1>9, <1>10

\* The rule of the kernel log's clock: it keeps the last record's, and tells
\* a reboot at most when the clock went back.
LEMMA ByKmsgShape ==
  ASSUME NEW r, IsResult(r, Detection),
         NEW s \in SampleRecord, NEW k, k = RebootByKmsg(r, s)
  PROVE  /\ IsResult(k, Detection)
         /\ k.st.bootID = r.st.bootID /\ k.st.bootFrom = r.st.bootFrom
         /\ k.st.wait = r.st.wait /\ k.st.bootLog = r.st.bootLog
         /\ k.st.prevKmsg = IF s.kmsg = 0 THEN r.st.prevKmsg ELSE s.kmsg
         /\ \/ k.out = r.out
            \/ /\ s.kmsg # 0 /\ s.kmsg < r.st.prevKmsg
               /\ \E e \in KmsgDetection : e.to = s.boot /\ k.out = Append(r.out, e)
<1> DEFINE st == r.st
           u == RebootSummary(st, s.wall)
           e == [rule |-> "reboot", wall |-> s.wall, by |-> "kmsg",
                 to |-> s.boot, of |-> u.of]
           f == Fire(u.st, r.out, e)
<1>1. /\ r = [st |-> st, out |-> r.out] /\ st \in StageRecord /\ r.out \in Seq(Detection)
  BY DEF IsResult
<1>2. s.wall \in Nat /\ s.kmsg \in Nat /\ s.boot \in Nat
  BY DEF SampleRecord
<1>3. u.st \in StageRecord /\ SameBoot(u.st, st) /\ u.of \in SUBSET Nat
  BY <1>1, RebootSummaryShape
<1>4. ASSUME NEW t \in StageRecord
      PROVE  /\ [t EXCEPT !.prevKmsg = s.kmsg] \in StageRecord
             /\ [t EXCEPT !.prevKmsg = s.kmsg].bootID = t.bootID
             /\ [t EXCEPT !.prevKmsg = s.kmsg].bootFrom = t.bootFrom
             /\ [t EXCEPT !.prevKmsg = s.kmsg].wait = t.wait
             /\ [t EXCEPT !.prevKmsg = s.kmsg].bootLog = t.bootLog
             /\ [t EXCEPT !.prevKmsg = s.kmsg].prevKmsg = s.kmsg
  <2>1. [t EXCEPT !.prevKmsg = s.kmsg] \in StageRecord
    BY <1>2 DEF StageRecord
  <2>2. /\ [t EXCEPT !.prevKmsg = s.kmsg].bootID = t.bootID
        /\ [t EXCEPT !.prevKmsg = s.kmsg].bootFrom = t.bootFrom
        /\ [t EXCEPT !.prevKmsg = s.kmsg].wait = t.wait
        /\ [t EXCEPT !.prevKmsg = s.kmsg].bootLog = t.bootLog
        /\ [t EXCEPT !.prevKmsg = s.kmsg].prevKmsg = s.kmsg
    BY DEF StageRecord
  <2> QED BY <2>1, <2>2
<1>5. k = IF s.kmsg = 0 THEN r
          ELSE IF st.prevKmsg > 0 /\ s.kmsg < st.prevKmsg
          THEN [f EXCEPT !.st.prevKmsg = s.kmsg]
          ELSE [r EXCEPT !.st.prevKmsg = s.kmsg]
  BY DEF RebootByKmsg
<1>6. CASE s.kmsg = 0
  BY <1>1, <1>5, <1>6
<1>7. CASE s.kmsg # 0 /\ st.prevKmsg > 0 /\ s.kmsg < st.prevKmsg
  <2>1. e \in KmsgDetection /\ e \in Detection /\ e.rule \in Rules /\ e.wall \in Nat
        /\ e.to = s.boot
    <3> HIDE DEF u
    <3> QED BY <1>2, <1>3 DEF KmsgDetection, Rules, Detection
  <2> HIDE DEF e
  <2>2. /\ IsResult(f, Detection) /\ SameBoot(f.st, u.st)
        /\ f.out = r.out \/ f.out = Append(r.out, e)
    <3> HIDE DEF u
    <3> QED BY <1>1, <1>3, <2>1, FireShape
  <2> HIDE DEF u, f
  <2>3. f = [st |-> f.st, out |-> f.out] /\ f.st \in StageRecord /\ f.out \in Seq(Detection)
    BY <2>2 DEF IsResult
  <2> DEFINE n == [f.st EXCEPT !.prevKmsg = s.kmsg]
  <2>4. k = [st |-> n, out |-> f.out]
    BY <1>5, <1>7, <2>3
  <2>5. /\ n \in StageRecord /\ n.bootID = f.st.bootID /\ n.bootFrom = f.st.bootFrom
        /\ n.wait = f.st.wait /\ n.bootLog = f.st.bootLog /\ n.prevKmsg = s.kmsg
    BY <1>4, <2>3
  <2> HIDE DEF n
  <2>6. IsResult(k, Detection) /\ k.st = n /\ k.out = f.out
    BY <2>3, <2>4, <2>5 DEF IsResult
  <2> QED BY <1>3, <1>7, <2>1, <2>2, <2>5, <2>6 DEF SameBoot
<1>8. CASE s.kmsg # 0 /\ ~ (st.prevKmsg > 0 /\ s.kmsg < st.prevKmsg)
  <2> DEFINE n == [st EXCEPT !.prevKmsg = s.kmsg]
  <2>1. k = [st |-> n, out |-> r.out]
    BY <1>1, <1>5, <1>8
  <2>2. /\ n \in StageRecord /\ n.bootID = st.bootID /\ n.bootFrom = st.bootFrom
        /\ n.wait = st.wait /\ n.bootLog = st.bootLog /\ n.prevKmsg = s.kmsg
    BY <1>1, <1>4
  <2> HIDE DEF n
  <2> QED BY <1>1, <1>8, <2>1, <2>2 DEF IsResult
<1> QED
  BY <1>6, <1>7, <1>8

\* What a sample makes of the stage, and the detections it brings: restarts
\* of the agent, the reboot that was told by its id, and a reboot that the
\* kernel log's clock tells, of each at most one.
Told1(d, st, a) == JustTold(a, st) /\ IsIdOf(d, st)
Told2(d, st, s) ==
  d \in KmsgDetection /\ d.to = s.boot /\ s.kmsg # 0 /\ s.kmsg < st.prevKmsg
KernelDid(k, st, s) ==
  /\ k.st \in StageRecord /\ k.out \in Seq(Detection)
  /\ k.st.bootID = st.bootID
  /\ NotTold(k.st, st) \/ JustTold(k.st, st)
  /\ k.st.prevKmsg = IF s.kmsg = 0 THEN st.prevKmsg ELSE s.kmsg
  /\ \A i \in 1 .. Len(k.out) :
       k.out[i] \in RestartDetection \/ Told1(k.out[i], st, k.st) \/ Told2(k.out[i], st, s)
  /\ \A i, j \in 1 .. Len(k.out) :
       \/ k.out[i] \in IdDetection /\ k.out[j] \in IdDetection
       \/ k.out[i] \in KmsgDetection /\ k.out[j] \in KmsgDetection
       => i = j

\* The three kinds of detection differ.
LEMMA Kinds ==
  ASSUME NEW d
  PROVE  /\ d \in RestartDetection => d.rule = "agent-restart"
         /\ d \in IdDetection => d.rule = "reboot" /\ d.by = "id"
         /\ d \in KmsgDetection => d.rule = "reboot" /\ d.by = "kmsg"
         /\ ~ (d \in RestartDetection /\ d \in IdDetection)
         /\ ~ (d \in RestartDetection /\ d \in KmsgDetection)
         /\ ~ (d \in IdDetection /\ d \in KmsgDetection)
BY DEF RestartDetection, IdDetection, KmsgDetection

LEMMA KernelShape ==
  ASSUME NEW st \in StageRecord, NEW s \in SampleRecord, NEW k, k = Kernel(st, s)
  PROVE  KernelDid(k, st, s)
<1> DEFINE a == AgentRestart(st, s)
           told == RebootByID(a, s)
           pre == [told.st EXCEPT !.prevSeq = s.seq]
           n == Remember(pre, s)
           known == [told EXCEPT !.st = n]
<1>1. k = RebootByKmsg(known, s)
  BY DEF Kernel
<1>2. IsResult(a, RestartDetection) /\ SameBoot(a.st, st)
  BY RestartShape
<1> HIDE DEF a
<1>3. /\ IsResult(told, RestartDetection \cup IdDetection)
      /\ told.st.bootID = a.st.bootID /\ told.st.prevKmsg = a.st.prevKmsg
      /\ \/ NotTold(told.st, a.st) /\ told.out = a.out
         \/ /\ JustTold(told.st, a.st)
            /\ \/ told.out = a.out
               \/ \E d : IsIdOf(d, a.st) /\ told.out = Append(a.out, d)
  BY <1>2, ByIDShape
<1> HIDE DEF told
<1>4. told = [st |-> told.st, out |-> told.out] /\ told.st \in StageRecord
      /\ told.out \in Seq(RestartDetection \cup IdDetection)
  BY <1>3 DEF IsResult
<1>5. pre \in StageRecord /\ SameBoot(pre, told.st)
  <2>1. s.seq \in Nat
    BY DEF SampleRecord
  <2>2. pre \in StageRecord
    BY <1>4, <2>1 DEF StageRecord
  <2>3. SameBoot(pre, told.st)
    BY <1>4 DEF StageRecord, SameBoot
  <2> QED BY <2>2, <2>3
<1> HIDE DEF pre
<1>6. n \in StageRecord /\ SameBoot(n, pre)
  BY <1>5, RememberShape
<1> HIDE DEF n
<1>7. known = [st |-> n, out |-> told.out]
  BY <1>4
<1>8. IsResult(known, Detection) /\ known.out = told.out /\ known.st = n
  <2>1. \A i \in 1 .. Len(told.out) : told.out[i] \in Detection
    <3>1. \A i \in 1 .. Len(told.out) : told.out[i] \in RestartDetection \cup IdDetection
      BY <1>4, ElementOfSeq
    <3> QED BY <3>1 DEF Detection
  <2>2. told.out \in Seq(Detection)
    BY <1>4, <2>1, Retyped
  <2> QED BY <1>6, <1>7, <2>2 DEF IsResult
<1> HIDE DEF known
<1>9. /\ IsResult(k, Detection)
      /\ k.st.bootID = known.st.bootID /\ k.st.bootFrom = known.st.bootFrom
      /\ k.st.wait = known.st.wait /\ k.st.bootLog = known.st.bootLog
      /\ k.st.prevKmsg = IF s.kmsg = 0 THEN known.st.prevKmsg ELSE s.kmsg
      /\ \/ k.out = known.out
         \/ /\ s.kmsg # 0 /\ s.kmsg < known.st.prevKmsg
            /\ \E e \in KmsgDetection : e.to = s.boot /\ k.out = Append(known.out, e)
  BY <1>1, <1>8, ByKmsgShape
<1>10. /\ k.st.bootID = st.bootID
       /\ k.st.prevKmsg = IF s.kmsg = 0 THEN st.prevKmsg ELSE s.kmsg
       /\ known.st.prevKmsg = st.prevKmsg
       /\ k.st.bootFrom = told.st.bootFrom /\ k.st.wait = told.st.wait
       /\ k.st.bootLog = told.st.bootLog
       /\ a.st.bootID = st.bootID /\ a.st.bootFrom = st.bootFrom
       /\ a.st.wait = st.wait /\ a.st.bootLog = st.bootLog
  BY <1>2, <1>3, <1>5, <1>6, <1>8, <1>9 DEF SameBoot
<1>11. \/ NotTold(k.st, st) /\ told.out = a.out
       \/ /\ JustTold(k.st, st)
          /\ \/ told.out = a.out
             \/ \E d : IsIdOf(d, st) /\ told.out = Append(a.out, d)
  BY <1>3, <1>10 DEF NotTold, JustTold, IsIdOf
<1>12. a.out \in Seq(RestartDetection)
       /\ \A i \in 1 .. Len(a.out) : a.out[i] \in RestartDetection
  <2>1. a.out \in Seq(RestartDetection)
    BY <1>2 DEF IsResult
  <2> QED BY <2>1, ElementOfSeq
<1>13. /\ \A i \in 1 .. Len(told.out) :
            told.out[i] \in RestartDetection \/ Told1(told.out[i], st, k.st)
       /\ \A i, j \in 1 .. Len(told.out) :
            told.out[i] \in IdDetection /\ told.out[j] \in IdDetection => i = j
       /\ \A i \in 1 .. Len(told.out) : told.out[i] \notin KmsgDetection
  <2>1. CASE told.out = a.out
    BY <1>12, <2>1, Kinds
  <2>2. CASE /\ JustTold(k.st, st)
             /\ \E d : IsIdOf(d, st) /\ told.out = Append(a.out, d)
    <3>1. PICK d : IsIdOf(d, st) /\ told.out = Append(a.out, d)
      BY <2>2
    <3> DEFINE S == RestartDetection \cup IdDetection
    <3>2. d \in IdDetection /\ d \in S /\ Told1(d, st, k.st)
      BY <2>2, <3>1 DEF IsIdOf, Told1
    <3>3. a.out \in Seq(S)
      <4>1. \A i \in 1 .. Len(a.out) : a.out[i] \in S
        BY <1>12
      <4> HIDE DEF S
      <4> QED BY <1>12, <4>1, Retyped
    <3> HIDE DEF S
    <3>4. /\ Len(told.out) = Len(a.out) + 1 /\ Len(a.out) \in Nat
          /\ \A i \in 1 .. Len(a.out) : told.out[i] = a.out[i]
          /\ told.out[Len(a.out) + 1] = d
      BY <3>1, <3>2, <3>3, AppendShape, LenProperties
    <3>5. \A i \in 1 .. Len(told.out) :
            \/ i \in 1 .. Len(a.out) /\ told.out[i] \in RestartDetection
            \/ i = Len(a.out) + 1 /\ told.out[i] = d
      BY <1>12, <3>4
    <3> QED BY <3>2, <3>5, Kinds
  <2> QED BY <1>11, <2>1, <2>2
<1>14. CASE k.out = told.out
  <2>1. k.st \in StageRecord /\ k.out \in Seq(Detection)
    BY <1>9 DEF IsResult
  <2>2. NotTold(k.st, st) \/ JustTold(k.st, st)
    BY <1>11
  <2> QED BY <1>10, <1>13, <1>14, <2>1, <2>2 DEF KernelDid
<1>15. CASE /\ s.kmsg # 0 /\ s.kmsg < known.st.prevKmsg
            /\ \E e \in KmsgDetection : e.to = s.boot /\ k.out = Append(known.out, e)
  <2>1. k.st \in StageRecord /\ k.out \in Seq(Detection)
    BY <1>9 DEF IsResult
  <2>2. NotTold(k.st, st) \/ JustTold(k.st, st)
    BY <1>11
  <2>3. PICK e \in KmsgDetection : e.to = s.boot /\ k.out = Append(known.out, e)
    BY <1>15
  <2>4. Told2(e, st, s) /\ e \in Detection
    BY <1>10, <1>15, <2>3 DEF Told2, Detection
  <2>5. told.out \in Seq(Detection) /\ k.out = Append(told.out, e)
    BY <1>8, <2>3 DEF IsResult
  <2>6. /\ Len(k.out) = Len(told.out) + 1 /\ Len(told.out) \in Nat
        /\ \A i \in 1 .. Len(told.out) : k.out[i] = told.out[i]
        /\ k.out[Len(told.out) + 1] = e
    BY <2>4, <2>5, AppendShape, LenProperties
  <2>7. \A i \in 1 .. Len(k.out) :
          \/ i \in 1 .. Len(told.out) /\ k.out[i] = told.out[i]
          \/ i = Len(told.out) + 1 /\ k.out[i] = e
    BY <2>6
  <2>8. \A i \in 1 .. Len(k.out) :
          k.out[i] \in RestartDetection \/ Told1(k.out[i], st, k.st) \/ Told2(k.out[i], st, s)
    BY <1>13, <2>4, <2>7
  <2>9. \A i, j \in 1 .. Len(k.out) :
          \/ k.out[i] \in IdDetection /\ k.out[j] \in IdDetection
          \/ k.out[i] \in KmsgDetection /\ k.out[j] \in KmsgDetection
          => i = j
    <3>1. e \in KmsgDetection /\ e \notin IdDetection
      BY <2>3, Kinds
    <3> SUFFICES ASSUME NEW i \in 1 .. Len(k.out), NEW j \in 1 .. Len(k.out),
                        \/ k.out[i] \in IdDetection /\ k.out[j] \in IdDetection
                        \/ k.out[i] \in KmsgDetection /\ k.out[j] \in KmsgDetection
                 PROVE  i = j
      OBVIOUS
    <3>2. CASE k.out[i] \in IdDetection /\ k.out[j] \in IdDetection
      <4>1. /\ i \in 1 .. Len(told.out) /\ told.out[i] \in IdDetection
            /\ j \in 1 .. Len(told.out) /\ told.out[j] \in IdDetection
        BY <2>7, <3>1, <3>2
      <4> QED BY <1>13, <4>1
    <3>3. CASE k.out[i] \in KmsgDetection /\ k.out[j] \in KmsgDetection
      <4>1. i = Len(told.out) + 1 /\ j = Len(told.out) + 1
        BY <1>13, <2>7, <3>3
      <4> QED BY <4>1
    <3> QED BY <3>2, <3>3
  <2> QED BY <1>10, <2>1, <2>2, <2>8, <2>9 DEF KernelDid
<1> QED
  BY <1>8, <1>9, <1>14, <1>15
-----------------------------------------------------------------------------
(* The steps.                                                              *)

\* The types of what the steps read.
LEMMA StateFacts ==
  ASSUME CollectorInv
  PROVE  /\ router \in [boot : Nat \ {0}, wall : Nat, kmsg : Nat \ {0}]
         /\ router.boot \in Nat \ {0} /\ router.wall \in Nat /\ router.kmsg \in Nat \ {0}
         /\ agent \in [life : Nat, ids : BOOLEAN, ring : Seq(SampleRecord)]
         /\ agent.life \in Nat /\ agent.ids \in BOOLEAN
         /\ agent.ring \in Seq(SampleRecord) /\ Len(agent.ring) \in Nat
         /\ stage \in StageRecord
         /\ stage.bootID \in Nat /\ stage.bootFrom \in Nat /\ stage.wait \in BOOLEAN
         /\ stage.bootLog \in Int /\ stage.prevKmsg \in Nat
         /\ fired \in Seq(Detection) /\ Len(fired) \in Nat
         /\ since \in Nat /\ due \in Nat
         /\ TypeOK /\ RingHolds /\ LogOfItsBoot /\ LogKept /\ Told /\ Once /\ Fresh
<1>1. /\ router \in [boot : Nat \ {0}, wall : Nat, kmsg : Nat \ {0}]
      /\ agent \in [life : Nat, ids : BOOLEAN, ring : Seq(SampleRecord)]
      /\ stage \in StageRecord /\ fired \in Seq(Detection)
      /\ since \in Nat /\ due \in Nat
      /\ TypeOK /\ RingHolds /\ LogOfItsBoot /\ LogKept /\ Told /\ Once /\ Fresh
  BY DEF CollectorInv, Records
<1>2. /\ router.boot \in Nat \ {0} /\ router.wall \in Nat /\ router.kmsg \in Nat \ {0}
      /\ agent.life \in Nat /\ agent.ids \in BOOLEAN /\ agent.ring \in Seq(SampleRecord)
  BY <1>1
<1>3. /\ stage.bootID \in Nat /\ stage.bootFrom \in Nat /\ stage.wait \in BOOLEAN
      /\ stage.bootLog \in Int /\ stage.prevKmsg \in Nat
  BY <1>1 DEF StageRecord
<1> QED
  BY <1>1, <1>2, <1>3, LenProperties

\* The records of a life's samples, one by one.
LEMMA RingFacts ==
  ASSUME CollectorInv
  PROVE  \A i \in 1 .. Len(agent.ring) :
           /\ agent.ring[i] \in SampleRecord /\ agent.ring[i].kmsg \in Nat
           /\ agent.ring[i].seq = i /\ agent.ring[i].boot = router.boot
           /\ agent.ring[i].kmsg < router.kmsg
<1>1. \A i \in 1 .. Len(agent.ring) : agent.ring[i] \in SampleRecord
  BY StateFacts, ElementOfSeq
<1> QED
  BY <1>1, StateFacts DEF RingHolds, SampleRecord

\* What a step that leaves the stage and the detections alone keeps.
LEMMA StageStays ==
  ASSUME CollectorInv, UNCHANGED <<stage, fired, met>>
  PROVE  LogOfItsBoot' /\ LogKept' /\ Told' /\ Once'
BY DEF CollectorInv, LogOfItsBoot, LogKept, Told, Once, Rebooted

LEMMA SampleStep ==
  ASSUME CollectorInv, Sample
  PROVE  CollectorInv'
<1> DEFINE w == agent.ring
           m == Len(w)
<1>1. PICK step \in {0, 1}, record \in BOOLEAN :
        /\ router.wall + step <= MaxWall
        /\ router' = [router EXCEPT !.wall = @ + step, !.kmsg = IF record THEN @ + 1 ELSE @]
        /\ agent' = [agent EXCEPT !.ring =
             Append(@, [seq |-> Len(@) + 1, wall |-> router.wall + step,
                        life |-> agent.life, boot |-> router.boot,
                        kmsg |-> IF record THEN router.kmsg ELSE 0])]
  BY DEF Sample
<1>2. UNCHANGED <<since, stage, due, fired, noted, met>> /\ m < MaxSeq
  BY DEF Sample
<1> DEFINE e == [seq |-> m + 1, wall |-> router.wall + step,
                 life |-> agent.life, boot |-> router.boot,
                 kmsg |-> IF record THEN router.kmsg ELSE 0]
<1>3. e \in SampleRecord /\ e.seq = m + 1 /\ e.boot = router.boot
      /\ e.kmsg = IF record THEN router.kmsg ELSE 0
  <2>1. m + 1 \in Nat /\ router.wall + step \in Nat
        /\ (IF record THEN router.kmsg ELSE 0) \in Nat
    BY StateFacts
  <2> HIDE DEF m
  <2> QED BY <2>1, StateFacts DEF SampleRecord
<1>4. agent' = [agent EXCEPT !.ring = Append(w, e)]
  BY <1>1
<1> HIDE DEF e
<1>5. /\ router' \in [boot : Nat \ {0}, wall : Nat, kmsg : Nat \ {0}]
      /\ router'.boot = router.boot
      /\ router'.kmsg = IF record THEN router.kmsg + 1 ELSE router.kmsg
  <2>1. router.wall + step \in Nat
        /\ (IF record THEN router.kmsg + 1 ELSE router.kmsg) \in Nat \ {0}
    BY StateFacts
  <2> QED BY <1>1, <2>1, StateFacts
<1>6. /\ Append(w, e) \in Seq(SampleRecord) /\ Len(Append(w, e)) = m + 1
      /\ \A i \in 1 .. m : Append(w, e)[i] = w[i]
      /\ Append(w, e)[m + 1] = e
  BY <1>3, StateFacts, AppendShape
<1>7. /\ agent' \in [life : Nat, ids : BOOLEAN, ring : Seq(SampleRecord)]
      /\ agent'.ring = Append(w, e) /\ agent'.life = agent.life
  <2> DEFINE v == Append(w, e)
  <2>1. v \in Seq(SampleRecord) /\ agent' = [agent EXCEPT !.ring = v]
    BY <1>4, <1>6
  <2> HIDE DEF v
  <2>2. /\ agent' \in [life : Nat, ids : BOOLEAN, ring : Seq(SampleRecord)]
        /\ agent'.ring = v /\ agent'.life = agent.life
    BY <2>1, StateFacts
  <2> QED BY <2>2 DEF v
<1>8. /\ Len(agent'.ring) = m + 1 /\ m \in Nat
      /\ \A i \in 1 .. m : agent'.ring[i] = w[i]
      /\ agent'.ring[m + 1] = e
  BY <1>6, <1>7, StateFacts
<1> DEFINE v == agent'.ring
<1>9. \A i \in 1 .. (m + 1) : (i \in 1 .. m /\ v[i] = w[i]) \/ (i = m + 1 /\ v[i] = e)
  BY <1>8
<1> HIDE DEF v, m
<1>10. Records'
  BY <1>2, <1>5, <1>7, StateFacts DEF Records
<1>11. TypeOK'
  <2>1. Len(v) <= MaxSeq
    BY <1>2, <1>8, CollectorConstants DEF v
  <2> QED BY <1>2, <1>5, <1>7, <2>1, StateFacts DEF TypeOK, v
<1>12. RingHolds'
  <2>1. \A i \in 1 .. (m + 1) : v[i].seq = i /\ v[i].boot = router'.boot
    BY <1>3, <1>5, <1>9, RingFacts DEF m
  <2>2. \A i \in 1 .. (m + 1) : v[i].kmsg < router'.kmsg
    <3>1. \A i \in 1 .. m : w[i].kmsg < router.kmsg /\ w[i].kmsg \in Nat
      BY RingFacts DEF m
    <3>2. router.kmsg \in Nat \ {0}
      BY StateFacts
    <3> QED BY <1>3, <1>5, <1>9, <3>1, <3>2
  <2>3. ASSUME NEW i \in 1 .. (m + 1), NEW j \in 1 .. (m + 1),
               i < j, v[i].kmsg # 0, v[j].kmsg # 0
        PROVE  v[i].kmsg < v[j].kmsg
    <3>1. i \in 1 .. m /\ v[i] = w[i]
      BY <1>8, <1>9, <2>3
    <3>2. CASE j \in 1 .. m /\ v[j] = w[j]
      <4>1. w[i].kmsg # 0 /\ w[j].kmsg # 0
        BY <2>3, <3>1, <3>2
      <4>2. w[i].kmsg < w[j].kmsg
        BY <2>3, <3>1, <3>2, <4>1, StateFacts DEF RingHolds, m
      <4> QED BY <3>1, <3>2, <4>2
    <3>3. CASE j = m + 1 /\ v[j] = e
      <4>1. v[j].kmsg = router.kmsg
        BY <1>3, <2>3, <3>3
      <4> QED BY <3>1, <4>1, RingFacts DEF m
    <3> QED BY <1>9, <3>2, <3>3
  <2> QED BY <1>8, <2>1, <2>2, <2>3 DEF RingHolds, v
<1>13. LogOfItsBoot' /\ LogKept' /\ Told' /\ Once'
  BY <1>2, StageStays
<1>14. Fresh'
  <2>1. SUFFICES ASSUME Settling' PROVE
          /\ stage'.prevKmsg < router'.kmsg
          /\ \A i \in (Resynced(since)' + 1) .. Len(v) :
               v[i].kmsg # 0 => stage'.prevKmsg < v[i].kmsg
    BY DEF Fresh, v
  <2>2. Settling
    BY <1>2, <1>5, <2>1 DEF Settling, Rebooted
  <2>3. /\ stage.prevKmsg < router.kmsg
        /\ \A i \in (Resynced(since) + 1) .. m :
             w[i].kmsg # 0 => stage.prevKmsg < w[i].kmsg
    BY <2>2, StateFacts DEF Fresh, m
  <2>4. Resynced(since) \in Nat /\ Resynced(since)' \in Nat
        /\ Resynced(since) <= Resynced(since)'
    <3>1. Resynced(since) = IF since <= m THEN since ELSE 0
      BY DEF Resynced, m
    <3>2. Resynced(since)' = IF since <= m + 1 THEN since ELSE 0
      BY <1>2, <1>8 DEF Resynced, v
    <3> QED BY <1>8, <3>1, <3>2, StateFacts
  <2>5. stage'.prevKmsg < router'.kmsg
    BY <1>2, <1>5, <2>3, StateFacts
  <2>6. ASSUME NEW i \in (Resynced(since)' + 1) .. Len(v), v[i].kmsg # 0
        PROVE  stage'.prevKmsg < v[i].kmsg
    <3>1. i \in 1 .. (m + 1) /\ i \in (Resynced(since) + 1) .. (m + 1)
      BY <1>8, <2>4 DEF v
    <3>2. CASE i \in 1 .. m /\ v[i] = w[i]
      <4>1. i \in (Resynced(since) + 1) .. m
        BY <1>8, <2>4, <3>1, <3>2
      <4> QED BY <1>2, <2>3, <2>6, <3>2, <4>1
    <3>3. CASE i = m + 1 /\ v[i] = e
      BY <1>2, <1>3, <2>3, <2>6, <3>3
    <3> QED BY <1>9, <3>1, <3>2, <3>3
  <2> QED BY <2>5, <2>6
<1> QED
  BY <1>10, <1>11, <1>12, <1>13, <1>14 DEF CollectorInv

LEMMA RestartStep ==
  ASSUME CollectorInv, Restart
  PROVE  CollectorInv'
<1>1. PICK id \in ReportsIDs :
        agent' = [life |-> agent.life + 1, ids |-> id, ring |-> <<>>]
  BY DEF Restart
<1>2. /\ agent.life < MaxLives /\ UNCHANGED <<since, stage, due, fired, noted, met>>
      /\ \/ UNCHANGED router
         \/ \E jump \in Jumps :
              LET wall == router.wall + jump
              IN  router' = [boot |-> router.boot + 1, kmsg |-> 1,
                             wall |-> IF wall < 1 THEN 1
                                      ELSE IF wall > MaxWall THEN MaxWall ELSE wall]
  BY DEF Restart
<1>3. /\ agent' \in [life : Nat, ids : BOOLEAN, ring : Seq(SampleRecord)]
      /\ agent'.ring = <<>> /\ agent'.life = agent.life + 1
      /\ Len(agent'.ring) = 0
  <2>1. agent.life + 1 \in Nat /\ id \in BOOLEAN /\ <<>> \in Seq(SampleRecord)
    BY StateFacts, CollectorConstants
  <2> QED BY <1>1, <2>1
<1>4. /\ router' \in [boot : Nat \ {0}, wall : Nat, kmsg : Nat \ {0}]
      /\ router' = router \/ router'.boot = router.boot + 1
  <2>1. CASE UNCHANGED router
    BY <2>1, StateFacts
  <2>2. CASE \E jump \in Jumps :
              LET wall == router.wall + jump
              IN  router' = [boot |-> router.boot + 1, kmsg |-> 1,
                             wall |-> IF wall < 1 THEN 1
                                      ELSE IF wall > MaxWall THEN MaxWall ELSE wall]
    <3>1. PICK jump \in Jumps :
              LET wall == router.wall + jump
              IN  router' = [boot |-> router.boot + 1, kmsg |-> 1,
                             wall |-> IF wall < 1 THEN 1
                                      ELSE IF wall > MaxWall THEN MaxWall ELSE wall]
      BY <2>2
    <3> DEFINE wall == router.wall + jump
               next == IF wall < 1 THEN 1 ELSE IF wall > MaxWall THEN MaxWall ELSE wall
    <3>2. router' = [boot |-> router.boot + 1, kmsg |-> 1, wall |-> next]
      BY <3>1
    <3>3. next \in Nat /\ router.boot + 1 \in Nat \ {0}
      BY StateFacts, CollectorConstants
    <3> HIDE DEF next
    <3> QED BY <3>2, <3>3
  <2> QED BY <1>2, <2>1, <2>2
<1>5. Records'
  BY <1>2, <1>3, <1>4, StateFacts DEF Records
<1>6. TypeOK'
  <2>1. /\ router.boot \in Boots /\ router.boot <= agent.life
        /\ stage.bootID \in 0 .. router.boot
    BY StateFacts DEF TypeOK
  <2> DEFINE b == router'.boot
             l == agent'.life
  <2>2. b \in Nat \ {0} /\ (b = router.boot \/ b = router.boot + 1)
    BY <1>4, StateFacts
  <2>5. l = agent.life + 1 /\ agent.life < MaxLives
    BY <1>2, <1>3
  <2> HIDE DEF b, l
  <2>4. /\ b \in Boots /\ b <= l /\ l \in 1 .. MaxLives
        /\ stage.bootID \in 0 .. b
    BY <2>1, <2>2, <2>5, StateFacts, CollectorConstants DEF Boots
  <2>3. Len(agent'.ring) <= MaxSeq
    BY <1>3, CollectorConstants
  <2> QED BY <1>2, <2>3, <2>4, StateFacts DEF TypeOK, b, l
<1>7. RingHolds'
  BY <1>3 DEF RingHolds
<1>8. LogOfItsBoot' /\ LogKept' /\ Told' /\ Once'
  BY <1>2, StageStays
<1>9. Fresh'
  <2>1. SUFFICES ASSUME Settling' PROVE
          /\ stage'.prevKmsg < router'.kmsg
          /\ \A i \in (Resynced(since)' + 1) .. Len(agent'.ring) :
               agent'.ring[i].kmsg # 0 => stage'.prevKmsg < agent'.ring[i].kmsg
    BY DEF Fresh
  <2>2. stage.bootID = router'.boot
    BY <1>2, <2>1 DEF Settling
  <2>3. router' = router
    BY <1>4, <2>2, StateFacts DEF TypeOK
  <2>4. Settling
    BY <1>2, <2>1, <2>3 DEF Settling, Rebooted
  <2>5. stage'.prevKmsg < router'.kmsg
    BY <1>2, <2>3, <2>4, StateFacts DEF Fresh
  <2>6. Resynced(since)' \in Nat
    BY <1>2, <1>3, StateFacts DEF Resynced
  <2>7. (Resynced(since)' + 1) .. Len(agent'.ring) = {}
    BY <1>3, <2>6
  <2> QED BY <2>5, <2>7
<1> QED
  BY <1>5, <1>6, <1>7, <1>8, <1>9 DEF CollectorInv

\* NoteBoot: the stage knows the boot or learns none, learns its first, or is
\* told of another.
LEMMA NoteBootShape ==
  ASSUME NEW st \in StageRecord, NEW id \in Nat, NEW n, n = NoteBoot(st, id)
  PROVE  /\ n.st \in StageRecord
         /\ n.st.wait = st.wait /\ n.st.bootLog = st.bootLog
         /\ \/ n.changed = FALSE /\ SameBoot(n.st, st)
            \/ /\ n.changed = FALSE /\ st.bootID = None /\ id # None
               /\ n.st.bootID = id
               /\ n.st.bootFrom = st.bootFrom /\ n.st.prevKmsg = st.prevKmsg
            \/ /\ n.changed = TRUE /\ st.bootID # None /\ id # None /\ id # st.bootID
               /\ n.st.bootID = id
               /\ n.st.bootFrom = st.bootID /\ n.st.prevKmsg = 0
<1> DEFINE c == (id # None /\ id = st.bootID)
           a == [st EXCEPT !.bootSame = c]
           b == [a EXCEPT !.bootID = id]
           e == [a EXCEPT !.bootID = id, !.bootFrom = st.bootID, !.prevKmsg = 0]
<1>1. n = IF id = None \/ id = st.bootID THEN [st |-> a, changed |-> FALSE]
          ELSE IF st.bootID = None THEN [st |-> b, changed |-> FALSE]
          ELSE [st |-> e, changed |-> TRUE]
  BY DEF NoteBoot
<1>2. a \in StageRecord /\ SameBoot(a, st)
  <2>1. c \in BOOLEAN
    OBVIOUS
  <2> HIDE DEF c
  <2>2. a \in StageRecord
    BY <2>1 DEF StageRecord
  <2>3. SameBoot(a, st)
    BY DEF StageRecord, SameBoot
  <2> QED BY <2>2, <2>3
<1> HIDE DEF a
<1>3. /\ b \in StageRecord /\ b.bootID = id /\ b.bootFrom = st.bootFrom
      /\ b.prevKmsg = st.prevKmsg /\ b.wait = st.wait /\ b.bootLog = st.bootLog
  <2>1. b \in StageRecord
    BY <1>2 DEF StageRecord
  <2>2. /\ b.bootID = id /\ b.bootFrom = a.bootFrom
        /\ b.prevKmsg = a.prevKmsg /\ b.wait = a.wait /\ b.bootLog = a.bootLog
    BY <1>2 DEF StageRecord
  <2> HIDE DEF b
  <2> QED BY <1>2, <2>1, <2>2 DEF SameBoot
<1>4. /\ e \in StageRecord /\ e.bootID = id /\ e.bootFrom = st.bootID
      /\ e.prevKmsg = 0 /\ e.wait = st.wait /\ e.bootLog = st.bootLog
  <2>1. st.bootID \in Nat
    BY DEF StageRecord
  <2>2. e \in StageRecord
    BY <1>2, <2>1 DEF StageRecord
  <2>3. /\ e.bootID = id /\ e.bootFrom = st.bootID
        /\ e.prevKmsg = 0 /\ e.wait = a.wait /\ e.bootLog = a.bootLog
    BY <1>2 DEF StageRecord
  <2> HIDE DEF e
  <2> QED BY <1>2, <2>2, <2>3 DEF SameBoot
<1> HIDE DEF b, e
<1> QED
  BY <1>1, <1>2, <1>3, <1>4 DEF SameBoot

\* The stage once it awaits the boot log, or has it.
LEMMA BootLogShape ==
  ASSUME NEW st \in StageRecord, NEW log \in Int
  PROVE  /\ NoteBootLog(st, log) \in StageRecord
         /\ NoteBootLog(st, log).bootID = st.bootID
         /\ NoteBootLog(st, log).bootFrom = st.bootFrom
         /\ NoteBootLog(st, log).prevKmsg = st.prevKmsg
         /\ NoteBootLog(st, log).wait = FALSE
         /\ NoteBootLog(st, log).bootLog = log
         /\ AwaitBootLog(st) \in StageRecord
         /\ AwaitBootLog(st).bootID = st.bootID
         /\ AwaitBootLog(st).bootFrom = st.bootFrom
         /\ AwaitBootLog(st).prevKmsg = st.prevKmsg
         /\ AwaitBootLog(st).bootLog = st.bootLog
         /\ st.bootFrom # None => AwaitBootLog(st).wait = TRUE
<1> DEFINE a == [st EXCEPT !.bootLog = log, !.wait = FALSE]
           b == [st EXCEPT !.wait = TRUE]
<1>1. /\ a \in StageRecord /\ a.bootID = st.bootID /\ a.bootFrom = st.bootFrom
      /\ a.prevKmsg = st.prevKmsg /\ a.wait = FALSE /\ a.bootLog = log
  <2>1. a \in StageRecord
    BY DEF StageRecord
  <2>2. /\ a.bootID = st.bootID /\ a.bootFrom = st.bootFrom
        /\ a.prevKmsg = st.prevKmsg /\ a.wait = FALSE /\ a.bootLog = log
    BY DEF StageRecord
  <2> QED BY <2>1, <2>2
<1>2. /\ b \in StageRecord /\ b.bootID = st.bootID /\ b.bootFrom = st.bootFrom
      /\ b.prevKmsg = st.prevKmsg /\ b.wait = TRUE /\ b.bootLog = st.bootLog
  <2>1. b \in StageRecord
    BY DEF StageRecord
  <2>2. /\ b.bootID = st.bootID /\ b.bootFrom = st.bootFrom
        /\ b.prevKmsg = st.prevKmsg /\ b.wait = TRUE /\ b.bootLog = st.bootLog
    BY DEF StageRecord
  <2> QED BY <2>1, <2>2
<1>3. NoteBootLog(st, log) = a
  BY DEF NoteBootLog
<1>4. AwaitBootLog(st) = IF st.bootFrom = None THEN st ELSE b
  BY DEF AwaitBootLog
<1> HIDE DEF a, b
<1> QED
  BY <1>1, <1>2, <1>3, <1>4

\* What a health read does to the stage and to the wait for the boot log.
LEMMA HealthShape ==
  ASSUME CollectorInv, Health
  PROVE  /\ UNCHANGED <<router, agent, fired, met>>
         /\ since' = Resynced(since)
         /\ stage' \in StageRecord
         /\ \/ SameBoot(stage', stage) /\ due' = due
            \/ /\ stage.bootID = None /\ stage'.bootID = router.boot
               /\ stage'.bootFrom = stage.bootFrom /\ stage'.prevKmsg = stage.prevKmsg
               /\ stage'.wait = stage.wait /\ stage'.bootLog = stage.bootLog
               /\ due' = due
            \/ /\ stage.bootID # None /\ stage.bootID # router.boot
               /\ stage'.bootID = router.boot /\ stage'.bootFrom = stage.bootID
               /\ stage'.prevKmsg = 0
               /\ \/ /\ HasAPI /\ stage'.wait = FALSE /\ stage'.bootLog \in LogAnswers
                     /\ due' = None
                  \/ /\ HasAPI /\ stage'.wait = TRUE /\ stage'.bootLog = stage.bootLog
                     /\ due' = LogWait + 1
                  \/ /\ ~ HasAPI /\ stage'.wait = stage.wait
                     /\ stage'.bootLog = stage.bootLog /\ due' = due
<1> DEFINE id == IF agent.ids THEN router.boot ELSE None
           n == NoteBoot(stage, id)
           st == IF n.changed /\ HasAPI THEN AwaitBootLog(n.st) ELSE n.st
<1>1. /\ since' = Resynced(since) /\ UNCHANGED <<router, agent, fired, met>>
      /\ \/ n.changed /\ HasAPI /\ \E log \in LogAnswers : Settled(st, log)
         \/ n.changed /\ HasAPI /\ stage' = st /\ due' = LogWait + 1
         \/ (~n.changed \/ ~HasAPI) /\ stage' = st /\ due' = due
  BY DEF Health
<1>2. /\ n.st \in StageRecord
      /\ n.st.wait = stage.wait /\ n.st.bootLog = stage.bootLog
      /\ \/ n.changed = FALSE /\ SameBoot(n.st, stage)
         \/ /\ n.changed = FALSE /\ stage.bootID = None /\ id # None
            /\ n.st.bootID = id
            /\ n.st.bootFrom = stage.bootFrom /\ n.st.prevKmsg = stage.prevKmsg
         \/ /\ n.changed = TRUE /\ stage.bootID # None /\ id # None /\ id # stage.bootID
            /\ n.st.bootID = id
            /\ n.st.bootFrom = stage.bootID /\ n.st.prevKmsg = 0
  <2>1. id \in Nat
    BY StateFacts DEF None
  <2> HIDE DEF id
  <2> QED BY <2>1, StateFacts, NoteBootShape
<1>3. id # None => id = router.boot
  OBVIOUS
<1> HIDE DEF n, id
<1>4. CASE n.changed = FALSE
  <2>1. stage' = n.st /\ due' = due
    BY <1>1, <1>4
  <2> QED BY <1>1, <1>2, <1>3, <1>4, <2>1
<1>5. CASE n.changed = TRUE
  <2>1. /\ stage.bootID # None /\ stage.bootID # router.boot
        /\ n.st.bootID = router.boot /\ n.st.bootFrom = stage.bootID
        /\ n.st.prevKmsg = 0 /\ n.st.bootFrom # None
    BY <1>2, <1>3, <1>5
  <2>2. CASE ~ HasAPI
    <3>1. stage' = n.st /\ due' = due
      BY <1>1, <1>5, <2>2
    <3> QED BY <1>1, <1>2, <2>1, <2>2, <3>1
  <2>3. CASE HasAPI
    <3>1. st = AwaitBootLog(n.st)
      BY <1>5, <2>3
    <3>2. /\ st \in StageRecord /\ st.bootID = n.st.bootID
          /\ st.bootFrom = n.st.bootFrom /\ st.prevKmsg = n.st.prevKmsg
          /\ st.bootLog = n.st.bootLog /\ st.wait = TRUE
      <4>1. 0 \in Int
        OBVIOUS
      <4> HIDE DEF st
      <4> QED BY <1>2, <2>1, <3>1, <4>1, BootLogShape
    <3> HIDE DEF st
    <3>3. CASE \E log \in LogAnswers : Settled(st, log)
      <4>1. PICK log \in LogAnswers : Settled(st, log)
        BY <3>3
      <4>2. log \in Int
        BY <4>1, StateFacts DEF LogAnswers, Refused
      <4>3. stage' = NoteBootLog(st, log) /\ due' = None
        BY <4>1 DEF Settled
      <4>4. /\ stage' \in StageRecord /\ stage'.bootID = st.bootID
            /\ stage'.bootFrom = st.bootFrom /\ stage'.prevKmsg = st.prevKmsg
            /\ stage'.wait = FALSE /\ stage'.bootLog = log
        BY <3>2, <4>2, <4>3, BootLogShape
      <4> QED BY <1>1, <2>1, <2>3, <3>2, <4>1, <4>3, <4>4
    <3>4. CASE stage' = st /\ due' = LogWait + 1
      BY <1>1, <1>2, <2>1, <2>3, <3>2, <3>4
    <3> QED BY <1>1, <1>5, <2>3, <3>3, <3>4
  <2> QED BY <2>2, <2>3, CollectorConstants
<1> QED
  BY <1>2, <1>4, <1>5

LEMMA HealthStep ==
  ASSUME CollectorInv, Health
  PROVE  CollectorInv'
<1>1. /\ UNCHANGED <<router, agent, fired, met>>
      /\ since' = Resynced(since)
      /\ stage' \in StageRecord
      /\ \/ SameBoot(stage', stage) /\ due' = due
         \/ /\ stage.bootID = None /\ stage'.bootID = router.boot
            /\ stage'.bootFrom = stage.bootFrom /\ stage'.prevKmsg = stage.prevKmsg
            /\ stage'.wait = stage.wait /\ stage'.bootLog = stage.bootLog
            /\ due' = due
         \/ /\ stage.bootID # None /\ stage.bootID # router.boot
            /\ stage'.bootID = router.boot /\ stage'.bootFrom = stage.bootID
            /\ stage'.prevKmsg = 0
            /\ \/ /\ HasAPI /\ stage'.wait = FALSE /\ stage'.bootLog \in LogAnswers
                  /\ due' = None
               \/ /\ HasAPI /\ stage'.wait = TRUE /\ stage'.bootLog = stage.bootLog
                  /\ due' = LogWait + 1
               \/ /\ ~ HasAPI /\ stage'.wait = stage.wait
                  /\ stage'.bootLog = stage.bootLog /\ due' = due
  BY HealthShape
<1>2. since' \in Nat /\ since' <= Len(agent.ring) /\ Resynced(since)' = since'
      /\ Resynced(since) = since'
  BY <1>1, StateFacts DEF Resynced
<1>3. /\ TypeOK /\ stage.bootID \in 0 .. router.boot /\ stage.bootFrom \in 0 .. stage.bootID
      /\ stage.bootLog \in Logs /\ (stage.wait => due # None)
      /\ due \in 0 .. LogWait + 1 /\ Len(agent.ring) <= MaxSeq
      /\ router.boot \in Boots
  BY StateFacts DEF TypeOK
<1>4. LogAnswers \subseteq Logs /\ \A log \in LogAnswers : log > 0 => log = router.boot
  BY <1>3 DEF LogAnswers, Logs, Refused
<1>5. Records'
  <2>1. due' \in Nat
    BY <1>1, StateFacts, CollectorConstants DEF None
  <2> QED BY <1>1, <1>2, <2>1, StateFacts DEF Records
<1>6. TypeOK'
  <2>1. since' \in 0 .. MaxSeq
    BY <1>2, <1>3, StateFacts, CollectorConstants
  <2>2. stage'.bootID \in 0 .. router.boot /\ stage'.bootFrom \in 0 .. stage'.bootID
    BY <1>1, <1>3, StateFacts DEF SameBoot
  <2>3. stage'.bootLog \in Logs
    BY <1>1, <1>3, <1>4 DEF SameBoot
  <2>4. (stage'.wait => due' # None) /\ due' \in 0 .. LogWait + 1
    BY <1>1, <1>3, CollectorConstants DEF SameBoot, None
  <2> QED BY <1>1, <1>3, <2>1, <2>2, <2>3, <2>4 DEF TypeOK, Boots, Logs
<1>7. RingHolds'
  BY <1>1, StateFacts DEF RingHolds
<1>8. LogOfItsBoot'
  BY <1>1, StateFacts DEF LogOfItsBoot, Rebooted
<1>9. LogKept'
  <2>1. LogKept
    BY StateFacts
  <2>2. CASE stage.bootID = None
    <3>1. stage.bootFrom = None
      BY <1>3, <2>2 DEF None
    <3> QED BY <1>1, <2>1, <2>2, <3>1 DEF LogKept, SameBoot
  <2>3. CASE SameBoot(stage', stage)
    BY <2>1, <2>3 DEF LogKept, SameBoot
  <2>4. CASE /\ stage'.bootID = router.boot /\ HasAPI
             /\ \/ stage'.wait = TRUE
                \/ stage'.bootLog \in LogAnswers
    <3>1. stage'.wait = TRUE \/ (stage'.bootLog > 0 => stage'.bootLog = router.boot)
      BY <1>4, <2>4
    <3> QED BY <2>4, <3>1, StateFacts DEF LogKept
  <2>5. CASE ~ HasAPI /\ stage'.wait = stage.wait /\ stage'.bootLog = stage.bootLog
    <3>1. ~ stage.wait /\ stage.bootLog = NoLog
      BY <2>1, <2>5 DEF LogKept
    <3> QED BY <2>5, <3>1 DEF LogKept, NoLog
  <2> QED BY <1>1, <2>2, <2>3, <2>4, <2>5
<1>10. Told'
  <2>1. ASSUME NEW i \in 1 .. Len(fired), Rebooted(i), fired[i].to \notin met
        PROVE  /\ fired[i].to \in 1 .. stage'.bootID
               /\ stage'.bootFrom # None => fired[i].to # stage'.bootID
    <3>1. /\ fired[i].to \in 1 .. stage.bootID
          /\ stage.bootFrom # None => fired[i].to # stage.bootID
      BY <2>1, StateFacts DEF Told
    <3> QED BY <1>1, <1>3, <3>1, StateFacts DEF SameBoot, None
  <2> QED BY <1>1, <2>1 DEF Told, Rebooted
<1>11. Once'
  BY <1>1, StateFacts DEF Once, Rebooted
<1>12. Fresh'
  <2>1. SUFFICES ASSUME Settling' PROVE
          /\ stage'.prevKmsg < router.kmsg
          /\ \A i \in (since' + 1) .. Len(agent.ring) :
               agent.ring[i].kmsg # 0 => stage'.prevKmsg < agent.ring[i].kmsg
    BY <1>1, <1>2 DEF Fresh
  <2>2. /\ stage'.bootID = router.boot /\ router.boot \notin met
        /\ \/ stage'.bootFrom # None
           \/ \E i \in 1 .. Len(fired) : Rebooted(i) /\ fired[i].to = stage'.bootID
    BY <1>1, <2>1 DEF Settling, Rebooted
  <2>3. CASE SameBoot(stage', stage)
    <3>1. Settling
      BY <2>2, <2>3 DEF Settling, SameBoot
    <3> QED BY <1>2, <2>3, <3>1, StateFacts DEF Fresh, SameBoot
  <2>4. CASE stage.bootID = None /\ stage'.bootFrom = stage.bootFrom
    <3>1. stage'.bootFrom = None
      BY <1>3, <2>4 DEF None
    <3>2. PICK i \in 1 .. Len(fired) : Rebooted(i) /\ fired[i].to = router.boot
      BY <2>2, <3>1
    <3>3. fired[i].to \in 1 .. stage.bootID
      BY <2>2, <3>2, StateFacts DEF Told
    <3> QED BY <2>4, <3>3 DEF None
  <2>5. CASE stage'.prevKmsg = 0
    <3> DEFINE u == since'
               m == Len(agent.ring)
    <3>0. u \in Nat /\ m \in Nat
      BY <1>2, StateFacts
    <3>1. \A i \in (u + 1) .. m : i \in 1 .. m
      <4> HIDE DEF u, m
      <4> QED BY <3>0
    <3>2. \A i \in 1 .. Len(agent.ring) : agent.ring[i].kmsg # 0 => 0 < agent.ring[i].kmsg
      BY RingFacts
    <3> QED BY <2>5, <3>1, <3>2, StateFacts
  <2> QED BY <1>1, <2>3, <2>4, <2>5
<1> QED
  BY <1>5, <1>6, <1>7, <1>8, <1>9, <1>10, <1>11, <1>12 DEF CollectorInv

LEMMA ApiRoundStep ==
  ASSUME CollectorInv, ApiRound
  PROVE  CollectorInv'
<1>1. /\ HasAPI /\ due # None
      /\ UNCHANGED <<router, agent, since, fired, noted, met>>
  BY DEF ApiRound
<1>2. PICK log \in LogAnswers \cup {Unread} : Settled(stage, log)
  BY DEF ApiRound
<1>3. log \in Int /\ log \in Logs /\ (log > 0 => log = router.boot)
  <2>1. router.boot \in Boots
    BY StateFacts DEF TypeOK
  <2> QED BY <1>2, <2>1, StateFacts DEF LogAnswers, Logs, Refused, Unread
<1>4. /\ due' = None
      /\ stage' \in StageRecord /\ stage'.bootID = stage.bootID
      /\ stage'.bootFrom = stage.bootFrom /\ stage'.prevKmsg = stage.prevKmsg
      /\ stage'.wait = FALSE /\ stage'.bootLog = log
  <2>1. stage' = NoteBootLog(stage, log) /\ due' = None
    BY <1>2 DEF Settled
  <2> QED BY <1>3, <2>1, StateFacts, BootLogShape
<1>5. Records'
  BY <1>1, <1>4, StateFacts DEF Records, None
<1>6. TypeOK'
  <2>1. 0 \in 0 .. LogWait + 1
    BY CollectorConstants
  <2> QED BY <1>1, <1>3, <1>4, <2>1, StateFacts DEF TypeOK, Boots, Logs, None
<1>7. RingHolds'
  BY <1>1, StateFacts DEF RingHolds
<1>8. LogOfItsBoot'
  BY <1>1, StateFacts DEF LogOfItsBoot, Rebooted
<1>9. LogKept'
  <2>1. stage.bootID <= router.boot
    BY StateFacts DEF TypeOK
  <2> QED BY <1>1, <1>3, <1>4, <2>1, StateFacts DEF LogKept
<1>10. Told' /\ Once'
  BY <1>1, <1>4, StateFacts DEF Told, Once, Rebooted
<1>11. Fresh'
  BY <1>1, <1>4, StateFacts DEF Fresh, Settling, Rebooted, Resynced
<1> QED
  BY <1>5, <1>6, <1>7, <1>8, <1>9, <1>10, <1>11 DEF CollectorInv

\* Only the clock of the wait moves, or nothing does.
LEMMA TickStep ==
  ASSUME CollectorInv, UNCHANGED <<router, agent, since, stage, fired, met>>,
         due' = due \/ (due > 1 /\ due' = due - 1)
  PROVE  CollectorInv'
<1>1. due' \in Nat /\ due' \in 0 .. LogWait + 1 /\ (due # None => due' # None)
  <2>1. due \in Nat /\ due \in 0 .. LogWait + 1
    BY StateFacts DEF TypeOK
  <2> QED BY <2>1, CollectorConstants DEF None
<1>2. Records'
  BY <1>1, StateFacts DEF Records
<1>3. TypeOK'
  BY <1>1, StateFacts DEF TypeOK, Boots, Logs
<1>4. RingHolds' /\ Fresh'
  BY StateFacts DEF RingHolds, Fresh, Settling, Rebooted, Resynced
<1>5. LogOfItsBoot' /\ LogKept' /\ Told' /\ Once'
  BY StageStays
<1> QED
  BY <1>2, <1>3, <1>4, <1>5 DEF CollectorInv

\* The detections after a pull: the earlier ones, then those of the sample.
LEMMA PulledShape ==
  ASSUME NEW S, NEW a \in Seq(S), NEW b \in Seq(S), NEW c, c = a \o b
  PROVE  /\ c \in Seq(S) /\ Len(c) = Len(a) + Len(b)
         /\ \A i \in 1 .. Len(c) :
              \/ i \in 1 .. Len(a) /\ c[i] = a[i]
              \/ i - Len(a) \in 1 .. Len(b) /\ c[i] = b[i - Len(a)]
         /\ \A i \in 1 .. Len(a) : i \in 1 .. Len(c) /\ c[i] = a[i]
<1> DEFINE m == Len(a)
           n == Len(b)
<1>1. m \in Nat /\ n \in Nat
  BY LenProperties
<1>2. /\ c \in Seq(S) /\ Len(c) = m + n
      /\ \A i \in 1 .. m : c[i] = a[i]
      /\ \A i \in (m + 1) .. (m + n) : c[i] = b[i - m]
  BY ConcatShape
<1> HIDE DEF m, n
<1>3. \A i \in 1 .. (m + n) : i \in 1 .. m \/ (i \in (m + 1) .. (m + n) /\ i - m \in 1 .. n)
  BY <1>1
<1>4. \A i \in 1 .. m : i \in 1 .. (m + n)
  BY <1>1
<1> QED
  BY <1>1, <1>2, <1>3, <1>4 DEF m, n

LEMMA PullStep ==
  ASSUME CollectorInv, Pull
  PROVE  CollectorInv'
<1> DEFINE w == agent.ring
           s == w[since + 1]
           k == Kernel(stage, s)
           n == Len(fired)
           out == k.out
<1>1. /\ since < Len(w) /\ stage' = k.st /\ fired' = fired \o out /\ since' = s.seq
      /\ met' = IF s.boot > stage.bootID THEN met \cup {s.boot} ELSE met
      /\ UNCHANGED <<router, agent, due, noted>>
  BY DEF Pull
<1>2. /\ since + 1 \in 1 .. Len(w) /\ s \in SampleRecord /\ s.kmsg \in Nat
      /\ s.seq = since + 1 /\ s.boot = router.boot /\ s.kmsg < router.kmsg
  <2>1. since + 1 \in 1 .. Len(w)
    BY <1>1, StateFacts
  <2> QED BY <2>1, RingFacts
<1>3. KernelDid(k, stage, s)
  <2> HIDE DEF s
  <2> QED BY <1>2, StateFacts, KernelShape
<1>4. /\ stage' \in StageRecord /\ out \in Seq(Detection)
      /\ stage'.bootID = stage.bootID
      /\ NotTold(stage', stage) \/ JustTold(stage', stage)
      /\ stage'.prevKmsg = IF s.kmsg = 0 THEN stage.prevKmsg ELSE s.kmsg
      /\ \A i \in 1 .. Len(out) :
           out[i] \in RestartDetection \/ Told1(out[i], stage, stage') \/ Told2(out[i], stage, s)
      /\ \A i, j \in 1 .. Len(out) :
           \/ out[i] \in IdDetection /\ out[j] \in IdDetection
           \/ out[i] \in KmsgDetection /\ out[j] \in KmsgDetection
           => i = j
  BY <1>1, <1>3 DEF KernelDid
<1> HIDE DEF k, out, s
<1>5. /\ fired' \in Seq(Detection)
      /\ \A i \in 1 .. Len(fired') :
           \/ i \in 1 .. n /\ fired'[i] = fired[i]
           \/ i - n \in 1 .. Len(out) /\ fired'[i] = out[i - n]
      /\ \A i \in 1 .. n : i \in 1 .. Len(fired') /\ fired'[i] = fired[i]
      /\ n \in Nat
  BY <1>1, <1>4, StateFacts, PulledShape
<1>6. /\ met \subseteq met'
      /\ router.boot \notin met' => router.boot \notin met /\ stage.bootID = router.boot
  <2>1. stage.bootID <= router.boot
    BY StateFacts DEF TypeOK
  <2> QED BY <1>1, <1>2, <2>1, StateFacts
\* A reboot that the kernel log tells was not told, nor to be told, before.
<1>7. ASSUME NEW e, Told2(e, stage, s), router.boot \notin met'
      PROVE  /\ ~ Settling /\ stage.bootID = router.boot
             /\ stage.bootFrom = None /\ stage'.bootFrom = None
             /\ \A i \in 1 .. n : ~ (Rebooted(i) /\ fired[i].to = router.boot)
  <2>1. s.kmsg # 0 /\ s.kmsg < stage.prevKmsg
    BY <1>7 DEF Told2
  <2>2. ~ Settling
    <3>1. SUFFICES ASSUME Settling PROVE FALSE
      OBVIOUS
    <3>2. Resynced(since) = since
      BY <1>1, StateFacts DEF Resynced
    <3>3. \A i \in (since + 1) .. Len(w) : w[i].kmsg # 0 => stage.prevKmsg < w[i].kmsg
      BY <3>1, <3>2, StateFacts DEF Fresh
    <3>4. since + 1 \in (since + 1) .. Len(w)
      BY <1>1, StateFacts
    <3>5. stage.prevKmsg < s.kmsg
      BY <2>1, <3>3, <3>4 DEF s
    <3> QED BY <1>2, <2>1, <3>5, StateFacts
  <2>3. stage.bootID = router.boot /\ router.boot \notin met
    BY <1>6, <1>7
  <2>4. /\ stage.bootFrom = None
        /\ \A i \in 1 .. n : ~ (Rebooted(i) /\ fired[i].to = router.boot)
    BY <2>2, <2>3 DEF Settling
  <2>5. stage'.bootFrom = None
    BY <1>4, <2>4 DEF NotTold, JustTold
  <2> QED BY <2>2, <2>3, <2>4, <2>5
\* The detections, each with what is known of it.
<1>8. ASSUME NEW i \in 1 .. Len(fired'), Rebooted(i)'
      PROVE  \/ i \in 1 .. n /\ fired'[i] = fired[i] /\ Rebooted(i)
             \/ /\ i - n \in 1 .. Len(out) /\ fired'[i] = out[i - n]
                /\ Told1(fired'[i], stage, stage')
             \/ /\ i - n \in 1 .. Len(out) /\ fired'[i] = out[i - n]
                /\ Told2(fired'[i], stage, s)
  <2>1. fired'[i].rule = "reboot"
    BY <1>8 DEF Rebooted
  <2>2. CASE i \in 1 .. n /\ fired'[i] = fired[i]
    BY <2>1, <2>2 DEF Rebooted
  <2>3. CASE i - n \in 1 .. Len(out) /\ fired'[i] = out[i - n]
    <3>1. fired'[i] \notin RestartDetection
      BY <2>1, Kinds
    <3> QED BY <1>4, <2>3, <3>1
  <2> QED BY <1>5, <2>2, <2>3
<1> HIDE DEF n
<1>9. Records'
  <2>1. since' \in Nat
    BY <1>1, <1>2, StateFacts
  <2> QED BY <1>1, <1>4, <1>5, <2>1, StateFacts DEF Records
<1>10. TypeOK'
  <2>1. TypeOK
    BY StateFacts
  <2>2. since' \in 0 .. MaxSeq
    BY <1>1, <1>2, <2>1, StateFacts, CollectorConstants DEF TypeOK
  <2>3. stage'.bootFrom \in 0 .. stage.bootID /\ stage'.bootLog \in Logs
        /\ (stage'.wait => stage.wait)
    BY <1>4, <2>1, StateFacts DEF TypeOK, NotTold, JustTold, None, Logs
  <2> QED BY <1>1, <1>4, <2>1, <2>2, <2>3 DEF TypeOK, Boots, Logs
<1>11. RingHolds'
  BY <1>1, StateFacts DEF RingHolds
<1>12. LogOfItsBoot'
  <2>1. DOMAIN fired' = 1 .. Len(fired') /\ DOMAIN fired = 1 .. Len(fired)
    BY <1>5, StateFacts, LenProperties
  <2>2. ASSUME NEW i \in 1 .. Len(fired'),
               Rebooted(i)', fired'[i].by = "id", fired'[i].log > 0
        PROVE  fired'[i].log >= fired'[i].to
    <3>1. CASE i \in 1 .. n /\ fired'[i] = fired[i] /\ Rebooted(i)
      BY <2>1, <2>2, <3>1, StateFacts DEF LogOfItsBoot, n
    <3>2. CASE Told1(fired'[i], stage, stage')
      <4>1. /\ fired'[i].to = stage.bootID /\ ~ stage.wait
            /\ fired'[i].log = stage.bootLog /\ stage.bootFrom # None
        BY <2>2, <3>2 DEF Told1, IsIdOf, JustTold
      <4> QED BY <2>2, <4>1, StateFacts DEF LogKept
    <3>3. CASE Told2(fired'[i], stage, s)
      BY <2>2, <3>3, Kinds DEF Told2
    <3> QED BY <1>8, <2>2, <3>1, <3>2, <3>3
  <2> QED BY <2>1, <2>2 DEF LogOfItsBoot
<1>13. LogKept'
  BY <1>4, StateFacts DEF LogKept, NotTold, JustTold
<1>14. Told'
  <2>1. ASSUME NEW i \in 1 .. Len(fired'), Rebooted(i)', fired'[i].to \notin met'
        PROVE  /\ fired'[i].to \in 1 .. stage'.bootID
               /\ stage'.bootFrom # None => fired'[i].to # stage'.bootID
    <3>1. CASE i \in 1 .. n /\ fired'[i] = fired[i] /\ Rebooted(i)
      <4>1. fired[i].to \notin met
        BY <1>6, <2>1, <3>1
      <4>2. /\ fired[i].to \in 1 .. stage.bootID
            /\ stage.bootFrom # None => fired[i].to # stage.bootID
        BY <3>1, <4>1, StateFacts DEF Told, n
      <4>3. stage'.bootFrom # None => stage.bootFrom # None
        BY <1>4 DEF NotTold, JustTold
      <4> QED BY <1>4, <3>1, <4>2, <4>3
    <3>2. CASE Told1(fired'[i], stage, stage')
      <4>1. /\ fired'[i].to = stage.bootID /\ stage.bootFrom # None
            /\ stage'.bootFrom = None
        BY <3>2 DEF Told1, IsIdOf, JustTold
      <4>2. stage.bootID \in 1 .. stage.bootID
        BY <4>1, StateFacts DEF TypeOK, None
      <4> QED BY <1>4, <4>1, <4>2
    <3>3. CASE Told2(fired'[i], stage, s)
      <4>1. fired'[i].to = router.boot
        BY <1>2, <3>3 DEF Told2
      <4>2. stage.bootID = router.boot /\ stage'.bootFrom = None
        BY <1>7, <2>1, <3>3, <4>1
      <4> QED BY <1>4, <4>1, <4>2, StateFacts
    <3> QED BY <1>8, <2>1, <3>1, <3>2, <3>3
  <2> QED BY <2>1 DEF Told
<1>15. Once'
  <2> DEFINE Old(i) == i \in 1 .. n /\ fired'[i] = fired[i] /\ Rebooted(i)
             New(i) == i - n \in 1 .. Len(out) /\ fired'[i] = out[i - n]
             ById(i) == New(i) /\ Told1(fired'[i], stage, stage')
             ByLog(i) == New(i) /\ Told2(fired'[i], stage, s)
  <2>1. ASSUME NEW i \in 1 .. Len(fired'), NEW j \in 1 .. Len(fired'),
               Rebooted(i)', Rebooted(j)', fired'[i].to = fired'[j].to,
               fired'[i].to \notin met'
        PROVE  /\ Old(i) /\ Old(j) => i = j
               /\ ~ (Old(i) /\ ById(j)) /\ ~ (Old(i) /\ ByLog(j))
               /\ ~ (ById(i) /\ ByLog(j))
               /\ ById(i) /\ ById(j) => i = j
               /\ ByLog(i) /\ ByLog(j) => i = j
    <3>1. fired'[i].to \notin met
      BY <1>6, <2>1
    <3>2. Old(i) /\ Old(j) => i = j
      BY <2>1, <3>1, StateFacts DEF Once, n
    <3>3. ~ (Old(i) /\ ById(j))
      <4>1. SUFFICES ASSUME Old(i), ById(j) PROVE FALSE
        OBVIOUS
      <4>2. fired[i].to = stage.bootID /\ stage.bootFrom # None
        BY <2>1, <4>1 DEF Told1, IsIdOf, JustTold
      <4> QED BY <3>1, <4>1, <4>2, StateFacts DEF Told, n
    <3>4. ByLog(j) => fired'[j].to = router.boot
      BY <1>2 DEF Told2
    <3>5. ~ (Old(i) /\ ByLog(j))
      BY <1>7, <2>1, <3>4
    <3>6. ~ (ById(i) /\ ByLog(j))
      <4>1. ById(i) => stage.bootFrom # None
        BY DEF Told1, JustTold
      <4> QED BY <1>7, <2>1, <3>4, <4>1
    <3>7. ById(i) /\ ById(j) => i = j
      <4>1. SUFFICES ASSUME ById(i), ById(j) PROVE i = j
        OBVIOUS
      <4>2. out[i - n] \in IdDetection /\ out[j - n] \in IdDetection
        BY <4>1 DEF Told1, IsIdOf
      <4>3. i - n = j - n
        BY <1>4, <4>1, <4>2
      <4> QED BY <1>5, <4>3
    <3>8. ByLog(i) /\ ByLog(j) => i = j
      <4>1. SUFFICES ASSUME ByLog(i), ByLog(j) PROVE i = j
        OBVIOUS
      <4>2. out[i - n] \in KmsgDetection /\ out[j - n] \in KmsgDetection
        BY <4>1 DEF Told2
      <4>3. i - n = j - n
        BY <1>4, <4>1, <4>2
      <4> QED BY <1>5, <4>3
    <3> HIDE DEF Old, ById, ByLog
    <3> QED BY <3>2, <3>3, <3>5, <3>6, <3>7, <3>8
  <2>2. \A i \in 1 .. Len(fired') : Rebooted(i)' => Old(i) \/ ById(i) \/ ByLog(i)
    BY <1>8
  <2> HIDE DEF Old, ById, ByLog
  <2>3. ASSUME NEW i \in 1 .. Len(fired'), NEW j \in 1 .. Len(fired'),
               Rebooted(i)', Rebooted(j)', fired'[i].to = fired'[j].to,
               fired'[i].to \notin met'
        PROVE  i = j
    <3>1. /\ Old(i) /\ Old(j) => i = j
          /\ ~ (Old(i) /\ ById(j)) /\ ~ (Old(i) /\ ByLog(j))
          /\ ~ (ById(i) /\ ByLog(j))
          /\ ById(i) /\ ById(j) => i = j
          /\ ByLog(i) /\ ByLog(j) => i = j
      BY <2>1, <2>3
    <3>2. /\ ~ (Old(j) /\ ById(i)) /\ ~ (Old(j) /\ ByLog(i))
          /\ ~ (ById(j) /\ ByLog(i))
      BY <2>1, <2>3
    <3>3. Old(i) \/ ById(i) \/ ByLog(i)
      BY <2>2, <2>3
    <3>4. Old(j) \/ ById(j) \/ ByLog(j)
      BY <2>2, <2>3
    <3> QED BY <3>1, <3>2, <3>3, <3>4
  <2> QED BY <2>3 DEF Once
<1>16. Fresh'
  <2>1. SUFFICES ASSUME Settling' PROVE
          /\ stage'.prevKmsg < router.kmsg
          /\ \A i \in (Resynced(since)' + 1) .. Len(w) :
               w[i].kmsg # 0 => stage'.prevKmsg < w[i].kmsg
    BY <1>1 DEF Fresh
  <2>2. /\ stage.bootID = router.boot /\ router.boot \notin met' /\ router.boot \notin met
        /\ \/ stage'.bootFrom # None
           \/ \E i \in 1 .. Len(fired') : Rebooted(i)' /\ fired'[i].to = stage.bootID
    BY <1>1, <1>4, <1>6, <2>1 DEF Settling
  <2>3. Resynced(since)' = since + 1
    BY <1>1, <1>2, StateFacts DEF Resynced
  <2>4. s.kmsg # 0 \/ Settling
    <3>1. CASE stage'.bootFrom # None
      <4>1. stage.bootFrom # None
        BY <1>4, <3>1 DEF NotTold, JustTold
      <4> QED BY <2>2, <4>1 DEF Settling
    <3>2. CASE \E i \in 1 .. Len(fired') : Rebooted(i)' /\ fired'[i].to = stage.bootID
      <4>1. PICK i \in 1 .. Len(fired') : Rebooted(i)' /\ fired'[i].to = stage.bootID
        BY <3>2
      <4>2. CASE i \in 1 .. n /\ fired'[i] = fired[i] /\ Rebooted(i)
        BY <2>2, <4>1, <4>2 DEF Settling, n
      <4>3. CASE Told1(fired'[i], stage, stage')
        BY <2>2, <4>3 DEF Settling, Told1, JustTold
      <4>4. CASE Told2(fired'[i], stage, s)
        BY <4>4 DEF Told2
      <4> QED BY <1>8, <4>1, <4>2, <4>3, <4>4
    <3> QED BY <2>2, <3>1, <3>2
  <2>5. ASSUME NEW i \in (since + 2) .. Len(w), w[i].kmsg # 0
        PROVE  stage'.prevKmsg < w[i].kmsg
    <3>1. i \in 1 .. Len(w) /\ i \in (since + 1) .. Len(w) /\ since + 1 < i
      BY StateFacts
    <3>2. CASE s.kmsg # 0
      BY <1>2, <1>4, <2>5, <3>1, <3>2, StateFacts DEF RingHolds, s
    <3>3. CASE s.kmsg = 0
      <4>1. Resynced(since) = since
        BY <1>1, StateFacts DEF Resynced
      <4> QED BY <1>4, <2>4, <2>5, <3>1, <3>3, <4>1, StateFacts DEF Fresh
    <3> QED BY <3>2, <3>3
  <2>6. stage'.prevKmsg < router.kmsg
    BY <1>2, <1>4, <2>4, StateFacts DEF Fresh
  <2>7. \A i \in (since + 1 + 1) .. Len(w) : i \in (since + 2) .. Len(w)
    BY StateFacts
  <2> QED BY <2>3, <2>5, <2>6, <2>7
<1> QED
  BY <1>9, <1>10, <1>11, <1>12, <1>13, <1>14, <1>15, <1>16 DEF CollectorInv
-----------------------------------------------------------------------------
(* The specification.                                                       *)

LEMMA CollectorInit == Init => CollectorInv
<1> SUFFICES ASSUME Init PROVE CollectorInv
  OBVIOUS
<1>1. PICK id \in ReportsIDs : agent = [life |-> 1, ids |-> id, ring |-> <<>>]
  BY DEF Init
<1>2. /\ router = [boot |-> 1, wall |-> 1, kmsg |-> 1]
      /\ since = 0 /\ due = 0 /\ fired = <<>> /\ met = {} /\ agent.ring = <<>>
  BY <1>1 DEF Init, None
<1>3. stage.bootID \in {0, 1} /\ stage = [NewStage EXCEPT !.bootID = stage.bootID]
  BY <1>1 DEF Init, None, NewStage
<1>4. stage \in StageRecord
  <2>1. [r \in Rules |-> NoTime] \in [Rules -> Int]
    BY DEF NoTime
  <2>2. NewStage \in StageRecord
    BY <2>1 DEF NewStage, StageRecord, None, NoLog, NoTime
  <2> QED BY <1>3, <2>2 DEF StageRecord
<1>5. /\ stage.bootFrom = 0 /\ ~stage.wait /\ stage.bootLog = NoLog
      /\ stage.prevKmsg = 0
  BY <1>3 DEF NewStage, None
<1>6. id \in BOOLEAN
  BY CollectorConstants
<1>7. Records
  BY <1>1, <1>2, <1>4, <1>6 DEF Records
<1>8. TypeOK
  BY <1>1, <1>2, <1>3, <1>5, CollectorConstants DEF TypeOK, Boots, Logs, NoLog
<1>9. RingHolds
  BY <1>2 DEF RingHolds
<1>10. LogOfItsBoot /\ Told /\ Once
  BY <1>2 DEF LogOfItsBoot, Told, Once
<1>11. LogKept
  BY <1>5 DEF LogKept, None
<1>12. Fresh
  <2>1. 1 .. Len(fired) = {}
    BY <1>2
  <2>2. ~Settling
    BY <1>5, <2>1 DEF Settling, None
  <2> QED BY <2>2 DEF Fresh
<1> QED
  BY <1>7, <1>8, <1>9, <1>10, <1>11, <1>12 DEF CollectorInv

LEMMA CollectorStep == CollectorInv /\ [Next]_vars => CollectorInv'
<1> SUFFICES ASSUME CollectorInv, [Next]_vars PROVE CollectorInv'
  OBVIOUS
<1>1. CASE Sample
  BY <1>1, SampleStep
<1>2. CASE Restart
  BY <1>2, RestartStep
<1>3. CASE Pull
  BY <1>3, PullStep
<1>4. CASE Health
  BY <1>4, HealthStep
<1>5. CASE ApiRound
  BY <1>5, ApiRoundStep
<1>6. CASE Tick
  BY <1>6, TickStep DEF Tick
<1>7. CASE UNCHANGED vars
  BY <1>7, TickStep DEF vars
<1> QED
  BY <1>1, <1>2, <1>3, <1>4, <1>5, <1>6, <1>7 DEF Next

LEMMA CollectorInduction == Spec => []CollectorInv
<1>1. Init => CollectorInv
  BY CollectorInit
<1>2. CollectorInv /\ [Next]_vars => CollectorInv'
  BY CollectorStep
<1> QED
  BY <1>1, <1>2, PTL DEF Spec

\* Detection by detection, a boot outside met has at most one.
LEMMA OnceCounted ==
  ASSUME CollectorInv
  PROVE  DetectedOnce
<1> SUFFICES ASSUME NEW b \in Boots \ met
             PROVE  Cardinality({i \in DOMAIN fired : Rebooted(i) /\ fired[i].to = b}) <= 1
  BY DEF DetectedOnce
<1> DEFINE D == {i \in DOMAIN fired : Rebooted(i) /\ fired[i].to = b}
<1>1. \A i, j \in D : i = j
  <2>1. DOMAIN fired = 1 .. Len(fired)
    BY DEF CollectorInv, Records
  <2> QED BY <2>1 DEF CollectorInv, Once
<1>2. CASE D = {}
  BY <1>2, FS_EmptySet
<1>3. CASE D # {}
  <2>1. PICK i : i \in D
    BY <1>3
  <2>2. D = {i}
    BY <1>1, <2>1
  <2>3. Cardinality({i}) = 1
    BY FS_Singleton
  <2> QED BY <2>2, <2>3
<1> QED
  BY <1>2, <1>3

\* The cursor stays within what a life samples, the stage knows only boots
\* the router was in, and a reboot that waits for the boot log has a read of
\* it due (derive.go, AwaitBootLog; forward.go, noteBoot).
THEOREM CollectorTypes == Spec => []TypeOK
<1>1. CollectorInv => TypeOK
  BY DEF CollectorInv
<1> QED
  BY <1>1, CollectorInduction, PTL

\* No reboot detection quotes RouterOS's log lines of a boot before its own,
\* whatever reads failed or came late, and whichever boots came between
\* (derive.go, AwaitBootLog, NoteBootLog; forward.go, readBootLog).
THEOREM LogsOfTheirBoot == Spec => []LogOfItsBoot
<1>1. CollectorInv => LogOfItsBoot
  BY DEF CollectorInv
<1> QED
  BY <1>1, CollectorInduction, PTL

\* A reboot is detected at most once, by its boot id or by the kernel log's
\* clock, unless samples of it were pulled before a health read told its id
\* (derive.go, Kernel, NoteBoot, kmsgRules).
THEOREM RebootsOnce == Spec => []DetectedOnce
<1>1. CollectorInv => DetectedOnce
  BY OnceCounted
<1> QED
  BY <1>1, CollectorInduction, PTL
-----------------------------------------------------------------------------
(* The API tier.                                                           *)

\* What an inventory read over another connection than this one's calls for.
Reread(i) ==
  i # NoInv /\ client.session >= 0 /\ i.session # client.session
    => ~triedInv \/ tried = client.session

\* The inventory being read is under the same rule as the one held.
StaleInv == Reread(inv) /\ Reread(round.parsed)

LEMMA RoundParsed ==
  ASSUME NEW kind, NEW todo, NEW phase
  PROVE  Round(kind, todo, phase).parsed = NoInv
  BY DEF Round

\* However a command ends, the inventories held afterwards are among those
\* held and read before.
LEMMA EndsInventories ==
  ASSUME NEW result, NEW parsed, NEW c, Ends(result, parsed, c)
  PROVE  /\ inv' \in {inv, parsed}
         /\ round'.parsed \in {NoInv, parsed}
   BY DEF Ends, Round

\* An outcome leaves the connection in its session or ends it.
LEMMA OutcomeSession ==
  ASSUME NEW out \in Outcomes
  PROVE  out.client.session \in {client.session, -2}
<1>1. CASE ~Alive
  BY <1>1 DEF Outcomes
<1>2. CASE Alive
  BY <1>2 DEF Outcomes
<1> QED BY <1>1, <1>2

\* A command that is answered, refused or lost keeps the rule.
LEMMA CommandStale == StaleInv /\ Command => StaleInv'
<1> SUFFICES ASSUME StaleInv, Command PROVE StaleInv'
  OBVIOUS
<1>1. PICK out \in Outcomes :
        /\ client' = out.client
        /\ IF round.phase = "run" /\ Redials(out.result)
           THEN /\ round' = Again
                /\ UNCHANGED <<inv, invUnsent, carried>>
           ELSE Ends(out.result,
                     IF Head(round.todo) = "interface" /\ out.result = "ok"
                     THEN [session |-> client.session, of |-> Head(Coming)]
                     ELSE round.parsed,
                     out.client)
  BY DEF Command
<1>2. UNCHANGED <<triedInv, tried>>
  BY DEF Command
<1>3. client'.session \in {client.session, -2}
  BY <1>1, OutcomeSession
<1>4. CASE round.phase = "run" /\ Redials(out.result)
  <2>1. inv' = inv /\ round'.parsed = round.parsed
    BY <1>1, <1>4 DEF Again
  <2> QED BY <2>1, <1>2, <1>3 DEF StaleInv, Reread
<1>5. CASE ~(round.phase = "run" /\ Redials(out.result))
  <2> DEFINE parsed == IF Head(round.todo) = "interface" /\ out.result = "ok"
                       THEN [session |-> client.session, of |-> Head(Coming)]
                       ELSE round.parsed
  <2>1. inv' \in {inv, parsed} /\ round'.parsed \in {NoInv, parsed}
    BY <1>1, <1>5, EndsInventories
  <2>2. parsed.session = client.session \/ parsed = round.parsed
    OBVIOUS
  <2> QED BY <2>1, <2>2, <1>2, <1>3 DEF StaleInv, Reread
<1> QED BY <1>4, <1>5

\* So does a redial: a new connection drops what was held and forgets the
\* attempt, a refused one changes neither.
LEMMA RedialStale == StaleInv /\ Redial => StaleInv'
<1> SUFFICES ASSUME StaleInv, Redial PROVE StaleInv'
  OBVIOUS
<1>1. CASE /\ Reconnect
           /\ round' = [round EXCEPT !.phase = IF @ = "connect" THEN "run" ELSE "rerun"]
  BY <1>1 DEF Reconnect, StaleInv, Reread
<1>2. CASE /\ Ends("transport", round.parsed, client)
           /\ UNCHANGED <<client, triedInv>>
  <2>1. inv' \in {inv, round.parsed} /\ round'.parsed \in {NoInv, round.parsed}
    BY <1>2, EndsInventories
  <2>2. UNCHANGED <<client, triedInv, tried>>
    BY <1>2 DEF Redial
  <2> QED BY <2>1, <2>2 DEF StaleInv, Reread
<1> QED BY <1>1, <1>2 DEF Redial

LEMMA StaleInvStep == StaleInv /\ [ApiNext]_apiVars => StaleInv'
<1> SUFFICES ASSUME StaleInv, [ApiNext]_apiVars PROVE StaleInv'
  OBVIOUS
<1>1. CASE BeginLoad
  BY <1>1, RoundParsed DEF BeginLoad, Tries, StaleInv, Reread
<1>2. CASE BeginRead
  BY <1>2, RoundParsed DEF BeginRead, Tries, StaleInv, Reread
<1>3. CASE BeginBootLog
  BY <1>3, RoundParsed DEF BeginBootLog, StaleInv, Reread
<1>4. CASE Command
  BY <1>4, CommandStale
<1>5. CASE Redial
  BY <1>5, RedialStale
<1>6. CASE ApiTick
  BY <1>6 DEF ApiTick, StaleInv, Reread
<1>7. CASE Down
  BY <1>7 DEF Down, StaleInv, Reread
<1>8. CASE Up
  BY <1>8 DEF Up, StaleInv, Reread
<1>9. CASE UNCHANGED apiVars
  BY <1>9 DEF apiVars, StaleInv, Reread
<1> QED BY <1>1, <1>2, <1>3, <1>4, <1>5, <1>6, <1>7, <1>8, <1>9 DEF ApiNext

\* An inventory of an earlier connection is asked for again over the new one
\* before a cadence passes (LoadInventory and redial).
THEOREM StaleIsRereadHolds == ApiSpec => []StaleIsReread
<1>1. ApiInit => StaleInv
  BY DEF ApiInit, Round, StaleInv, Reread
<1>2. StaleInv => StaleIsReread
  BY DEF StaleInv, Reread, StaleIsReread
<1> QED BY <1>1, <1>2, StaleInvStep, PTL DEF ApiSpec
-----------------------------------------------------------------------------
LEMMA EndsCarries ==
  ASSUME NEW result, NEW parsed, NEW c, invUnsent \in BOOLEAN,
         SinksHoldInventory, Ends(result, parsed, c)
  PROVE  SinksHoldInventory' /\ invUnsent' \in BOOLEAN
<1> DEFINE installs == Head(round.todo) = "lists"
           over == installs \/ (Head(round.todo) = "interface" /\ result # "ok")
           held == IF installs THEN parsed ELSE inv
           unsent == invUnsent \/ installs
           sends == over /\ round.kind = "read" /\ unsent
<1>1. /\ inv' = held
      /\ carried' = IF sends THEN held ELSE carried
      /\ invUnsent' = (unsent /\ ~sends)
  BY DEF Ends
<1>2. CASE sends
  BY <1>1, <1>2 DEF SinksHoldInventory
<1>3. CASE ~sends /\ unsent
  BY <1>1, <1>3 DEF SinksHoldInventory
<1>4. CASE ~sends /\ ~unsent
  BY <1>1, <1>4 DEF SinksHoldInventory
<1> QED BY <1>2, <1>3, <1>4

CarriedInv == SinksHoldInventory /\ invUnsent \in BOOLEAN

LEMMA CarriedInvStep == CarriedInv /\ [ApiNext]_apiVars => CarriedInv'
<1> SUFFICES ASSUME CarriedInv, [ApiNext]_apiVars PROVE CarriedInv'
  OBVIOUS
<1>1. CASE BeginLoad
  BY <1>1 DEF BeginLoad, CarriedInv, SinksHoldInventory
<1>2. CASE BeginRead
  BY <1>2 DEF BeginRead, CarriedInv, SinksHoldInventory
<1>3. CASE BeginBootLog
  BY <1>3 DEF BeginBootLog, CarriedInv, SinksHoldInventory
<1>4. CASE Command
  <2>1. CASE UNCHANGED <<inv, invUnsent, carried>>
    BY <2>1 DEF CarriedInv, SinksHoldInventory
  <2>2. CASE \E out \in Outcomes : \E parsed : Ends(out.result, parsed, out.client)
    BY <2>2, EndsCarries DEF CarriedInv
  <2> QED BY <1>4, <2>1, <2>2 DEF Command
<1>5. CASE Redial
  <2>1. CASE Reconnect /\ UNCHANGED <<invUnsent, carried>>
    BY <2>1 DEF Reconnect, CarriedInv, SinksHoldInventory
  <2>2. CASE Ends("transport", round.parsed, client)
    BY <2>2, EndsCarries DEF CarriedInv
  <2> QED BY <1>5, <2>1, <2>2 DEF Redial
<1>6. CASE ApiTick
  BY <1>6 DEF ApiTick, CarriedInv, SinksHoldInventory
<1>7. CASE Down
  BY <1>7 DEF Down, CarriedInv, SinksHoldInventory
<1>8. CASE Up
  BY <1>8 DEF Up, CarriedInv, SinksHoldInventory
<1>9. CASE UNCHANGED apiVars
  BY <1>9 DEF apiVars, CarriedInv, SinksHoldInventory
<1> QED BY <1>1, <1>2, <1>3, <1>4, <1>5, <1>6, <1>7, <1>8, <1>9 DEF ApiNext

\* What the rows are labelled with is what the sinks were handed, or is on
\* its way to them (inventory and LoadInventory).
THEOREM SinksHoldInventoryHolds == ApiSpec => []SinksHoldInventory
<1>1. ApiInit => CarriedInv
  BY DEF ApiInit, CarriedInv, SinksHoldInventory
<1>2. CarriedInv => SinksHoldInventory
  BY DEF CarriedInv
<1> QED BY <1>1, <1>2, CarriedInvStep, PTL DEF ApiSpec
-----------------------------------------------------------------------------
(* The types of the variables.                                              *)

InvSessions == Sessions \cup {-1}
RoundPhases == {"done", "connect", "run", "dial", "rerun"}

\* The inventory being read is of a session, or there is none.
TypeInv == ApiTypeOK /\ round.parsed.session \in InvSessions

\* What is left of a sequence from any place on, beyond its end too.
LEMMA RestShape ==
  ASSUME NEW S, NEW w \in Seq(S), NEW k \in Nat \ {0}
  PROVE  SubSeq(w, k, Len(w)) \in Seq(S)
<1>1. CASE k <= Len(w) + 1
  BY <1>1, SubSeqProperties
<1>2. CASE k > Len(w) + 1
  <2>1. SubSeq(w, k, Len(w)) = <<>>
    BY <1>2
  <2> QED BY <2>1
<1> QED BY <1>1, <1>2

\* The ends of the ranges.
LEMMA FullSpan ==
  /\ 0 \in Sessions /\ 0 \in 0 .. RedialEvery /\ 0 \in 0 .. MaxFailures
  /\ 0 \in 0 .. LabelsEvery /\ LabelsEvery \in 0 .. LabelsEvery
BY ApiAssumption DEF Sessions

LEMMA RoundShape ==
  ASSUME NEW kind, NEW todo \in Seq(Commands), NEW phase \in RoundPhases
  PROVE  /\ Round(kind, todo, phase).todo \in Seq(Commands)
         /\ Round(kind, todo, phase).phase \in RoundPhases
         /\ Round(kind, todo, phase).parsed.session \in InvSessions
BY DEF Round, RoundPhases, NoInv, InvSessions

LEMMA RoundCommandsShape ==
  ASSUME NEW counters \in BOOLEAN, NEW conntrack \in BOOLEAN, NEW inventory \in BOOLEAN
  PROVE  (IF inventory THEN InventoryCommands ELSE <<>>) \o RoundCommands(counters, conntrack)
           \in Seq(Commands)
<1> DEFINE a == IF inventory THEN InventoryCommands ELSE <<>>
           b == <<"resource", "cpu">>
           c == IF ReadHealth THEN <<"health">> ELSE <<>>
           d == IF Monitors THEN <<"monitor">> ELSE <<>>
           e == IF counters THEN <<"ethernet", "detail">> ELSE <<>>
           f == IF conntrack THEN <<"conntrack">> ELSE <<>>
<1>1. /\ a \in Seq(Commands) /\ b \in Seq(Commands) /\ c \in Seq(Commands)
      /\ d \in Seq(Commands) /\ e \in Seq(Commands) /\ f \in Seq(Commands)
  <2>1. /\ {"resource", "cpu", "health", "monitor", "ethernet", "detail",
            "conntrack", "interface", "bridge", "lists"} \subseteq Commands
    BY DEF Commands
  <2>2. /\ <<>> \in Seq(Commands) /\ <<"health">> \in Seq(Commands)
        /\ <<"monitor">> \in Seq(Commands) /\ <<"conntrack">> \in Seq(Commands)
    BY <2>1
  <2>3. /\ <<"resource", "cpu">> \in Seq(Commands)
        /\ <<"ethernet", "detail">> \in Seq(Commands)
    BY <2>1
  <2>4. InventoryCommands \in Seq(Commands)
    BY <2>1 DEF InventoryCommands
  <2> QED BY <2>2, <2>3, <2>4
<1>2. RoundCommands(counters, conntrack) = b \o c \o d \o e \o f
  BY DEF RoundCommands
<1> HIDE DEF a, b, c, d, e, f
<1>3. b \o c \in Seq(Commands)
  BY <1>1, ConcatShape
<1>4. (b \o c) \o d \in Seq(Commands)
  BY <1>1, <1>3, ConcatShape
<1>5. ((b \o c) \o d) \o e \in Seq(Commands)
  BY <1>1, <1>4, ConcatShape
<1>6. (((b \o c) \o d) \o e) \o f \in Seq(Commands)
  BY <1>1, <1>5, ConcatShape
<1>7. a \o ((((b \o c) \o d) \o e) \o f) \in Seq(Commands)
  BY <1>1, <1>6, ConcatShape
<1> QED BY <1>2, <1>7 DEF a

\* A command that ends leaves a round of commands, and an inventory of a
\* session.
LEMMA EndsShape ==
  ASSUME TypeInv, NEW result, NEW parsed, parsed.session \in InvSessions, NEW c,
         Ends(result, parsed, c)
  PROVE  /\ inv'.session \in InvSessions /\ carried'.session \in InvSessions
         /\ invUnsent' \in BOOLEAN
         /\ round'.todo \in Seq(Commands) /\ round'.phase \in RoundPhases
         /\ round'.parsed.session \in InvSessions
<1>1. inv' \in {inv, parsed} /\ carried' \in {inv, parsed, carried} /\ invUnsent' \in BOOLEAN
  BY DEF Ends, TypeInv, ApiTypeOK
<1>2. Left(result) \in Seq(Commands)
  <2> DEFINE skip == CASE Head(round.todo) = "interface" /\ result # "ok" -> 3
                       [] Head(round.todo) = "ethernet" /\ result # "ok"  -> 2
                       [] OTHER -> 1
  <2>1. skip \in {1, 2, 3}
    OBVIOUS
  <2>2. Left(result) = SubSeq(round.todo, skip + 1, Len(round.todo))
    BY DEF Left
  <2> HIDE DEF skip
  <2> QED BY <2>1, <2>2, RestShape DEF TypeInv, ApiTypeOK
<1>3. StartPhase(c) \in RoundPhases
  BY DEF StartPhase, RoundPhases
<1> DEFINE r == Round(round.kind, Left(result), StartPhase(c))
<1>4. /\ r.todo \in Seq(Commands) /\ r.phase \in RoundPhases
      /\ r = [kind |-> r.kind, todo |-> r.todo, parsed |-> r.parsed, phase |-> r.phase]
  <2>1. r.todo \in Seq(Commands) /\ r.phase \in RoundPhases
    BY <1>2, <1>3, RoundShape
  <2> QED BY <2>1 DEF Round
<1>5. \E p : p.session \in InvSessions /\ round' = [r EXCEPT !.parsed = p]
  <2>1. NoInv.session \in InvSessions
    BY DEF NoInv, InvSessions
  <2> QED BY <2>1 DEF Ends
<1> HIDE DEF r
<1>6. /\ round'.todo = r.todo /\ round'.phase = r.phase
      /\ round'.parsed.session \in InvSessions
  BY <1>4, <1>5
<1> QED
  BY <1>1, <1>4, <1>6 DEF TypeInv, ApiTypeOK, InvSessions

\* The connection after a command: no more replies to come than the bound.
LEMMA OutcomeShape ==
  ASSUME TypeInv, ~Idle, NEW out \in Outcomes
  PROVE  /\ out.client \in [session : Sessions \cup {-1, -2}, unread : Seq(Commands)]
         /\ Len(out.client.unread) <= MaxUnread
<1> DEFINE Clients == [session : Sessions \cup {-1, -2}, unread : Seq(Commands)]
<1>1. Head(round.todo) \in Commands
  BY DEF Idle, TypeInv, ApiTypeOK
<1>2. client \in Clients /\ Len(client.unread) <= MaxUnread
  BY DEF TypeInv, ApiTypeOK
<1>3. Coming \in Seq(Commands) /\ Len(Coming) = Len(client.unread) + 1 /\ Coming # <<>>
  BY <1>1, <1>2 DEF Coming
<1>4. Tail(Coming) \in Seq(Commands) /\ Len(Tail(Coming)) = Len(client.unread)
  BY <1>3
<1>5. MaxUnread \in Nat
  BY ApiAssumption
<1>6. CASE ~Alive
  BY <1>2, <1>6 DEF Outcomes
<1>7. CASE Alive
  <2>1. \/ \E res \in {"ok", "trap"} :
             out = [result |-> res,
                    client |-> [session |-> client.session, unread |-> Tail(Coming)]]
        \/ out = [result |-> "fatal", client |-> [session |-> -2, unread |-> <<>>]]
        \/ /\ Len(client.unread) < MaxUnread
           /\ \E res : out = [result |-> res,
                             client |-> [session |-> client.session, unread |-> Coming]]
    BY <1>7, Zenon DEF Outcomes
  <2> HIDE DEF Coming
  <2>2. CASE out.client = [session |-> client.session, unread |-> Tail(Coming)]
    BY <1>2, <1>4, <2>2
  <2>3. CASE out.client = [session |-> -2, unread |-> <<>>]
    BY <1>5, <2>3
  <2>4. CASE /\ out.client = [session |-> client.session, unread |-> Coming]
             /\ Len(client.unread) < MaxUnread
    BY <1>2, <1>3, <1>5, <2>4
  <2>5. CASE \E res : out = [result |-> res,
                client |-> [session |-> client.session, unread |-> Tail(Coming)]]
    <3>1. out.client = [session |-> client.session, unread |-> Tail(Coming)]
      BY <2>5
    <3> QED BY <2>2, <3>1
  <2>6. CASE /\ Len(client.unread) < MaxUnread
             /\ \E res : out = [result |-> res,
                  client |-> [session |-> client.session, unread |-> Coming]]
    <3>1. out.client = [session |-> client.session, unread |-> Coming]
      BY <2>6
    <3> QED BY <2>4, <2>6, <3>1
  <2> QED BY <2>1, <2>3, <2>5, <2>6
<1> QED
  BY <1>6, <1>7

LEMMA TypeInit == ApiInit => TypeInv
<1> SUFFICES ASSUME ApiInit PROVE TypeInv
  OBVIOUS
<1>1. round = [kind |-> "none", todo |-> <<>>, parsed |-> NoInv, phase |-> "done"]
  BY DEF ApiInit, Round
<1>2. /\ round.todo \in Seq(Commands) /\ round.phase \in RoundPhases
      /\ round.parsed.session \in InvSessions
  BY <1>1 DEF NoInv, InvSessions, RoundPhases
<1>3. /\ client \in [session : Sessions \cup {-1, -2}, unread : Seq(Commands)]
      /\ Len(client.unread) <= MaxUnread
  <2>1. CASE client = [NoClient EXCEPT !.session = 0]
    <3>1. client = [session |-> 0, unread |-> <<>>]
      BY <2>1 DEF NoClient
    <3> QED BY <3>1, FullSpan, ApiAssumption
  <2>2. CASE client = NoClient
    BY <2>2, ApiAssumption DEF NoClient
  <2> QED BY <2>1, <2>2 DEF ApiInit
<1>4. service \in [up : BOOLEAN, session : Sessions]
  <2>1. 0 \in Sessions
    BY FullSpan
  <2>2. CASE service = [up |-> TRUE, session |-> 0]
    BY <2>1, <2>2
  <2>3. CASE service = [up |-> FALSE, session |-> 0]
    BY <2>1, <2>3
  <2> QED BY <2>2, <2>3 DEF ApiInit
<1>5. /\ wait \in 0 .. RedialEvery /\ labels \in 0 .. LabelsEvery
      /\ failures \in 0 .. MaxFailures
      /\ invUnsent \in BOOLEAN /\ triedInv \in BOOLEAN /\ own \in BOOLEAN
      /\ inv = NoInv /\ carried = NoInv
  BY FullSpan DEF ApiInit
<1>6. NoInv.session \in InvSessions
  BY DEF NoInv, InvSessions
<1> QED
  BY <1>2, <1>3, <1>4, <1>5, <1>6 DEF TypeInv, ApiTypeOK, InvSessions, RoundPhases

\* A round that begins, whatever it asks.
LEMMA BeginShape ==
  ASSUME TypeInv, NEW kind, NEW todo \in Seq(Commands),
         round' = Round(kind, todo, StartPhase(client)),
         Tries \/ UNCHANGED <<triedInv, labels>>,
         invUnsent' \in BOOLEAN, carried' \in {inv, carried},
         UNCHANGED <<service, client, wait, inv, own, failures>>
  PROVE  TypeInv'
<1>1. StartPhase(client) \in RoundPhases
  BY DEF StartPhase, RoundPhases
<1>2. /\ round'.todo \in Seq(Commands) /\ round'.phase \in RoundPhases
      /\ round'.parsed.session \in InvSessions
  BY <1>1, RoundShape
<1>3. triedInv' \in BOOLEAN /\ labels' \in 0 .. LabelsEvery
  <2>1. triedInv \in BOOLEAN /\ labels \in 0 .. LabelsEvery
    BY DEF TypeInv, ApiTypeOK
  <2>2. CASE Tries
    BY <2>2, FullSpan DEF Tries
  <2>3. CASE UNCHANGED <<triedInv, labels>>
    BY <2>1, <2>3
  <2> QED BY <2>2, <2>3
<1> QED
  BY <1>2, <1>3 DEF TypeInv, ApiTypeOK, RoundPhases, InvSessions

LEMMA CommandTypes == TypeInv /\ Command => TypeInv'
<1> SUFFICES ASSUME TypeInv, Command PROVE TypeInv'
  OBVIOUS
<1>1. PICK out \in Outcomes :
        /\ IF Alive /\ out.result # "ok" THEN Fault ELSE UNCHANGED failures
        /\ client' = out.client
        /\ own' = (own /\ (out.result = "ok" => Head(Coming) = Head(round.todo)))
        /\ IF round.phase = "run" /\ Redials(out.result)
           THEN /\ round' = Again
                /\ UNCHANGED <<inv, invUnsent, carried>>
           ELSE Ends(out.result,
                     IF Head(round.todo) = "interface" /\ out.result = "ok"
                     THEN [session |-> client.session, of |-> Head(Coming)]
                     ELSE round.parsed,
                     out.client)
  BY DEF Command
<1>2. ~Idle /\ UNCHANGED <<service, wait, triedInv, labels>>
  BY DEF Command
<1>3. /\ client' \in [session : Sessions \cup {-1, -2}, unread : Seq(Commands)]
      /\ Len(client'.unread) <= MaxUnread
  BY <1>1, <1>2, OutcomeShape
<1>4. failures' \in 0 .. MaxFailures
  BY <1>1, ApiAssumption DEF Fault, TypeInv, ApiTypeOK
<1>5. own' \in BOOLEAN
  BY <1>1 DEF TypeInv, ApiTypeOK
<1>6. /\ inv'.session \in InvSessions /\ carried'.session \in InvSessions
      /\ invUnsent' \in BOOLEAN
      /\ round'.todo \in Seq(Commands) /\ round'.phase \in RoundPhases
      /\ round'.parsed.session \in InvSessions
  <2>1. CASE round.phase = "run" /\ Redials(out.result)
    <3>1. round' = Again /\ UNCHANGED <<inv, invUnsent, carried>>
      BY <1>1, <2>1
    <3> QED BY <3>1 DEF Again, TypeInv, ApiTypeOK, RoundPhases, InvSessions
  <2>2. CASE ~ (round.phase = "run" /\ Redials(out.result))
    <3> DEFINE parsed == IF Head(round.todo) = "interface" /\ out.result = "ok"
                         THEN [session |-> client.session, of |-> Head(Coming)]
                         ELSE round.parsed
    <3>1. Ends(out.result, parsed, out.client)
      BY <1>1, <2>2
    <3>2. out.result = "ok" => client.session \in InvSessions
      <4>1. out.result = "ok" => Alive
        BY DEF Outcomes
      <4> QED BY <4>1 DEF Alive, InvSessions, TypeInv, ApiTypeOK
    <3>3. parsed.session \in InvSessions
      BY <3>2 DEF TypeInv
    <3> HIDE DEF parsed
    <3> QED BY <3>1, <3>3, EndsShape
  <2> QED BY <2>1, <2>2
<1> QED
  BY <1>2, <1>3, <1>4, <1>5, <1>6 DEF TypeInv, ApiTypeOK, RoundPhases, InvSessions

LEMMA RedialTypes == TypeInv /\ Redial => TypeInv'
<1> SUFFICES ASSUME TypeInv, Redial PROVE TypeInv'
  OBVIOUS
<1>1. UNCHANGED <<service, own>>
  BY DEF Redial
<1>2. wait' \in 0 .. RedialEvery /\ failures' \in 0 .. MaxFailures
  BY ApiAssumption DEF Redial, Fault, TypeInv, ApiTypeOK
<1>3. CASE /\ client' = [NoClient EXCEPT !.session = service.session]
           /\ Reconnect
           /\ round' = [round EXCEPT !.phase = IF @ = "connect" THEN "run" ELSE "rerun"]
           /\ UNCHANGED <<invUnsent, carried>>
  <2>1. client' = [session |-> service.session, unread |-> <<>>]
    BY <1>3 DEF NoClient
  <2>2. /\ client' \in [session : Sessions \cup {-1, -2}, unread : Seq(Commands)]
        /\ Len(client'.unread) <= MaxUnread
    BY <2>1, ApiAssumption DEF TypeInv, ApiTypeOK
  <2>3. /\ round'.todo = round.todo /\ round'.parsed = round.parsed
        /\ round'.phase \in RoundPhases
    BY <1>3 DEF RoundPhases
  <2>4. inv'.session \in InvSessions /\ triedInv' \in BOOLEAN /\ labels' \in 0 .. LabelsEvery
    BY <1>3, FullSpan DEF Reconnect, NoInv, InvSessions
  <2> QED BY <1>1, <1>2, <1>3, <2>2, <2>3, <2>4 DEF TypeInv, ApiTypeOK, RoundPhases, InvSessions
<1>4. CASE /\ Ends("transport", round.parsed, client)
           /\ UNCHANGED <<client, triedInv, labels>>
  <2>1. /\ inv'.session \in InvSessions /\ carried'.session \in InvSessions
        /\ invUnsent' \in BOOLEAN
        /\ round'.todo \in Seq(Commands) /\ round'.phase \in RoundPhases
        /\ round'.parsed.session \in InvSessions
    BY <1>4, EndsShape DEF TypeInv
  <2> QED BY <1>1, <1>2, <1>4, <2>1 DEF TypeInv, ApiTypeOK, RoundPhases, InvSessions
<1> QED BY <1>3, <1>4 DEF Redial

LEMMA TypeStep == TypeInv /\ [ApiNext]_apiVars => TypeInv'
<1> SUFFICES ASSUME TypeInv, [ApiNext]_apiVars PROVE TypeInv'
  OBVIOUS
<1>1. CASE BeginLoad
  <2>1. InventoryCommands \in Seq(Commands)
    BY DEF InventoryCommands, Commands
  <2> QED BY <1>1, <2>1, BeginShape DEF BeginLoad, TypeInv, ApiTypeOK
<1>2. CASE BeginRead
  <2>1. PICK counters \in BOOLEAN, conntrack \in BOOLEAN :
          round' = Round("read", (IF InventoryDue THEN InventoryCommands ELSE <<>>)
                                 \o RoundCommands(counters, conntrack), StartPhase(client))
    BY <1>2 DEF BeginRead
  <2>2. (IF InventoryDue THEN InventoryCommands ELSE <<>>)
          \o RoundCommands(counters, conntrack) \in Seq(Commands)
    <3>1. InventoryDue \in BOOLEAN
      BY DEF InventoryDue
    <3> QED BY <3>1, RoundCommandsShape
  <2>3. /\ Tries \/ UNCHANGED <<triedInv, labels>>
        /\ invUnsent' \in BOOLEAN /\ carried' \in {inv, carried}
        /\ UNCHANGED <<service, client, wait, inv, own, failures>>
    BY <1>2 DEF BeginRead, TypeInv, ApiTypeOK
  <2> QED BY <2>1, <2>2, <2>3, BeginShape
<1>3. CASE BeginBootLog
  <2>1. <<"bootlog">> \in Seq(Commands)
    BY DEF Commands
  <2> QED BY <1>3, <2>1, BeginShape DEF BeginBootLog, TypeInv, ApiTypeOK
<1>4. CASE Command
  BY <1>4, CommandTypes
<1>5. CASE Redial
  BY <1>5, RedialTypes
<1>6. CASE ApiTick
  BY <1>6, ApiAssumption DEF ApiTick, TypeInv, ApiTypeOK
<1>7. CASE Down
  BY <1>7, ApiAssumption DEF Down, TypeInv, ApiTypeOK, Sessions
<1>8. CASE Up
  BY <1>8 DEF Up, TypeInv, ApiTypeOK
<1>9. CASE UNCHANGED apiVars
  BY <1>9 DEF apiVars, TypeInv, ApiTypeOK
<1> QED BY <1>1, <1>2, <1>3, <1>4, <1>5, <1>6, <1>7, <1>8, <1>9 DEF ApiNext

\* The countdowns never pass zero, a round asks only commands it knows, the
\* stream holds no more than the bound of replies, and every inventory is of a
\* session there was (apitier.go, Read, redial; client.go, Run).
THEOREM ApiTierTypes == ApiSpec => []ApiTypeOK
<1>1. TypeInv => ApiTypeOK
  BY DEF TypeInv
<1> QED BY <1>1, TypeInit, TypeStep, PTL DEF ApiSpec
=============================================================================
