--------------------------- MODULE PipelineProofs ---------------------------
(***************************************************************************)
(* Proofs about Pipeline for every capacity, batch, drain and reply limit, *)
(* every number of lives, triggers and lost requests: the samples arrive   *)
(* in order, none is lost silently, and only a restart moves the cursor    *)
(* back.  An answer under way carries what made it true when it was read:  *)
(* it is of the agent's newest life or of an earlier one, its samples      *)
(* follow the cursor, and what lies between them and the cursor is in its  *)
(* gap, or is older than what the ring holds.                              *)
(***************************************************************************)
EXTENDS Pipeline, DataLemmas

\* The states in which the answer is the agent's, not yet or already sent.
Answering == {"gap", "markers", "pulled"}
Measuring == {"oldest", "healthy"}

\* What was handed on is of the life l or of an earlier one; of that life, it
\* is at or behind the cursor, which is at or behind n.
Behind(l, n) ==
  \A i \in 1 .. Len(got) :
    /\ got[i][1] <= l /\ got[i][2] > 0
    /\ got[i][1] = l => got[i][2] <= cursor /\ cursor <= n

\* No answer is of a life to come, and one being put together is of this one.
LivesOK ==
  /\ base.life <= life /\ reply.life <= life
  /\ at \in {"gap", "markers", "oldest"} => reply.life = life
  /\ at \in Answering \cup Measuring => base.life <= reply.life

\* The cursor, in the life it was last taken from.
CursorOK ==
  /\ base.life = life => base.cursor <= cursor /\ cursor <= ring.last
  /\ Behind(life, ring.last)
  /\ at = "off" => got = <<>>

\* The samples before an answer's first that it does not hold are accounted
\* for: asked for by nobody, declared, or about to be.
GapCovers ==
  reply.lines # <<>> /\ cursor # 0 =>
    IF at = "gap" THEN reply.lines[1] <= OldestOf(ring)
    ELSE (cursor + 1) .. (reply.lines[1] - 1) \subseteq reply.gap

\* The samples of an answer are consecutive, and follow the cursor.
LinesFollow ==
  \A i \in 1 .. Len(reply.lines) :
    /\ reply.lines[i] = reply.lines[1] + i - 1
    /\ reply.lines[i] > cursor
    /\ reply.life = life => reply.lines[i] <= ring.last

AnswerOK ==
  at \in Answering => Behind(reply.life, cursor) /\ LinesFollow /\ GapCovers

\* A health read of the life the cursor is of finds it behind the newest.
HealthOK ==
  at \in Measuring =>
    /\ Behind(reply.life, reply.newest)
    /\ base.life = reply.life => cursor <= reply.newest
    /\ reply.life = life => reply.newest <= ring.last /\ reply.oldest <= ring.last

PipelineInv ==
  /\ TypeOK /\ LivesOK /\ CursorOK /\ AnswerOK /\ HealthOK
  /\ InOrder /\ NoSilentLoss
-----------------------------------------------------------------------------
(* The ring, as its reader needs it.                                       *)

\* A ring made again is sound and empty.
LEMMA RestartKeeps ==
  ASSUME NEW n \in Nat \ {0}, ring' = NewRing(n)
  PROVE  RingOK(ring') /\ ring'.last = 0
<1>1. /\ ring'.len = n /\ ring'.head = 0 /\ ring'.count = 0 /\ ring'.last = 0
      /\ ring'.buf = [i \in 0 .. (n - 1) |-> 0]
  BY DEF NewRing
<1> QED BY <1>1 DEF RingOK

-----------------------------------------------------------------------------
\* The empty sequence, whatever it is one of.
LEMMA EmptyIsSeq == ASSUME NEW S PROVE <<>> \in Seq(S)
OBVIOUS

\* An answer with nothing in it is one.
LEMMA BlankReply == Blank \in Replies
BY EmptyIsSeq DEF Blank, Replies

\* The initial state.
LEMMA PipelineStarts == PipelineInit => PipelineInv
<1> SUFFICES ASSUME PipelineInit PROVE PipelineInv
  OBVIOUS
<1>1. RingOK(ring) /\ ring.last = 0
  <2>1. PICK c \in Capacities : ring = NewRing(c)
    BY DEF PipelineInit
  <2>2. c \in Int
    BY <2>1, PipelineAssumption
  <2> QED BY <2>1, <2>2, NewKeeps DEF NewRing
<1>2. /\ life = 1 /\ marked = {} /\ client \in Clients /\ cursor = 0
      /\ drained = 0 /\ final = FALSE /\ at = "off" /\ reply = Blank
      /\ resyncs = 0 /\ failures = 0 /\ got = <<>> /\ declared = {}
      /\ base = [life |-> 1, cursor |-> 0]
  BY DEF PipelineInit
<1>3. TypeOK
  <2>1. reply \in Replies
    BY <1>2, BlankReply
  <2>2. got \in Seq(Nat \X Nat) /\ declared \subseteq Nat \X Nat
    BY <1>2, EmptyIsSeq
  <2>3. 0 \in 0 .. MaxDrain /\ 0 \in 0 .. MaxFailures /\ at \in States
    BY <1>2, PipelineAssumption DEF States
  <2>4. base \in [life : Nat, cursor : Nat] /\ life \in Nat \ {0} /\ cursor \in Nat
    BY <1>2
  <2> QED BY <1>1, <1>2, <2>1, <2>2, <2>3, <2>4 DEF TypeOK
<1>4. Len(got) = 0
  BY <1>2
<1>5. LivesOK /\ CursorOK /\ InOrder /\ NoSilentLoss
  BY <1>1, <1>2, <1>4
  DEF LivesOK, CursorOK, Behind, InOrder, NoSilentLoss, Blank, Answering, Measuring
<1>6. AnswerOK /\ HealthOK
  BY <1>2 DEF AnswerOK, HealthOK, Answering, Measuring
<1> QED BY <1>3, <1>5, <1>6 DEF PipelineInv

\* A step that neither moves the cursor nor hands anything on, in the same
\* life and with the same ring, leaves what depends on those alone.
LEMMA QuietKeeps ==
  ASSUME PipelineInv, UNCHANGED <<ring, life, cursor, got, declared, base>>,
         at # "off" => at' # "off"
  PROVE  RingOK(ring') /\ CursorOK' /\ InOrder' /\ NoSilentLoss'
<1>1. RingOK(ring')
  BY DEF PipelineInv, TypeOK, RingOK
<1>2. CursorOK'
  BY DEF PipelineInv, CursorOK, Behind
<1>3. InOrder' /\ NoSilentLoss'
  BY DEF PipelineInv, InOrder, NoSilentLoss
<1> QED BY <1>1, <1>2, <1>3
-----------------------------------------------------------------------------
(* The agent's steps.                                                      *)

\* A sample taken: the ring's newest moves away from the cursor.
LEMMA TickKeeps == PipelineInv /\ Tick => PipelineInv'
<1> SUFFICES ASSUME PipelineInv, Tick PROVE PipelineInv'
  OBVIOUS
<1>1. /\ ring' = PushTo(ring, ring.last + 1) /\ marked' \subseteq marked \cup {ring.last + 1}
      /\ UNCHANGED <<life, client, cursor, drained, final, at, reply, resyncs,
                     failures, got, declared, base>>
  BY DEF Tick, history
<1>2. RingOK(ring) /\ ring.last \in Nat
  BY DEF PipelineInv, TypeOK, RingOK
<1>3. RingOK(ring') /\ ring'.last = ring.last + 1 /\ OldestOf(ring) <= OldestOf(ring')
  BY <1>1, <1>2, PushKeeps, PushMoves
<1>4. OldestOf(ring) \in Nat
  BY <1>2, OldestIn
<1>5. OldestOf(ring') \in Int
  BY <1>3 DEF OldestOf, RingOK
<1>6. TypeOK'
  BY <1>1, <1>2, <1>3 DEF PipelineInv, TypeOK
<1>7. LivesOK'
  BY <1>1 DEF PipelineInv, LivesOK
<1>8. CursorOK'
  BY <1>1, <1>2, <1>3 DEF PipelineInv, TypeOK, CursorOK, Behind
<1>9. AnswerOK'
  <2>1. SUFFICES ASSUME at' \in Answering
                 PROVE  Behind(reply.life, cursor)' /\ LinesFollow' /\ GapCovers'
    BY DEF AnswerOK
  <2>2. Behind(reply.life, cursor) /\ LinesFollow /\ GapCovers
    BY <1>1, <2>1 DEF PipelineInv, AnswerOK
  <2>3. Behind(reply.life, cursor)'
    BY <1>1, <2>2 DEF Behind
  <2>4. LinesFollow'
    <3>1. \A i \in 1 .. Len(reply.lines) : reply.lines[i] \in Nat
      BY DEF PipelineInv, TypeOK, Replies
    <3> QED BY <1>1, <1>2, <1>3, <2>2, <3>1 DEF LinesFollow
  <2>5. GapCovers'
    <3>1. reply.lines # <<>> => reply.lines[1] \in Nat
      BY DEF PipelineInv, TypeOK, Replies
    <3> QED BY <1>1, <1>3, <1>4, <1>5, <2>2, <3>1 DEF GapCovers
  <2> QED BY <2>3, <2>4, <2>5
<1>10. HealthOK'
  BY <1>1, <1>2, <1>3 DEF PipelineInv, TypeOK, Replies, HealthOK, Behind
<1>11. InOrder' /\ NoSilentLoss'
  BY <1>1 DEF PipelineInv, InOrder, NoSilentLoss
<1> QED BY <1>6, <1>7, <1>8, <1>9, <1>10, <1>11 DEF PipelineInv

\* A restart: nothing that is known of a life is said of the new one yet.
LEMMA RestartStepKeeps == PipelineInv /\ Restart => PipelineInv'
<1> SUFFICES ASSUME PipelineInv, Restart PROVE PipelineInv'
  OBVIOUS
<1>1. /\ life' = life + 1 /\ ring' = NewRing(ring.len) /\ marked' = {}
      /\ at' = IF at \in {"since", "gap", "markers", "last", "oldest"} THEN "lost"
               ELSE at
      /\ UNCHANGED <<client, cursor, drained, final, reply, resyncs, failures,
                     got, declared, base>>
  BY DEF Restart, history
<1>2. ring.len \in Nat \ {0} /\ life \in Nat /\ base.life \in Nat
      /\ reply.life \in Nat /\ got \in Seq(Nat \X Nat)
  BY DEF PipelineInv, TypeOK, Replies, RingOK
<1>3. RingOK(ring') /\ ring'.last = 0
  BY <1>1, <1>2, RestartKeeps
<1>4. \A i \in 1 .. Len(got) : got[i][1] \in Nat /\ got[i][2] \in Nat
  BY <1>2
<1>5. /\ base.life < life' /\ reply.life < life'
      /\ \A i \in 1 .. Len(got) : got[i][1] < life' /\ got[i][2] > 0
  <2>1. base.life <= life /\ reply.life <= life
    BY DEF PipelineInv, LivesOK
  <2>2. \A i \in 1 .. Len(got) : got[i][1] <= life /\ got[i][2] > 0
    BY DEF PipelineInv, CursorOK, Behind
  <2>3. base.life < life' /\ reply.life < life'
    BY <1>1, <1>2, <2>1
  <2> QED BY <1>1, <1>2, <1>4, <2>2, <2>3
<1>6. TypeOK'
  BY <1>1, <1>2, <1>3 DEF PipelineInv, TypeOK, States
<1>7. at' \notin {"gap", "markers", "oldest"} /\ (at' \in Answering \cup Measuring => at' = at)
      /\ (at' = "off" => at = "off")
  BY <1>1 DEF Answering, Measuring
<1>8. LivesOK'
  BY <1>1, <1>2, <1>5, <1>7 DEF PipelineInv, LivesOK
<1>9. CursorOK'
  BY <1>1, <1>2, <1>4, <1>5, <1>7 DEF PipelineInv, CursorOK, Behind
<1>10. AnswerOK'
  <2>1. SUFFICES ASSUME at' \in Answering
                 PROVE  Behind(reply.life, cursor)' /\ LinesFollow' /\ GapCovers'
    BY DEF AnswerOK
  <2>2. Behind(reply.life, cursor) /\ LinesFollow /\ GapCovers /\ at = "pulled"
    BY <1>7, <2>1 DEF PipelineInv, AnswerOK, Answering
  <2>3. Behind(reply.life, cursor)'
    BY <1>1, <2>2 DEF Behind
  <2>4. LinesFollow'
    BY <1>1, <1>2, <1>5, <2>2 DEF LinesFollow
  <2>5. GapCovers'
    BY <1>1, <2>2 DEF GapCovers
  <2> QED BY <2>3, <2>4, <2>5
<1>11. HealthOK'
  BY <1>1, <1>2, <1>5, <1>7 DEF PipelineInv, HealthOK, Behind
<1>12. InOrder'
  BY <1>1 DEF PipelineInv, InOrder
<1>13. NoSilentLoss'
  BY <1>1, <1>2, <1>5 DEF NoSilentLoss
<1> QED BY <1>6, <1>8, <1>9, <1>10, <1>11, <1>12, <1>13 DEF PipelineInv
-----------------------------------------------------------------------------
(* The server's steps.                                                     *)

\* Since is answered: what the ring owes follows the cursor.
LEMMA ServeSinceKeeps == PipelineInv /\ ServeSince => PipelineInv'
<1> SUFFICES ASSUME PipelineInv, ServeSince PROVE PipelineInv'
  OBVIOUS
<1> DEFINE ls == SinceOf(ring, cursor, Batch)
<1>1. /\ at = "since" /\ reply' = [Blank EXCEPT !.life = life, !.lines = ls]
      /\ at' = IF GapAfter(ring, cursor) THEN "gap" ELSE "markers"
      /\ UNCHANGED <<ring, life, marked, client, cursor, drained, final,
                     resyncs, failures, got, declared, base>>
  BY DEF ServeSince, agentVars, history
<1>2. RingOK(ring) /\ cursor \in Nat /\ Batch \in Nat \ {0} /\ life \in Nat \ {0}
  BY PipelineAssumption DEF PipelineInv, TypeOK
<1>3. /\ ls \in Seq(Nat)
      /\ \A i \in 1 .. Len(ls) :
           ls[i] = ls[1] + i - 1 /\ ls[i] > cursor /\ ls[i] <= ring.last
      /\ ls # <<>> /\ cursor # 0 =>
           IF GapAfter(ring, cursor) THEN ls[1] <= OldestOf(ring)
           ELSE ls[1] = cursor + 1
  BY <1>2, SinceShape
<1> HIDE DEF ls
<1>4. reply' \in Replies /\ reply'.life = life /\ reply'.lines = ls /\ reply'.gap = {}
  BY <1>1, <1>2, <1>3 DEF Blank, Replies
<1>5. RingOK(ring') /\ CursorOK' /\ InOrder' /\ NoSilentLoss'
  BY <1>1, QuietKeeps
<1>6. TypeOK'
  BY <1>1, <1>4, <1>5 DEF PipelineInv, TypeOK, States
<1>7. LivesOK'
  BY <1>1, <1>2, <1>4 DEF PipelineInv, LivesOK
<1>8. AnswerOK'
  <2>1. Behind(reply.life, cursor)'
    BY <1>1, <1>2, <1>4 DEF PipelineInv, CursorOK, Behind
  <2>2. LinesFollow'
    BY <1>1, <1>3, <1>4 DEF LinesFollow
  <2>3. GapCovers'
    <3>1. CASE GapAfter(ring, cursor)
      BY <1>1, <1>3, <1>4, <3>1 DEF GapCovers
    <3>2. CASE ~GapAfter(ring, cursor)
      <4>1. ASSUME ls # <<>>, cursor # 0
            PROVE  (cursor + 1) .. (ls[1] - 1) = {}
        BY <1>2, <1>3, <3>2, <4>1
      <4> QED BY <1>1, <1>4, <3>2, <4>1 DEF GapCovers
    <3> QED BY <3>1, <3>2
  <2> QED BY <2>1, <2>2, <2>3 DEF AnswerOK
<1>9. HealthOK'
  BY <1>1 DEF HealthOK, Measuring
<1> QED BY <1>5, <1>6, <1>7, <1>8, <1>9 DEF PipelineInv

\* The gap is told from an oldest sample at or past the one Since began with.
LEMMA ServeGapKeeps == PipelineInv /\ ServeGap => PipelineInv'
<1> SUFFICES ASSUME PipelineInv, ServeGap PROVE PipelineInv'
  OBVIOUS
<1> DEFINE lost == (cursor + 1) .. (OldestOf(ring) - 1)
<1>1. /\ at = "gap" /\ at' = "markers" /\ reply' = [reply EXCEPT !.gap = lost]
      /\ UNCHANGED <<ring, life, marked, client, cursor, drained, final,
                     resyncs, failures, got, declared, base>>
  BY DEF ServeGap, agentVars, history
<1>2. RingOK(ring) /\ cursor \in Nat /\ reply \in Replies
  BY DEF PipelineInv, TypeOK
<1>3. OldestOf(ring) \in Nat
  BY <1>2, OldestIn
<1>4. lost \in SUBSET Nat
  BY <1>2, <1>3
<1>5. /\ reply' \in Replies /\ reply'.life = reply.life
      /\ reply'.lines = reply.lines /\ reply'.gap = lost
  BY <1>1, <1>2, <1>4 DEF Replies
<1>6. RingOK(ring') /\ CursorOK' /\ InOrder' /\ NoSilentLoss'
  BY <1>1, QuietKeeps
<1>7. TypeOK'
  BY <1>1, <1>5, <1>6 DEF PipelineInv, TypeOK, States
<1>8. LivesOK'
  BY <1>1, <1>5 DEF PipelineInv, LivesOK, Answering
<1>9. AnswerOK'
  <2>1. Behind(reply.life, cursor) /\ LinesFollow /\ GapCovers
    BY <1>1 DEF PipelineInv, AnswerOK, Answering
  <2>2. Behind(reply.life, cursor)' /\ LinesFollow'
    BY <1>1, <1>5, <2>1 DEF Behind, LinesFollow
  <2>3. GapCovers'
    <3>1. SUFFICES ASSUME reply.lines # <<>>, cursor # 0
                   PROVE  (cursor + 1) .. (reply.lines[1] - 1) \subseteq lost
      BY <1>1, <1>5 DEF GapCovers
    <3>2. reply.lines[1] <= OldestOf(ring)
      BY <1>1, <2>1, <3>1 DEF GapCovers
    <3>3. reply.lines[1] \in Nat
      BY <1>2, <3>1 DEF Replies
    <3> QED BY <1>2, <1>3, <3>2, <3>3
  <2> QED BY <2>2, <2>3 DEF AnswerOK
<1>10. HealthOK'
  BY <1>1 DEF HealthOK, Measuring
<1> QED BY <1>6, <1>7, <1>8, <1>9, <1>10 DEF PipelineInv

\* The trigger lines are written among the samples.
LEMMA ServeMarkersKeeps == PipelineInv /\ ServeMarkers => PipelineInv'
<1> SUFFICES ASSUME PipelineInv, ServeMarkers PROVE PipelineInv'
  OBVIOUS
<1>1. /\ at = "markers" /\ at' = "pulled"
      /\ reply' = [reply EXCEPT !.triggers = Due(reply.lines)]
      /\ UNCHANGED <<ring, life, marked, client, cursor, drained, final,
                     resyncs, failures, got, declared, base>>
  BY DEF ServeMarkers, agentVars, history
<1>2. reply \in Replies /\ Due(reply.lines) \in SUBSET Nat
  BY DEF PipelineInv, TypeOK, Due
<1>3. /\ reply' \in Replies /\ reply'.life = reply.life
      /\ reply'.lines = reply.lines /\ reply'.gap = reply.gap
  BY <1>1, <1>2 DEF Replies
<1>4. RingOK(ring') /\ CursorOK' /\ InOrder' /\ NoSilentLoss'
  BY <1>1, QuietKeeps
<1>5. TypeOK'
  BY <1>1, <1>3, <1>4 DEF PipelineInv, TypeOK, States
<1>6. LivesOK'
  BY <1>1, <1>3 DEF PipelineInv, LivesOK, Answering
<1>7. AnswerOK'
  BY <1>1, <1>3
  DEF PipelineInv, AnswerOK, Answering, Behind, LinesFollow, GapCovers
<1>8. HealthOK'
  BY <1>1 DEF HealthOK, Measuring
<1> QED BY <1>4, <1>5, <1>6, <1>7, <1>8 DEF PipelineInv

\* Health's first read finds the cursor behind the newest, in its own life.
LEMMA ServeLastKeeps == PipelineInv /\ ServeLast => PipelineInv'
<1> SUFFICES ASSUME PipelineInv, ServeLast PROVE PipelineInv'
  OBVIOUS
<1>1. /\ at = "last" /\ at' = "oldest"
      /\ reply' = [Blank EXCEPT !.life = life, !.newest = ring.last]
      /\ UNCHANGED <<ring, life, marked, client, cursor, drained, final,
                     resyncs, failures, got, declared, base>>
  BY DEF ServeLast, agentVars, history
<1>2. ring.last \in Nat /\ life \in Nat \ {0}
  BY DEF PipelineInv, TypeOK, RingOK
<1>3. /\ reply' \in Replies /\ reply'.life = life /\ reply'.newest = ring.last
      /\ reply'.oldest = 0
  BY <1>1, <1>2, EmptyIsSeq DEF Blank, Replies
<1>4. RingOK(ring') /\ CursorOK' /\ InOrder' /\ NoSilentLoss'
  BY <1>1, QuietKeeps
<1>5. TypeOK'
  BY <1>1, <1>3, <1>4 DEF PipelineInv, TypeOK, States
<1>6. LivesOK'
  BY <1>1, <1>2, <1>3 DEF PipelineInv, LivesOK
<1>7. AnswerOK'
  BY <1>1 DEF AnswerOK, Answering
<1>8. HealthOK'
  BY <1>1, <1>2, <1>3 DEF PipelineInv, CursorOK, HealthOK, Behind
<1> QED BY <1>4, <1>5, <1>6, <1>7, <1>8 DEF PipelineInv

\* Health's second read is of a ring at or past the first.
LEMMA ServeOldestKeeps == PipelineInv /\ ServeOldest => PipelineInv'
<1> SUFFICES ASSUME PipelineInv, ServeOldest PROVE PipelineInv'
  OBVIOUS
<1>1. /\ at = "oldest" /\ at' = "healthy"
      /\ reply' = [reply EXCEPT !.oldest = OldestOf(ring)]
      /\ UNCHANGED <<ring, life, marked, client, cursor, drained, final,
                     resyncs, failures, got, declared, base>>
  BY DEF ServeOldest, agentVars, history
<1>2. reply \in Replies /\ RingOK(ring)
  BY DEF PipelineInv, TypeOK
<1>3. OldestOf(ring) \in Nat /\ OldestOf(ring) <= ring.last
  BY <1>2, OldestIn
<1>4. /\ reply' \in Replies /\ reply'.life = reply.life
      /\ reply'.newest = reply.newest /\ reply'.oldest = OldestOf(ring)
  BY <1>1, <1>2, <1>3 DEF Replies
<1>5. RingOK(ring') /\ CursorOK' /\ InOrder' /\ NoSilentLoss'
  BY <1>1, QuietKeeps
<1>6. TypeOK'
  BY <1>1, <1>4, <1>5 DEF PipelineInv, TypeOK, States
<1>7. LivesOK'
  BY <1>1, <1>4 DEF PipelineInv, LivesOK, Measuring
<1>8. AnswerOK'
  BY <1>1 DEF AnswerOK, Answering
<1>9. HealthOK'
  BY <1>1, <1>3, <1>4 DEF PipelineInv, HealthOK, Measuring, Behind
<1> QED BY <1>5, <1>6, <1>7, <1>8, <1>9 DEF PipelineInv

\* A request that is lost, refused or given up carries no answer; one that
\* begins has none yet.
LEMMA UnansweredKeeps ==
  ASSUME PipelineInv, Lose \/ Refuse \/ Poll \/ SkewTick \/ GiveUp
  PROVE  PipelineInv'
<1>1. /\ at # "off" /\ at' \in {"lost", "since", "last", "select", "done"}
      /\ reply' \in {reply, Blank}
      /\ UNCHANGED <<ring, life, marked, client, cursor, resyncs, got, declared,
                     base>>
  BY DEF Lose, Refuse, Poll, SkewTick, GiveUp, Drained, agentVars, history
<1>2. drained' \in 0 .. MaxDrain /\ final' \in BOOLEAN /\ failures' \in 0 .. MaxFailures
  <2>1. drained \in 0 .. MaxDrain /\ final \in BOOLEAN /\ failures \in 0 .. MaxFailures
    BY DEF PipelineInv, TypeOK
  <2>2. 1 \in 0 .. MaxDrain
    BY PipelineAssumption
  <2>3. drained' \in 0 .. MaxDrain
    BY <2>1, <2>2 DEF Lose, Refuse, Poll, SkewTick, GiveUp
  <2>4. final' \in BOOLEAN
    BY <2>1 DEF Lose, Refuse, Poll, SkewTick, GiveUp
  <2>5. failures' = failures \/ (failures < MaxFailures /\ failures' = failures + 1)
    BY DEF Lose, Refuse, Poll, SkewTick, GiveUp
  <2>6. failures' \in 0 .. MaxFailures
    BY <2>1, <2>5, PipelineAssumption
  <2> QED BY <2>3, <2>4, <2>6
<1>3. reply' \in Replies /\ reply'.life \in {reply.life, 0}
  <2>1. Blank \in Replies /\ Blank.life = 0
    BY BlankReply DEF Blank
  <2>2. reply \in Replies
    BY DEF PipelineInv, TypeOK
  <2> QED BY <1>1, <2>1, <2>2
<1>4. RingOK(ring') /\ CursorOK' /\ InOrder' /\ NoSilentLoss'
  BY <1>1, QuietKeeps
<1>5. TypeOK'
  BY <1>1, <1>2, <1>3, <1>4 DEF PipelineInv, TypeOK, States
<1>6. LivesOK'
  <2>1. life \in Nat \ {0}
    BY DEF PipelineInv, TypeOK
  <2> QED BY <1>1, <1>3, <2>1 DEF PipelineInv, LivesOK, Answering, Measuring
<1>7. AnswerOK' /\ HealthOK'
  BY <1>1 DEF AnswerOK, HealthOK, Answering, Measuring
<1> QED BY <1>4, <1>5, <1>6, <1>7 DEF PipelineInv
-----------------------------------------------------------------------------
(* The client's steps.                                                     *)

\* The first cursor is a sample already taken, and nothing is handed on yet.
LEMMA StartKeeps == PipelineInv /\ Start => PipelineInv'
<1> SUFFICES ASSUME PipelineInv, Start PROVE PipelineInv'
  OBVIOUS
<1>1. /\ at = "off" /\ at' = "select" /\ cursor' \in {ring.last, 0}
      /\ base' = [life |-> life, cursor |-> cursor']
      /\ UNCHANGED <<ring, life, marked, client, drained, final, reply,
                     resyncs, failures, got, declared>>
  BY DEF Start, agentVars
<1>2. RingOK(ring) /\ ring.last \in Nat /\ life \in Nat \ {0}
  BY DEF PipelineInv, TypeOK, RingOK
<1>3. /\ cursor' \in Nat /\ cursor' <= ring.last
      /\ base'.life = life /\ base'.cursor = cursor'
      /\ base' \in [life : Nat, cursor : Nat]
  BY <1>1, <1>2
<1>4. got = <<>> /\ Len(got) = 0
  BY <1>1 DEF PipelineInv, CursorOK
<1>5. TypeOK'
  BY <1>1, <1>3 DEF PipelineInv, TypeOK, States, RingOK
<1>6. LivesOK'
  BY <1>1, <1>2, <1>3 DEF PipelineInv, LivesOK, Answering, Measuring
<1>7. CursorOK'
  BY <1>1, <1>3, <1>4 DEF CursorOK, Behind
<1>8. AnswerOK' /\ HealthOK'
  BY <1>1 DEF AnswerOK, HealthOK, Answering, Measuring
<1>9. InOrder'
  BY <1>1 DEF PipelineInv, InOrder
<1>10. NoSilentLoss'
  BY <1>1, <1>3 DEF NoSilentLoss
<1> QED BY <1>5, <1>6, <1>7, <1>8, <1>9, <1>10 DEF PipelineInv

\* The samples of an answer, in numbers: all after the cursor, each by one
\* more than the one before.
Follow(ls, k, c) ==
  \A i \in 1 .. k : ls[i] \in Nat /\ ls[i] = ls[1] + i - 1 /\ ls[i] > c

\* h is g with those of the life l behind it.
Appended(g, h, n, k, l, ls) ==
  /\ Len(h) = n + k
  /\ \A i \in 1 .. n : h[i] = g[i]
  /\ \A i \in 1 .. k : h[n + i] = <<l, ls[i]>>

\* Nothing of g is of a life past l, or of l and past c.
UpTo(g, n, l, c) ==
  \A i \in 1 .. n : /\ g[i][1] \in Nat /\ g[i][2] \in Nat
                    /\ g[i][1] <= l /\ (g[i][1] = l => g[i][2] <= c)

Ordered(g, n) ==
  \A i \in 2 .. n : \/ g[i - 1][1] < g[i][1]
                    \/ g[i - 1][1] = g[i][1] /\ g[i - 1][2] < g[i][2]

\* Order is kept: what follows the cursor follows all that was handed on of
\* the same life, which is at or behind it.
LEMMA HandedInOrder ==
  ASSUME NEW g, NEW h, NEW n \in Nat, NEW k \in Nat, NEW l \in Nat, NEW ls,
         NEW c \in Nat, Follow(ls, k, c), Appended(g, h, n, k, l, ls),
         UpTo(g, n, l, c), Ordered(g, n)
  PROVE  Ordered(h, n + k)
<1> USE DEF Appended, UpTo, Ordered
<1> SUFFICES ASSUME NEW i \in 2 .. (n + k)
             PROVE  \/ h[i - 1][1] < h[i][1]
                    \/ h[i - 1][1] = h[i][1] /\ h[i - 1][2] < h[i][2]
  OBVIOUS
<1>1. CASE i <= n
  <2>1. i \in 2 .. n /\ i \in 1 .. n /\ i - 1 \in 1 .. n
    BY <1>1
  <2> QED BY <2>1
<1>2. CASE i = n + 1
  <2>1. n \in 1 .. n /\ i - 1 = n /\ 1 \in 1 .. k
    BY <1>2
  <2>2. h[i - 1] = g[n] /\ h[i] = <<l, ls[1]>>
    BY <1>2, <2>1
  <2>3. h[i][1] = l /\ h[i][2] = ls[1]
    BY <2>2
  <2>4. ls[1] \in Nat /\ ls[1] > c
    BY <2>1 DEF Follow
  <2>5. /\ g[n][1] \in Nat /\ g[n][2] \in Nat
        /\ g[n][1] <= l /\ (g[n][1] = l => g[n][2] <= c)
    BY <2>1
  <2> QED BY <2>2, <2>3, <2>4, <2>5
<1>3. CASE i > n + 1
  <2> DEFINE j == i - n
  <2>1. j \in 1 .. k /\ j - 1 \in 1 .. k /\ i = n + j /\ i - 1 = n + (j - 1)
    BY <1>3
  <2> HIDE DEF j
  <2>2. h[i] = <<l, ls[j]>> /\ h[i - 1] = <<l, ls[j - 1]>>
    BY <2>1
  <2>3. ls[1] \in Nat /\ ls[j] = ls[1] + j - 1 /\ ls[j - 1] = ls[1] + (j - 1) - 1
    <3>1. 1 \in 1 .. k
      BY <2>1
    <3> QED BY <2>1, <3>1 DEF Follow
  <2>4. ls[j - 1] < ls[j]
    BY <2>1, <2>3
  <2> QED BY <2>2, <2>4
<1> QED BY <1>1, <1>2, <1>3

\* What the client holds once it was handed k samples of an answer: it was
\* handed what follows the cursor, in order, and was told of the rest.
LEMMA HandKeeps ==
  ASSUME PipelineInv, at = "pulled", NEW k \in Nat, k <= Len(reply.lines), Hand(k),
         at' \in {"since", "select", "done"}, UNCHANGED <<ring, life, base>>
  PROVE  /\ cursor' \in Nat /\ reply' \in Replies
         /\ got' \in Seq(Nat \X Nat) /\ declared' \subseteq Nat \X Nat
         /\ RingOK(ring') /\ LivesOK' /\ CursorOK' /\ AnswerOK' /\ HealthOK'
         /\ InOrder' /\ NoSilentLoss'
<1> DEFINE L == reply.life
           ls == reply.lines
           n == Len(got)
           g == got'
           c == cursor'
           d == declared'
<1>1. /\ d = declared \cup ({L} \X reply.gap)
      /\ g = got \o [i \in 1 .. k |-> <<L, ls[i]>>]
      /\ c = IF k = 0 THEN cursor ELSE ls[k]
      /\ reply' = Blank
  BY DEF Hand
<1>2. /\ RingOK(ring) /\ ring.last \in Nat /\ cursor \in Nat /\ reply \in Replies
      /\ life \in Nat \ {0} /\ L \in Nat /\ reply.gap \subseteq Nat
      /\ ls \in Seq(Nat) /\ got \in Seq(Nat \X Nat) /\ n \in Nat
      /\ declared \subseteq Nat \X Nat /\ base.life \in Nat /\ base.cursor \in Nat
  <2>1. /\ RingOK(ring) /\ cursor \in Nat /\ reply \in Replies
        /\ life \in Nat \ {0} /\ got \in Seq(Nat \X Nat)
        /\ declared \subseteq Nat \X Nat /\ base.life \in Nat /\ base.cursor \in Nat
    BY DEF PipelineInv, TypeOK
  <2>2. ring.last \in Nat /\ n \in Nat
    BY <2>1 DEF RingOK
  <2>3. L \in Nat /\ reply.gap \subseteq Nat /\ ls \in Seq(Nat)
    BY <2>1 DEF Replies
  <2> QED BY <2>1, <2>2, <2>3
<1>3. /\ \A i \in 1 .. k : ls[i] \in Nat /\ ls[i] = ls[1] + i - 1 /\ ls[i] > cursor
      /\ \A i \in 1 .. k : L = life => ls[i] <= ring.last
  <2>1. \A i \in 1 .. Len(ls) :
          /\ ls[i] = ls[1] + i - 1 /\ ls[i] > cursor
          /\ L = life => ls[i] <= ring.last
    BY DEF PipelineInv, AnswerOK, LinesFollow, Answering
  <2>2. \A i \in 1 .. k : i \in 1 .. Len(ls) /\ ls[i] \in Nat
    BY <1>2
  <2> QED BY <2>1, <2>2
<1>4. \A i \in 1 .. n : /\ got[i][1] \in Nat /\ got[i][2] \in Nat
                        /\ got[i][1] <= L /\ got[i][2] > 0
                        /\ got[i][1] = L => got[i][2] <= cursor
  <2>1. \A i \in 1 .. n : got[i][1] \in Nat /\ got[i][2] \in Nat
    BY <1>2
  <2> QED BY <2>1 DEF PipelineInv, AnswerOK, Behind, Answering
<1>5. base.life <= L /\ L <= life
  BY DEF PipelineInv, LivesOK, Answering
<1>6. /\ g \in Seq(Nat \X Nat) /\ Len(g) = n + k
      /\ \A i \in 1 .. n : g[i] = got[i]
      /\ \A i \in 1 .. k : g[n + i] = <<L, ls[i]>>
  <2> DEFINE q == [i \in 1 .. k |-> <<L, ls[i]>>]
  <2>1. \A i \in 1 .. k : ls[i] \in Nat
    BY <1>2
  <2>2. \A i \in 1 .. k : <<L, ls[i]>> \in Nat \X Nat
    BY <1>2, <2>1
  <2> HIDE DEF L, ls
  <2>3. q \in Seq(Nat \X Nat) /\ Len(q) = k /\ \A i \in 1 .. k : q[i] = <<L, ls[i]>>
    BY <2>2
  <2>4. g = got \o q
    BY <1>1
  <2> HIDE DEF q, g
  <2>5. /\ g \in Seq(Nat \X Nat) /\ Len(g) = n + Len(q)
        /\ \A i \in 1 .. n : g[i] = got[i]
        /\ \A i \in (n + 1) .. (n + Len(q)) : g[i] = q[i - n]
    BY <1>2, <2>3, <2>4, ConcatShape
  <2> HIDE DEF n
  <2>6. ASSUME NEW i \in 1 .. k PROVE g[n + i] = <<L, ls[i]>>
    <3>1. n + i \in (n + 1) .. (n + k) /\ (n + i) - n = i
      BY <1>2
    <3> QED BY <2>3, <2>5, <3>1
  <2> QED BY <2>3, <2>5, <2>6
<1>e. /\ base.life = life => base.cursor <= cursor /\ cursor <= ring.last
      /\ \A i \in 1 .. n : /\ got[i][1] <= life /\ got[i][2] > 0
                           /\ got[i][1] = life => cursor <= ring.last
  BY DEF PipelineInv, CursorOK, Behind
<1>7. reply' \in Replies /\ reply'.life = 0
  BY <1>1, BlankReply DEF Blank
<1>8. RingOK(ring')
  BY <1>2 DEF RingOK
<1>9. LivesOK'
  <2>1. base.life <= life /\ 0 <= life
    BY <1>2, <1>5
  <2> QED BY <1>7, <2>1 DEF LivesOK, Answering, Measuring
<1>10. AnswerOK' /\ HealthOK'
  BY DEF AnswerOK, HealthOK, Answering, Measuring
<1>11. NoSilentLoss =
         (base.life = life =>
            \A s \in (base.cursor + 1) .. cursor :
              \/ <<life, s>> \in Range(got) \cup declared
              \/ base.cursor = 0 /\ \A t \in 1 .. s : <<life, t>> \notin Range(got))
  BY DEF NoSilentLoss
<1>12. ls # <<>> /\ cursor # 0 => (cursor + 1) .. (ls[1] - 1) \subseteq reply.gap
  BY DEF PipelineInv, AnswerOK, Answering, GapCovers
<1>13. InOrder /\ NoSilentLoss
  BY DEF PipelineInv
<1> HIDE DEF L, ls, n, g, c, d
<1>14. d \subseteq Nat \X Nat
  BY <1>1, <1>2
<1>15. /\ c \in Nat /\ cursor <= c
       /\ k > 0 => 1 \in 1 .. k /\ ls[1] \in Nat /\ c = ls[1] + k - 1 /\ c = ls[k]
       /\ k = 0 => c = cursor
  <2>1. CASE k = 0
    BY <1>1, <1>2, <2>1
  <2>2. CASE k > 0
    <3>1. 1 \in 1 .. k /\ k \in 1 .. k
      BY <2>2
    <3>2. ls[1] \in Nat /\ ls[k] \in Nat /\ ls[k] = ls[1] + k - 1 /\ ls[k] > cursor
      BY <1>3, <3>1
    <3> QED BY <1>1, <1>2, <2>2, <3>1, <3>2
  <2> QED BY <2>1, <2>2
<1>16. c > cursor /\ L = life => c <= ring.last
  <2>1. SUFFICES ASSUME c > cursor, L = life PROVE c <= ring.last
    OBVIOUS
  <2>2. k > 0 /\ k \in 1 .. k /\ c = ls[k]
    BY <1>2, <1>15, <2>1
  <2> QED BY <1>3, <2>1, <2>2
<1>17. ASSUME base.life = life PROVE base.cursor <= c /\ c <= ring.last /\ L = life
  <2>1. L = life /\ base.cursor <= cursor /\ cursor <= ring.last
    BY <1>2, <1>5, <1>e, <1>17
  <2> QED BY <1>2, <1>15, <1>16, <2>1
<1>18. ASSUME NEW i \in 1 .. Len(g)
       PROVE  /\ g[i][1] <= life /\ g[i][2] > 0
              /\ g[i][1] = life => g[i][2] <= c /\ c <= ring.last
  <2>1. CASE i \in 1 .. n
    <3>1. /\ g[i] = got[i] /\ got[i][1] \in Nat /\ got[i][2] \in Nat
          /\ got[i][1] <= L /\ (got[i][1] = L => got[i][2] <= cursor)
          /\ got[i][1] <= life /\ got[i][2] > 0
          /\ (got[i][1] = life => cursor <= ring.last)
      BY <1>4, <1>6, <1>e, <2>1
    <3>2. g[i][1] <= life /\ g[i][2] > 0
      BY <3>1
    <3>3. ASSUME g[i][1] = life PROVE g[i][2] <= c /\ c <= ring.last
      <4>1. L = life /\ g[i][2] <= cursor /\ cursor <= ring.last
        BY <1>2, <1>5, <3>1, <3>3
      <4>2. cursor <= c /\ c \in Nat /\ cursor \in Nat /\ g[i][2] \in Nat
        BY <1>2, <1>15, <3>1
      <4>3. c <= ring.last
        BY <1>16, <4>1, <4>2
      <4> QED BY <4>1, <4>2, <4>3
    <3> QED BY <3>2, <3>3
  <2>2. CASE ~(i \in 1 .. n)
    <3> DEFINE j == i - n
    <3>0. i \in 1 .. (n + k)
      BY <1>6, <1>18
    <3>1. j \in 1 .. k /\ i = n + j /\ k > 0
      BY <1>2, <2>2, <3>0
    <3> HIDE DEF j
    <3>2. g[i][1] = L /\ g[i][2] = ls[j]
      BY <1>6, <3>1
    <3>3. ls[j] \in Nat /\ ls[j] = ls[1] + j - 1 /\ ls[j] > cursor
      BY <1>3, <3>1
    <3>4. ls[j] <= c /\ c > cursor
      <4>1. ls[1] \in Nat /\ c = ls[1] + k - 1
        BY <1>15, <3>1
      <4>2. j \in Nat /\ j <= k
        BY <3>1
      <4>3. ls[j] <= c
        BY <3>3, <4>1, <4>2
      <4> QED BY <1>2, <1>15, <3>3, <4>3
    <3> QED BY <1>2, <1>5, <1>16, <3>2, <3>3, <3>4
  <2> QED BY <2>1, <2>2
<1>19. CursorOK'
  <2>1. base'.life = life' => base'.cursor <= cursor' /\ cursor' <= ring'.last
    BY <1>17 DEF c
  <2>2. Behind(life, ring.last)'
    BY <1>18 DEF Behind, g, c
  <2> QED BY <2>1, <2>2 DEF CursorOK
<1>20. InOrder'
  <2>1. \A i \in 2 .. n : \/ got[i - 1][1] < got[i][1]
                          \/ got[i - 1][1] = got[i][1] /\ got[i - 1][2] < got[i][2]
    BY <1>13 DEF InOrder, n
  <2>2. Ordered(g, n + k)
    <3>1. UpTo(got, n, L, cursor)
      BY <1>4 DEF UpTo
    <3>2. Appended(got, g, n, k, L, ls)
      BY <1>6 DEF Appended
    <3>3. Follow(ls, k, cursor)
      BY <1>3 DEF Follow
    <3>4. Ordered(got, n)
      BY <2>1 DEF Ordered
    <3> QED BY <1>2, <3>1, <3>2, <3>3, <3>4, HandedInOrder
  <2> QED BY <1>6, <2>2 DEF InOrder, Ordered, g
<1>21. ASSUME base.life = life, NEW s \in (base.cursor + 1) .. c
       PROVE  \/ <<life, s>> \in Range(g) \cup d
              \/ base.cursor = 0 /\ \A t \in 1 .. s : <<life, t>> \notin Range(g)
  <2>1. L = life /\ base.cursor <= cursor
    BY <1>17, <1>e, <1>21
  <2>2. Range(got) = {got[i] : i \in 1 .. n} /\ Range(g) = {g[i] : i \in 1 .. (n + k)}
    <3>1. DOMAIN got = 1 .. n /\ DOMAIN g = 1 .. (n + k)
      BY <1>2, <1>6 DEF n
    <3> QED BY <3>1 DEF Range
  <2>3. Range(got) \subseteq Range(g) /\ declared \subseteq d
    <3>1. \A i \in 1 .. n : i \in 1 .. (n + k)
      BY <1>2
    <3> QED BY <1>1, <1>6, <2>2, <3>1
  <2>4. ASSUME NEW t \in 1 .. s, <<life, t>> \in Range(g)
        PROVE  <<life, t>> \in Range(got) \/ (k > 0 /\ t >= ls[1])
    <3>1. PICK i \in 1 .. (n + k) : g[i] = <<life, t>>
      BY <2>2, <2>4
    <3>2. CASE i \in 1 .. n
      BY <1>6, <2>2, <3>1, <3>2
    <3>3. CASE ~(i \in 1 .. n)
      <4> DEFINE j == i - n
      <4>1. j \in 1 .. k /\ i = n + j /\ k > 0
        BY <1>2, <3>1, <3>3
      <4> HIDE DEF j
      <4>2. g[i] = <<L, ls[j]>>
        BY <1>6, <4>1
      <4>3. t = ls[j]
        BY <3>1, <4>2
      <4>4. ls[j] \in Nat /\ ls[j] = ls[1] + j - 1
        BY <1>3, <4>1
      <4> QED BY <1>15, <4>1, <4>3, <4>4
    <3> QED BY <3>2, <3>3
  <2>5. CASE s <= cursor
    <3>1. \/ <<life, s>> \in Range(got) \cup declared
          \/ base.cursor = 0 /\ \A t \in 1 .. s : <<life, t>> \notin Range(got)
      <4>1. s \in (base.cursor + 1) .. cursor
        BY <1>2, <1>15, <1>21, <2>5
      <4> QED BY <1>11, <1>13, <1>21, <4>1
    <3>2. CASE <<life, s>> \in Range(got) \cup declared
      BY <2>3, <3>2
    <3>3. CASE base.cursor = 0 /\ \A t \in 1 .. s : <<life, t>> \notin Range(got)
      <4>1. ASSUME NEW t \in 1 .. s, k > 0 PROVE ~(t >= ls[1])
        <5>1. ls[1] \in Nat /\ ls[1] > cursor
          BY <1>3, <1>15, <4>1
        <5>2. s \in Nat
          BY <1>2, <1>15, <1>21
        <5> QED BY <1>2, <2>5, <5>1, <5>2
      <4> QED BY <2>4, <3>3, <4>1
    <3> QED BY <3>1, <3>2, <3>3
  <2>6. CASE ~(s <= cursor)
    <3>1. k > 0 /\ ls[1] \in Nat /\ c = ls[1] + k - 1 /\ ls # <<>> /\ s \in Nat /\ s <= c
      <4>1. s \in Nat /\ s <= c /\ k > 0
        BY <1>2, <1>15, <1>21, <2>6
      <4>2. Len(ls) \in Nat /\ Len(ls) # 0
        BY <1>2, <4>1 DEF ls
      <4>3. ls # <<>>
        BY <4>2
      <4> QED BY <1>15, <4>1, <4>3
    <3>2. CASE s >= ls[1]
      <4> DEFINE j == s - ls[1] + 1
      <4>1. j \in 1 .. k /\ s = ls[1] + j - 1
        BY <3>1, <3>2
      <4> HIDE DEF j
      <4>2. ls[j] = s
        BY <1>3, <4>1
      <4>3. n + j \in 1 .. (n + k) /\ g[n + j] = <<life, s>>
        BY <1>2, <1>6, <2>1, <4>1, <4>2
      <4> QED BY <2>2, <4>3
    <3>3. CASE s < ls[1] /\ cursor = 0
      <4>1. base.cursor = 0
        BY <1>2, <2>1, <3>3
      <4>2. ASSUME NEW t \in 1 .. s, <<life, t>> \in Range(got) PROVE FALSE
        <5>1. PICK i \in 1 .. n : got[i] = <<life, t>>
          BY <2>2, <4>2
        <5>2. got[i][1] = L /\ got[i][2] = t
          BY <2>1, <5>1
        <5> QED BY <1>4, <3>3, <5>1, <5>2
      <4>3. ASSUME NEW t \in 1 .. s PROVE ~(t >= ls[1])
        BY <3>1, <3>3
      <4> QED BY <2>4, <4>1, <4>2, <4>3
    <3>4. CASE s < ls[1] /\ cursor # 0
      <4>1. s \in (cursor + 1) .. (ls[1] - 1)
        BY <1>2, <2>6, <3>1, <3>4
      <4>2. s \in reply.gap
        BY <1>12, <3>1, <3>4, <4>1
      <4> QED BY <1>1, <2>1, <4>2
    <3>5. s >= ls[1] \/ s < ls[1]
      BY <3>1
    <3> QED BY <3>2, <3>3, <3>4, <3>5
  <2> QED BY <2>5, <2>6
<1>22. NoSilentLoss'
  BY <1>21 DEF NoSilentLoss, g, c, d
<1>23. cursor' \in Nat /\ got' \in Seq(Nat \X Nat) /\ declared' \subseteq Nat \X Nat
  BY <1>6, <1>14, <1>15 DEF g, c, d
<1> QED
  BY <1>7, <1>8, <1>9, <1>10, <1>19, <1>20, <1>22, <1>23

\* A whole answer handed on.
LEMMA TakePullKeeps == PipelineInv /\ TakePull => PipelineInv'
<1> SUFFICES ASSUME PipelineInv, TakePull PROVE PipelineInv'
  OBVIOUS
<1>1. /\ at = "pulled" /\ Hand(Len(reply.lines)) /\ at' \in {"since", "select", "done"}
      /\ UNCHANGED <<ring, life, marked, client, final, resyncs, failures, base>>
      /\ drained' = drained \/ (drained < MaxDrain /\ drained' = drained + 1)
  BY DEF TakePull, Drained, agentVars
<1>2. Len(reply.lines) \in Nat /\ drained \in 0 .. MaxDrain
  BY DEF PipelineInv, TypeOK, Replies
<1>3. /\ cursor' \in Nat /\ reply' \in Replies
      /\ got' \in Seq(Nat \X Nat) /\ declared' \subseteq Nat \X Nat
      /\ RingOK(ring') /\ LivesOK' /\ CursorOK' /\ AnswerOK' /\ HealthOK'
      /\ InOrder' /\ NoSilentLoss'
  BY <1>1, <1>2, HandKeeps
<1>4. drained' \in 0 .. MaxDrain
  BY <1>1, <1>2, PipelineAssumption
<1>5. TypeOK'
  BY <1>1, <1>3, <1>4 DEF PipelineInv, TypeOK, States
<1> QED BY <1>3, <1>5 DEF PipelineInv

\* A part of an answer handed on, by a recorder that ends there.
LEMMA WriteFailsKeeps == PipelineInv /\ WriteFails => PipelineInv'
<1> SUFFICES ASSUME PipelineInv, WriteFails PROVE PipelineInv'
  OBVIOUS
<1>1. /\ at = "pulled" /\ at' = "done" /\ failures < MaxFailures
      /\ failures' = failures + 1
      /\ UNCHANGED <<ring, life, marked, client, drained, final, resyncs, base>>
  BY DEF WriteFails, agentVars
<1>2. Len(reply.lines) \in Nat /\ failures \in 0 .. MaxFailures
  BY DEF PipelineInv, TypeOK, Replies
<1>3. PICK k \in 0 .. (Len(reply.lines) - 1) : Hand(k)
  BY DEF WriteFails
<1>4. k \in Nat /\ k <= Len(reply.lines)
  BY <1>2
<1>5. /\ cursor' \in Nat /\ reply' \in Replies
      /\ got' \in Seq(Nat \X Nat) /\ declared' \subseteq Nat \X Nat
      /\ RingOK(ring') /\ LivesOK' /\ CursorOK' /\ AnswerOK' /\ HealthOK'
      /\ InOrder' /\ NoSilentLoss'
  BY <1>1, <1>3, <1>4, HandKeeps
<1>6. failures' \in 0 .. MaxFailures
  BY <1>1, <1>2, PipelineAssumption
<1>7. TypeOK'
  BY <1>1, <1>5, <1>6 DEF PipelineInv, TypeOK, States
<1> QED BY <1>5, <1>7 DEF PipelineInv

\* A newest sample behind the cursor is of a life the cursor was not of, so
\* nothing was handed on of that life yet.
LEMMA TakeHealthKeeps == PipelineInv /\ TakeHealth => PipelineInv'
<1> SUFFICES ASSUME PipelineInv, TakeHealth PROVE PipelineInv'
  OBVIOUS
<1>1. /\ at = "healthy" /\ at' = "select" /\ reply' = Blank
      /\ UNCHANGED <<ring, life, marked, client, drained, final, failures, got,
                     declared>>
  BY DEF TakeHealth, agentVars
<1>2. /\ reply \in Replies /\ reply.newest \in Nat /\ reply.oldest \in Nat
      /\ reply.life \in Nat /\ cursor \in Nat /\ life \in Nat \ {0}
      /\ ring.last \in Nat /\ resyncs \in Nat /\ got \in Seq(Nat \X Nat)
  BY DEF PipelineInv, TypeOK, RingOK, Replies
<1>3. reply' \in Replies /\ reply'.life = 0
  BY <1>1, BlankReply DEF Blank
<1>4. AnswerOK' /\ HealthOK'
  BY <1>1 DEF AnswerOK, HealthOK, Answering, Measuring
<1>5. CASE cursor <= reply.newest
  <2>1. UNCHANGED <<cursor, resyncs, base>>
    BY <1>5 DEF TakeHealth
  <2>2. RingOK(ring') /\ CursorOK' /\ InOrder' /\ NoSilentLoss'
    BY <1>1, <2>1, QuietKeeps
  <2>3. TypeOK'
    BY <1>1, <1>3, <2>1, <2>2 DEF PipelineInv, TypeOK, States
  <2>4. LivesOK'
    BY <1>1, <1>2, <1>3, <2>1 DEF PipelineInv, LivesOK, Answering, Measuring
  <2> QED BY <1>4, <2>2, <2>3, <2>4 DEF PipelineInv
<1>6. CASE ~(cursor <= reply.newest)
  <2>1. /\ cursor' = IF reply.oldest > 0 THEN reply.oldest - 1 ELSE 0
        /\ resyncs' = resyncs + 1
        /\ base' = [life |-> reply.life, cursor |-> cursor']
    BY <1>6 DEF TakeHealth
  <2>2. /\ cursor' \in Nat /\ cursor' <= reply.oldest /\ base'.life = reply.life
        /\ base'.cursor = cursor' /\ base' \in [life : Nat, cursor : Nat]
    BY <1>2, <2>1
  <2>3. \A i \in 1 .. Len(got) :
          got[i][1] \in Nat /\ got[i][1] < reply.life /\ got[i][2] > 0
    <3>1. \A i \in 1 .. Len(got) : got[i][1] \in Nat
      BY <1>2
    <3> QED BY <1>1, <1>2, <1>6, <3>1 DEF PipelineInv, HealthOK, Measuring, Behind
  <2>4. reply.life <= life /\ (reply.life = life => reply.oldest <= ring.last)
    BY <1>1 DEF PipelineInv, LivesOK, HealthOK, Measuring
  <2>5. TypeOK'
    <3>1. RingOK(ring') /\ resyncs' \in Nat
      BY <1>1, <1>2, <2>1 DEF PipelineInv, TypeOK, RingOK
    <3> QED BY <1>1, <1>3, <2>2, <3>1 DEF PipelineInv, TypeOK, States
  <2>6. LivesOK'
    <3>1. base'.life <= life /\ reply'.life <= life
      BY <1>2, <1>3, <2>2, <2>4
    <3> QED BY <1>1, <3>1 DEF LivesOK, Answering, Measuring
  <2>7. CursorOK'
    <3>1. reply.life = life => cursor' <= ring.last
      BY <1>2, <2>2, <2>4
    <3>2. \A i \in 1 .. Len(got) :
            got[i][1] <= life /\ got[i][2] > 0 /\ got[i][1] # life
      BY <1>2, <2>3, <2>4
    <3> QED BY <1>1, <1>2, <2>2, <3>1, <3>2 DEF CursorOK, Behind
  <2>8. InOrder'
    BY <1>1 DEF PipelineInv, InOrder
  <2>9. NoSilentLoss'
    <3>1. \A n \in Nat : (n + 1) .. n = {}
      OBVIOUS
    <3>2. (base'.cursor + 1) .. cursor' = {}
      BY <2>2, <3>1
    <3> QED BY <3>2 DEF NoSilentLoss
  <2> QED BY <1>4, <2>5, <2>6, <2>7, <2>8, <2>9 DEF PipelineInv
<1> QED BY <1>5, <1>6
-----------------------------------------------------------------------------
\* Every step keeps the invariant.
LEMMA PipelineSteps == PipelineInv /\ [PipelineNext]_vars => PipelineInv'
<1> SUFFICES ASSUME PipelineInv, [PipelineNext]_vars PROVE PipelineInv'
  OBVIOUS
<1>1. CASE PipelineNext
  BY <1>1, TickKeeps, RestartStepKeeps, ServeSinceKeeps, ServeGapKeeps,
     ServeMarkersKeeps, ServeLastKeeps, ServeOldestKeeps, UnansweredKeeps,
     StartKeeps, TakePullKeeps, WriteFailsKeeps, TakeHealthKeeps
  DEF PipelineNext
<1>2. CASE UNCHANGED vars
  <2>1. RingOK(ring') /\ CursorOK' /\ InOrder' /\ NoSilentLoss'
    BY <1>2, QuietKeeps DEF vars
  <2>2. TypeOK'
    BY <1>2, <2>1 DEF vars, PipelineInv, TypeOK
  <2>3. LivesOK' /\ AnswerOK' /\ HealthOK'
    BY <1>2 DEF vars, PipelineInv, LivesOK, AnswerOK, HealthOK, Behind,
                LinesFollow, GapCovers
  <2> QED BY <2>1, <2>2, <2>3 DEF PipelineInv
<1> QED BY <1>1, <1>2

\* The invariant holds.
LEMMA PipelineInvariance == PipelineSpec => []PipelineInv
  BY PipelineStarts, PipelineSteps, PTL DEF PipelineSpec

\* The variables hold what the code's fields can hold.
THEOREM PipelineTypes == PipelineSpec => []TypeOK
<1>1. PipelineInv => TypeOK
  BY DEF PipelineInv
<1> QED BY <1>1, PipelineInvariance, PTL

\* Whatever is lost, repeated or restarted on the way, the samples are handed
\* on in the order they were taken and none of them twice (pullOnce).
THEOREM ArriveInOrder == PipelineSpec => []InOrder
<1>1. PipelineInv => InOrder
  BY DEF PipelineInv
<1> QED BY <1>1, PipelineInvariance, PTL

\* Every sample between where the client started, in this life of the agent,
\* and its cursor was handed on or declared lost, for every ring and batch:
\* the two reads of the ring behind an answer may have samples between them.
THEOREM NothingLostSilently == PipelineSpec => []NoSilentLoss
<1>1. PipelineInv => NoSilentLoss
  BY DEF PipelineInv
<1> QED BY <1>1, PipelineInvariance, PTL

\* The cursor moves back for a restart and for nothing else (resync).
THEOREM ResyncsAreRestarts == PipelineSpec => ResyncOnlyOnRestart
<1>1. ASSUME PipelineInv, [PipelineNext]_vars, resyncs' # resyncs
      PROVE  base.life # reply.life
  <2>1. TakeHealth
    BY <1>1
    DEF PipelineNext, vars, Tick, Restart, ServeSince, ServeGap, ServeMarkers,
        ServeLast, ServeOldest, Lose, Start, Poll, SkewTick, GiveUp, Refuse,
        TakePull, WriteFails
  <2>2. at = "healthy" /\ ~(cursor <= reply.newest)
    BY <1>1, <2>1 DEF TakeHealth
  <2> QED BY <1>1, <2>2 DEF PipelineInv, HealthOK, Measuring
<1>2. PipelineInv /\ [PipelineNext]_vars
        => [resyncs' # resyncs => base.life # reply.life]_vars
  BY <1>1
<1> QED
  BY <1>2, PipelineInvariance, PTL DEF PipelineSpec, ResyncOnlyOnRestart
=============================================================================
