------------------------------ MODULE Pipeline ------------------------------
(***************************************************************************)
(* From the agent's ring to a client's cursor: the agent pushes samples    *)
(* and may restart, which numbers them from 1 again (agent/ring.go,        *)
(* http.go); a client pulls /snapshot?since=&max= and follows with a       *)
(* cursor.  Two clients have that loop: the collector (forward.go), which  *)
(* also re-reads /healthz and resynchronises, and the recorder             *)
(* (record.go), which does neither.  A client has one request at a time;   *)
(* the server takes the ring's mutex once per read, so each read is a      *)
(* step, and the request or its answer may be lost at any of them.         *)
(* A sample is its number and the agent's life it was taken in.  The rest  *)
(* of a skew tick (boot id, board facts, sampler counters, clock skew) and *)
(* the API tick touch none of this state and are left out.  The ring is a  *)
(* record of Ring's, made anew at a restart.                               *)
(***************************************************************************)
EXTENDS Ring, FiniteSets, Functions

CONSTANTS
  Capacities,   \* the capacities asked of NewRing
  MaxSeq,       \* bound: samples of a life
  Clients,      \* the clients to start from: see ClientRecord
  Batch,        \* samples asked for per pull, the transport's cap applied
  MaxDrain,     \* pulls per poll at most (100 in the code)
  ReplyMax,     \* RelayMax, in lines: as long a reply is cut short
  MaxLives,     \* bound: lives of the agent
  MaxTriggers,  \* bound: samples of a life on which a trigger fires
  MaxFailures   \* bound: requests lost

ClientRecord == [is : {"forward", "record"}, via : {"direct", "relay"}]

ASSUME PipelineAssumption ==
  /\ Capacities \subseteq Int /\ MaxSeq \in Nat
  /\ Clients \subseteq ClientRecord
  /\ Batch \in Nat \ {0} /\ MaxDrain \in Nat \ {0} /\ ReplyMax \in Nat
  /\ MaxLives \in Nat \ {0} /\ MaxTriggers \in Nat /\ MaxFailures \in Nat

VARIABLES
  ring,        \* the agent's ring
  life,        \* how many times the agent has started
  marked,      \* samples of this life on which a trigger fired
  client,      \* which client it is, and its transport
  cursor,      \* `since': the newest sample it has seen
  drained,     \* pulls made in this poll
  final,       \* its context is done, the last drain is under way
  at,          \* where it, or the request it waits for, is
  reply,       \* what the server has put together so far
  resyncs,     \* Stats.Resyncs
  failures,    \* requests lost (bounded)
  got,         \* history: the samples handed on, in order
  declared,    \* history: samples the client was told are lost
  base         \* history: the life and cursor it last started from

agentVars == <<ring, life, marked>>
history == <<got, declared, base>>
vars == <<ring, life, marked, client, cursor, drained, final, at, reply,
          resyncs, failures, got, declared, base>>

\* An answer with nothing in it yet: the samples, the samples that have a
\* trigger line before them, the samples declared lost, and a health's two.
Blank == [life |-> 0, lines |-> <<>>, triggers |-> {}, gap |-> {},
          newest |-> 0, oldest |-> 0]

PipelineInit ==
  /\ \E c \in Capacities : ring = NewRing(c)
  /\ life = 1 /\ marked = {}
  /\ client \in Clients
  /\ cursor = 0 /\ drained = 0 /\ final = FALSE
  /\ at = "off" /\ reply = Blank
  /\ resyncs = 0 /\ failures = 0
  /\ got = <<>> /\ declared = {}
  /\ base = [life |-> 1, cursor |-> 0]
-----------------------------------------------------------------------------
(* The agent.                                                              *)

\* A sample enters the ring; a trigger may have fired on it just before.
Tick ==
  /\ ring.last < MaxSeq /\ ring' = PushTo(ring, ring.last + 1)
  /\ \/ UNCHANGED marked
     \/ Cardinality(marked) < MaxTriggers /\ marked' = marked \cup {ring.last + 1}
  /\ UNCHANGED <<life, client, cursor, drained, final, at, reply, resyncs,
                 failures, history>>

\* The agent dies, with the request it was answering, and starts again.
Restart ==
  /\ life < MaxLives
  /\ life' = life + 1
  /\ ring' = NewRing(ring.len) /\ marked' = {}
  /\ at' = IF at \in {"since", "gap", "markers", "last", "oldest"} THEN "lost"
           ELSE at
  /\ UNCHANGED <<client, cursor, drained, final, reply, resyncs, failures,
                 history>>
-----------------------------------------------------------------------------
(* The server's side of a request.                                         *)

\* snapshotSince: Ring.Since, in one critical section.
ServeSince ==
  /\ at = "since"
  /\ reply' = [Blank EXCEPT !.life = life,
                            !.lines = SinceOf(ring, cursor, Batch)]
  /\ at' = IF GapAfter(ring, cursor) THEN "gap" ELSE "markers"
  /\ UNCHANGED <<agentVars, client, cursor, drained, final, resyncs, failures,
                 history>>

\* A gap line that ends one sample too early.
ServeGap_Mutant ==
  /\ at = "gap"
  /\ reply' = [reply EXCEPT !.gap = (cursor + 1) .. (OldestOf(ring) - 2)]
  /\ at' = "markers"
  /\ UNCHANGED <<agentVars, client, cursor, drained, final, resyncs, failures,
                 history>>

\* The gap line: Ring.Oldest, in a critical section of its own.
ServeGap ==
  /\ at = "gap"
  /\ reply' = [reply EXCEPT !.gap = (cursor + 1) .. (OldestOf(ring) - 1)]
  /\ at' = "markers"
  /\ UNCHANGED <<agentVars, client, cursor, drained, final, resyncs, failures,
                 history>>

\* The triggers in (cursor, newest line]: each has a line of its own, which
\* writeEntriesWithMarkers puts before the first sample at or past it.
Due(lines) ==
  {m \in marked : lines # <<>> /\ cursor < m /\ m <= lines[Len(lines)]}

\* MarkersBetween, and the lines are written.
ServeMarkers ==
  /\ at = "markers"
  /\ reply' = [reply EXCEPT !.triggers = Due(reply.lines)]
  /\ at' = "pulled"
  /\ UNCHANGED <<agentVars, client, cursor, drained, final, resyncs, failures,
                 history>>

\* healthz: Ring.Last and then Ring.Oldest.
ServeLast ==
  /\ at = "last"
  /\ reply' = [Blank EXCEPT !.life = life, !.newest = ring.last]
  /\ at' = "oldest"
  /\ UNCHANGED <<agentVars, client, cursor, drained, final, resyncs, failures,
                 history>>

ServeOldest ==
  /\ at = "oldest"
  /\ reply' = [reply EXCEPT !.oldest = OldestOf(ring)]
  /\ at' = "healthy"
  /\ UNCHANGED <<agentVars, client, cursor, drained, final, resyncs, failures,
                 history>>

\* The request or its answer is lost, or times out.
Lose ==
  /\ at \in {"since", "gap", "markers", "pulled", "last", "oldest", "healthy"}
  /\ failures < MaxFailures
  /\ failures' = failures + 1
  /\ at' = "lost"
  /\ UNCHANGED <<agentVars, client, cursor, drained, final, reply, resyncs,
                 history>>
-----------------------------------------------------------------------------
(* The client.                                                             *)

\* Run: the first health read gives the cursor; a recorder told to start
\* from the beginning takes 0.
Start ==
  /\ at = "off"
  /\ cursor' \in IF client.is = "record" THEN {ring.last, 0} ELSE {ring.last}
  /\ base' = [life |-> life, cursor |-> cursor']
  /\ at' = "select"
  /\ UNCHANGED <<agentVars, client, drained, final, reply, resyncs, failures,
                 got, declared>>

\* A poll tick, or the end of the context, starts a drain.
Poll ==
  /\ at = "select"
  /\ drained' = 1
  /\ at' = "since"
  /\ final' \in BOOLEAN
  /\ reply' = Blank
  /\ UNCHANGED <<agentVars, client, cursor, resyncs, failures, history>>

\* Where the client goes when a drain is over.
Drained == IF final THEN "done" ELSE "select"

\* A skew tick: the collector asks /healthz.
SkewTick ==
  /\ at = "select" /\ client.is = "forward"
  /\ at' = "last" /\ reply' = Blank
  /\ UNCHANGED <<agentVars, client, cursor, drained, final, resyncs, failures,
                 history>>

\* No answer: pull returns, remeasure gives up.
GiveUp ==
  /\ at = "lost"
  /\ at' = Drained
  /\ reply' = Blank
  /\ UNCHANGED <<agentVars, client, cursor, drained, final, resyncs, failures,
                 history>>

\* A line weighs one.  Batch caps the samples, and a trigger line rides on
\* top of them.
LineCount(lines, triggers) == Len(lines) + Cardinality(triggers)
TooLong(lines, triggers) ==
  client.via = "relay" /\ LineCount(lines, triggers) >= ReplyMax

\* The relay's fetch cuts a long reply short: an error, and the cursor stays.
Refuse ==
  /\ at = "pulled" /\ TooLong(reply.lines, reply.triggers)
  /\ at' = "lost"
  /\ UNCHANGED <<agentVars, client, cursor, drained, final, reply, resyncs,
                 failures, history>>

\* A cursor left on the answer's first sample.
Hand_Mutant(k) ==
  /\ declared' = declared \cup ({reply.life} \X reply.gap)
  /\ got' = got \o [i \in 1 .. k |-> <<reply.life, reply.lines[i]>>]
  /\ cursor' = IF k = 0 THEN cursor ELSE reply.lines[1]
  /\ reply' = Blank

\* The gap is handed on, then the first k samples, and the cursor moves with
\* each.  A trigger line moves nothing: a sample follows it in every answer.
Hand(k) ==
  /\ declared' = declared \cup ({reply.life} \X reply.gap)
  /\ got' = got \o [i \in 1 .. k |-> <<reply.life, reply.lines[i]>>]
  /\ cursor' = IF k = 0 THEN cursor ELSE reply.lines[k]
  /\ reply' = Blank

\* pullOnce, and pull's decision to ask again after a full answer.
TakePull ==
  /\ at = "pulled" /\ ~TooLong(reply.lines, reply.triggers)
  /\ Hand(Len(reply.lines))
  /\ IF LineCount(reply.lines, reply.triggers) >= Batch /\ drained < MaxDrain
     THEN drained' = drained + 1 /\ at' = "since"
     ELSE drained' = drained /\ at' = Drained
  /\ UNCHANGED <<agentVars, client, final, resyncs, failures, base>>

\* The recorder cannot write a sample: it ends there, with an error.
WriteFails ==
  /\ at = "pulled" /\ ~TooLong(reply.lines, reply.triggers)
  /\ client.is = "record" /\ failures < MaxFailures
  /\ failures' = failures + 1
  /\ \E k \in 0 .. (Len(reply.lines) - 1) : Hand(k)
  /\ at' = "done"
  /\ UNCHANGED <<agentVars, client, drained, final, resyncs, base>>

\* An agent whose newest sample is the cursor's taken for one restarted.
TakeHealth_Mutant ==
  /\ at = "healthy"
  /\ IF cursor < reply.newest
     THEN UNCHANGED <<cursor, resyncs, base>>
     ELSE /\ cursor' = IF reply.oldest > 0 THEN reply.oldest - 1 ELSE 0
          /\ resyncs' = resyncs + 1
          /\ base' = [life |-> reply.life, cursor |-> cursor']
  /\ at' = "select" /\ reply' = Blank
  /\ UNCHANGED <<agentVars, client, drained, final, failures, got,
                 declared>>

\* A collector that never moves its cursor back.
TakeHealth_Stuck_Mutant ==
  /\ at = "healthy"
  /\ UNCHANGED <<cursor, resyncs, base>>
  /\ at' = "select" /\ reply' = Blank
  /\ UNCHANGED <<agentVars, client, drained, final, failures, got,
                 declared>>

\* The ring's oldest taken for at least one, which an empty ring's is not.
TakeHealth_Unguarded_Mutant ==
  /\ at = "healthy"
  /\ IF cursor <= reply.newest
     THEN UNCHANGED <<cursor, resyncs, base>>
     ELSE /\ cursor' = reply.oldest - 1
          /\ resyncs' = resyncs + 1
          /\ base' = [life |-> reply.life, cursor |-> cursor']
  /\ at' = "select" /\ reply' = Blank
  /\ UNCHANGED <<agentVars, client, drained, final, failures, got,
                 declared>>

\* remeasure, with resync: a newest sample behind the cursor is a restart.
TakeHealth ==
  /\ at = "healthy"
  /\ IF cursor <= reply.newest
     THEN UNCHANGED <<cursor, resyncs, base>>
     ELSE /\ cursor' = IF reply.oldest > 0 THEN reply.oldest - 1 ELSE 0
          /\ resyncs' = resyncs + 1
          /\ base' = [life |-> reply.life, cursor |-> cursor']
  /\ at' = "select" /\ reply' = Blank
  /\ UNCHANGED <<agentVars, client, drained, final, failures, got,
                 declared>>
-----------------------------------------------------------------------------
PipelineNext ==
  \/ Tick
  \/ Restart
  \/ ServeSince
  \/ ServeGap
  \/ ServeMarkers
  \/ ServeLast
  \/ ServeOldest
  \/ Lose
  \/ Start
  \/ Poll
  \/ SkewTick
  \/ GiveUp
  \/ Refuse
  \/ TakePull
  \/ WriteFails
  \/ TakeHealth

PipelineSpec == PipelineInit /\ [][PipelineNext]_vars

(* Fairness.  The poll and skew tickers keep firing and a select whose      *)
(* branches stay ready takes each in the end, hence SF; a request ends      *)
(* because the HTTP client has a deadline.  Nothing is assumed of the agent *)
(* pushing or of requests being lost; both are bounded.                     *)
Fairness ==
  /\ WF_vars(Start) /\ SF_vars(Poll) /\ SF_vars(SkewTick)
  /\ WF_vars(ServeSince \/ ServeGap \/ ServeMarkers)
  /\ WF_vars(ServeLast \/ ServeOldest)
  /\ WF_vars(GiveUp \/ Refuse \/ TakePull \/ TakeHealth)

FairSpec == PipelineSpec /\ Fairness
-----------------------------------------------------------------------------
(* Properties.                                                             *)

States ==
  {"off", "select", "since", "gap", "markers", "pulled", "last", "oldest",
   "healthy", "lost", "done"}

Replies ==
  [life : Nat, lines : Seq(Nat), triggers : SUBSET Nat, gap : SUBSET Nat,
   newest : Nat, oldest : Nat]

\* The variables hold what the code's fields can hold, the ring included.
TypeOK ==
  /\ RingOK(ring) /\ life \in Nat \ {0} /\ marked \subseteq Nat
  /\ client \in Clients /\ cursor \in Nat
  /\ drained \in 0 .. MaxDrain /\ final \in BOOLEAN /\ at \in States
  /\ reply \in Replies
  /\ resyncs \in Nat /\ failures \in 0 .. MaxFailures
  /\ got \in Seq(Nat \X Nat) /\ declared \subseteq Nat \X Nat
  /\ base \in [life : Nat, cursor : Nat]

\* Samples are handed on in the order they were taken, none of them twice,
\* across lost answers, drains, gaps and restarts of the agent.
InOrder ==
  \A i \in 2 .. Len(got) :
    \/ got[i - 1][1] < got[i][1]
    \/ got[i - 1][1] = got[i][1] /\ got[i - 1][2] < got[i][2]

\* "An outage shorter than the buffer is backfilled, a longer one is
\* declared, never papered over" (http.go): every sample of this life
\* between where the client started and its cursor was handed on or declared
\* lost.  The cursor 0 asks for what is held, so nothing is declared before
\* the first sample a client that starts from 0 is handed.
NoSilentLoss ==
  base.life = life =>
    \A s \in (base.cursor + 1) .. cursor :
      \/ <<life, s>> \in Range(got) \cup declared
      \/ base.cursor = 0 /\ \A t \in 1 .. s : <<life, t>> \notin Range(got)

\* Only a restart moves the cursor back: a healthy agent, one that is quiet,
\* or one that pushes between the two reads of /healthz, never does.
ResyncOnlyOnRestart ==
  [][resyncs' # resyncs => base.life # reply.life]_vars

\* The next answer is too long for the relay, and so is every one after it.
Wedged == LET next == SinceOf(ring, cursor, Batch) IN TooLong(next, Due(next))

\* Once the agent stops restarting and requests stop being lost, the
\* collector's cursor reaches the newest sample and stays there; the one
\* thing that may stop it is an answer the relay cannot carry, which it asks
\* for again until the ring has dropped those samples.
CatchesUp ==
  <>[](client.is = "forward" => at = "done" \/ cursor = ring.last \/ Wedged)
=============================================================================
