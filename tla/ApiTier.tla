------------------------------- MODULE ApiTier -------------------------------
(***************************************************************************)
(* The collector's API tier (internal/apitier) over its RouterOS client     *)
(* (internal/rosapi): one connection, one command in flight, replies that   *)
(* carry nothing to match them to their command.  A round is a list of      *)
(* commands; each is run, and when the transport failed the connection is   *)
(* reopened, at most once per RedialEvery, and the command run once more.   *)
(* The inventory of the interfaces is read on a slow cadence, dropped with  *)
(* its connection, and handed to the sinks once per successful read.        *)
(* Between any two steps the router may reboot or its operator change an    *)
(* interface.  A connection is known by the router's session it was opened  *)
(* in, an inventory by the session it was read in; the numbers, names and   *)
(* units of the replies are left out.                                       *)
(***************************************************************************)
EXTENDS Integers, Sequences

CONSTANTS
  HasRedial,    \* the reader was given a way to reopen its connection
  ReadHealth,   \* Options.Health
  Monitors,     \* Options.Interfaces is not empty
  RedialEvery,  \* ticks between two attempts to reconnect
  LabelsEvery,  \* ticks between two reads of the inventory
  Strange,      \* the router may say a word the client does not know
  MaxReboots,   \* bound: sessions of the router after the first
  MaxFailures,  \* bound: traps, stalls, refused logins and unknown words
  MaxUnread     \* bound: replies of earlier commands still in the stream

VARIABLES
  service,    \* whether it answers, and its session
  client,     \* Reader.Client: the session it was opened in, the replies to come
  wait,       \* ticks until a redial is allowed again
  inv,        \* Reader.inv
  invUnsent, triedInv,
  labels,     \* ticks until the inventory is due
  round,      \* the round being run
  carried,    \* history: the inventory the sinks were last handed
  own,        \* history: every reply read so far was to its own command
  tried,      \* history: the connection the inventory was last asked over
  failures    \* count of what MaxFailures bounds

apiVars == <<service, client, wait, inv, invUnsent, triedInv, labels, round,
          carried, own, tried, failures>>

ASSUME ApiAssumption ==
  /\ HasRedial \in BOOLEAN /\ ReadHealth \in BOOLEAN /\ Monitors \in BOOLEAN
  /\ Strange \in BOOLEAN
  /\ RedialEvery \in Nat \ {0} /\ LabelsEvery \in Nat \ {0}
  /\ MaxReboots \in Nat /\ MaxFailures \in Nat /\ MaxUnread \in Nat

\* No client, no inventory.
NoClient == [session |-> -1, unread |-> <<>>]
NoInv == [session |-> -1, of |-> "none"]

InventoryCommands == <<"interface", "bridge", "lists">>

\* What one round asks after the inventory; the counters and the connection
\* count have cadences of their own.
RoundCommands(counters, conntrack) ==
  <<"resource", "cpu">>
  \o (IF ReadHealth THEN <<"health">> ELSE <<>>)
  \o (IF Monitors THEN <<"monitor">> ELSE <<>>)
  \o (IF counters THEN <<"ethernet", "detail">> ELSE <<>>)
  \o (IF conntrack THEN <<"conntrack">> ELSE <<>>)

Sessions == 0 .. MaxReboots
Commands == {"interface", "bridge", "lists", "resource", "cpu", "health",
             "monitor", "ethernet", "detail", "conntrack", "bootlog"}
Idle == round.todo = <<>>
InventoryDue == ~triedInv \/ labels = 0

Round(kind, todo, phase) ==
  [kind |-> kind, todo |-> todo, parsed |-> NoInv,
   phase |-> IF todo = <<>> THEN "done" ELSE phase]

\* exec starts with the client there is, or with a redial when there is none.
StartPhase(c) == IF c = NoClient THEN "connect" ELSE "run"

ApiInit ==
  /\ service = [up |-> TRUE, session |-> 0] \/ service = [up |-> FALSE, session |-> 0]
  /\ client = IF service.up THEN [NoClient EXCEPT !.session = 0] ELSE NoClient
  /\ wait = 0 /\ labels = 0 /\ failures = 0
  /\ inv = NoInv /\ invUnsent = FALSE /\ triedInv = FALSE /\ carried = NoInv
  /\ round = Round("none", <<>>, "done") /\ tried = -1
  /\ own = TRUE
-----------------------------------------------------------------------------
(* Rounds.                                                                  *)

\* LoadInventory stamps the attempt, whatever comes of it.
Tries == triedInv' = TRUE /\ labels' = LabelsEvery /\ tried' = client.session

\* The forwarder reads the inventory once before its first pull.
BeginLoad ==
  /\ Idle /\ round.kind = "none"
  /\ Tries
  /\ round' = Round("load", InventoryCommands, StartPhase(client))
  /\ UNCHANGED <<service, client, wait, inv, invUnsent, carried, own, failures>>

\* The inventory goes with the round that read it, and with no other.
BeginRead_Mutant ==
  /\ Idle /\ round.kind # "none"
  /\ \E counters, conntrack \in BOOLEAN :
       round' = Round("read", (IF InventoryDue THEN InventoryCommands ELSE <<>>)
                              \o RoundCommands(counters, conntrack), StartPhase(client))
  /\ IF InventoryDue THEN Tries ELSE UNCHANGED <<triedInv, labels, tried>>
  /\ invUnsent' = FALSE
  /\ UNCHANGED <<service, client, wait, inv, carried, own, failures>>

\* Read, and the head of inventory(): an inventory read before is handed on.
BeginRead ==
  /\ Idle /\ round.kind # "none"
  /\ \E counters, conntrack \in BOOLEAN :
       round' = Round("read", (IF InventoryDue THEN InventoryCommands ELSE <<>>)
                              \o RoundCommands(counters, conntrack), StartPhase(client))
  /\ IF InventoryDue
     THEN Tries /\ UNCHANGED <<invUnsent, carried>>
     ELSE /\ invUnsent' = FALSE
          /\ carried' = IF invUnsent THEN inv ELSE carried
          /\ UNCHANGED <<triedInv, labels, tried>>
  /\ UNCHANGED <<service, client, wait, inv, own, failures>>

\* BootLog, when the kernel's boot id changed.
BeginBootLog ==
  /\ Idle /\ round.kind = "read"
  /\ round' = Round("bootlog", <<"bootlog">>, StartPhase(client))
  /\ UNCHANGED <<service, client, wait, inv, invUnsent, triedInv, labels, carried,
                 own, tried, failures>>

\* What is left of the round after its first command ended: without its
\* /interface reply an inventory is not read further, without the first
\* counters the second are not asked.
Left(result) ==
  LET skip == CASE Head(round.todo) = "interface" /\ result # "ok" -> 3
                [] Head(round.todo) = "ethernet" /\ result # "ok"  -> 2
                [] OTHER -> 1
  IN  SubSeq(round.todo, skip + 1, Len(round.todo))

\* A command ends.  The last of the inventory's commands, whatever it brought,
\* installs what /interface said; in Read the inventory is then handed on.
Ends(result, parsed, c) ==
  LET command  == Head(round.todo)
      installs == command = "lists"
      over     == installs \/ (command = "interface" /\ result # "ok")
      held     == IF installs THEN parsed ELSE inv
      unsent   == invUnsent \/ installs
      sends    == over /\ round.kind = "read" /\ unsent
  IN  /\ inv' = held
      /\ carried' = IF sends THEN held ELSE carried
      /\ invUnsent' = (unsent /\ ~sends)
      /\ round' = [Round(round.kind, Left(result), StartPhase(c)) EXCEPT
                     !.parsed = IF over THEN NoInv ELSE parsed]
-----------------------------------------------------------------------------
(* Commands.                                                                *)

Fault == failures < MaxFailures /\ failures' = failures + 1
Alive == service.up /\ client.session = service.session

\* The command goes out: its reply is the last of those to come.
Coming == Append(client.unread, Head(round.todo))

\* Only a session the router closed is reopened, as when a timeout is taken
\* for an answer.
Redials_Mutant(result) == HasRedial /\ result = "fatal"

\* shouldRedial: the transport failed, or the router closed the session.
Redials(result) == HasRedial /\ result \in {"transport", "fatal"}

\* What a command brings, and the connection after it: the reply that comes
\* next in the stream, whichever command it is of; a word the client does not
\* know, with the rest of its reply still to come; a stall beyond the command
\* timeout; a session the router closes.
Outcomes ==
  IF ~Alive THEN {[result |-> "transport", client |-> client]}
  ELSE {[result |-> res, client |-> [session |-> client.session, unread |-> Tail(Coming)]] :
           res \in {"ok", "trap"}}
       \cup {[result |-> "fatal", client |-> [session |-> -2, unread |-> <<>>]]}
       \cup (IF Len(client.unread) < MaxUnread
             THEN {[result |-> res, client |-> [session |-> client.session, unread |-> Coming]] :
                     res \in {"transport"} \cup (IF Strange THEN {"unknown"} ELSE {})}
             ELSE {})

\* The command of the round is to be run once more, after a redial.
Again == [kind |-> round.kind, todo |-> round.todo, parsed |-> round.parsed,
          phase |-> "dial"]

\* exec's run of the command, the first or the one after a redial.
Command ==
  /\ ~Idle /\ round.phase \in {"run", "rerun"}
  /\ \E out \in Outcomes :
       /\ IF Alive /\ out.result # "ok" THEN Fault ELSE UNCHANGED failures
       /\ client' = out.client
       /\ own' = (own /\ (out.result = "ok" => Head(Coming) = Head(round.todo)))
       /\ IF round.phase = "run" /\ Redials(out.result)
          THEN /\ round' = Again
               /\ UNCHANGED <<inv, invUnsent, carried>>
          ELSE Ends(out.result,
                    IF Head(round.todo) = "interface" /\ out.result = "ok"
                    THEN [session |-> client.session, of |-> Head(Coming)]
                    ELSE round.parsed,
                    out.client)
  /\ UNCHANGED <<service, wait, triedInv, labels, tried>>

\* A connection that is reopened keeps the inventory it had.
Reconnect_Mutant == inv' = inv /\ UNCHANGED <<triedInv, labels>>

\* What redial drops: the next round reads the inventory again.
Reconnect == inv' = NoInv /\ triedInv' = FALSE /\ labels' = 0

\* redial: not before its spacing has passed; the new client, or the old one
\* kept when the router does not take the connection.
Redial ==
  /\ ~Idle /\ round.phase \in {"connect", "dial"}
  /\ \/ /\ HasRedial /\ wait = 0 /\ service.up
        /\ wait' = RedialEvery
        /\ client' = [NoClient EXCEPT !.session = service.session]
        /\ Reconnect
        /\ round' = [round EXCEPT !.phase = IF @ = "connect" THEN "run" ELSE "rerun"]
        /\ UNCHANGED <<failures, invUnsent, carried>>
     \/ /\ HasRedial /\ wait = 0
        /\ IF service.up THEN Fault ELSE UNCHANGED failures
        /\ wait' = RedialEvery
        /\ Ends("transport", round.parsed, client)
        /\ UNCHANGED <<client, triedInv, labels>>
     \/ /\ ~HasRedial \/ wait > 0
        /\ Ends("transport", round.parsed, client)
        /\ UNCHANGED <<wait, client, triedInv, labels, failures>>
  /\ UNCHANGED <<service, own, tried>>

\* A countdown that does not stop at zero.
ApiTick_Mutant ==
  /\ wait > 0 \/ labels > 0
  /\ wait' = wait - 1 /\ labels' = labels - 1
  /\ UNCHANGED <<service, client, inv, invUnsent, triedInv, round, carried, own,
                 tried, failures>>

\* The clock, as far as the two cadences tell it apart.
ApiTick ==
  /\ wait > 0 \/ labels > 0
  /\ wait' = IF wait > 0 THEN wait - 1 ELSE 0
  /\ labels' = IF labels > 0 THEN labels - 1 ELSE 0
  /\ UNCHANGED <<service, client, inv, invUnsent, triedInv, round, carried, own,
                 tried, failures>>

\* The router reboots, or its API service restarts, and comes back.
Down ==
  /\ service.up /\ service.session < MaxReboots
  /\ service' = [up |-> FALSE, session |-> service.session + 1]
  /\ UNCHANGED <<client, wait, inv, invUnsent, triedInv, labels, round, carried,
                 own, tried, failures>>

Up ==
  /\ ~service.up
  /\ service' = [service EXCEPT !.up = TRUE]
  /\ UNCHANGED <<client, wait, inv, invUnsent, triedInv, labels, round, carried,
                 own, tried, failures>>

ApiNext ==
  \/ BeginLoad
  \/ BeginRead
  \/ BeginBootLog
  \/ Command
  \/ Redial
  \/ ApiTick
  \/ Down
  \/ Up

ApiSpec == ApiInit /\ [][ApiNext]_apiVars

\* The collector's loop ticks, a command ends within its timeout, a router
\* that went down comes up.
ApiFairness ==
  /\ WF_apiVars(BeginLoad) /\ WF_apiVars(BeginRead) /\ WF_apiVars(Command)
  /\ WF_apiVars(Redial) /\ WF_apiVars(ApiTick) /\ WF_apiVars(Up)
ApiFairSpec == ApiSpec /\ ApiFairness
-----------------------------------------------------------------------------
(* Properties.                                                              *)

\* The variables hold what the reader, its client and the router can hold.
ApiTypeOK ==
  /\ service \in [up : BOOLEAN, session : Sessions]
  /\ client \in [session : Sessions \cup {-1, -2}, unread : Seq(Commands)]
  /\ Len(client.unread) <= MaxUnread
  /\ wait \in 0 .. RedialEvery /\ labels \in 0 .. LabelsEvery
  /\ inv.session \in Sessions \cup {-1} /\ carried.session \in Sessions \cup {-1}
  /\ invUnsent \in BOOLEAN /\ triedInv \in BOOLEAN /\ own \in BOOLEAN
  /\ round.todo \in Seq(Commands)
  /\ round.phase \in {"done", "connect", "run", "dial", "rerun"}
  /\ failures \in 0 .. MaxFailures

\* An inventory read over a connection that was reopened since, as happens
\* when the second or third of its reads reconnects, is asked for again by
\* the very next round, over the new connection: names of an earlier boot do
\* not stay on fresh rates for a whole cadence without that question (redial,
\* "the next round re-reads it").
StaleIsReread ==
  inv # NoInv /\ client.session >= 0 /\ inv.session # client.session
    => ~triedInv \/ tried = client.session

\* The sinks hold the inventory the reader labels its rows with, unless it is
\* marked to be handed on: one the forwarder read before the first round
\* reaches them too.
SinksHoldInventory == inv # NoInv /\ ~invUnsent => carried = inv

\* Whatever happened to the router, the tier is connected to the session it
\* is in again and again: no outage outlives its cause.
Reconnects == []<>Alive
-----------------------------------------------------------------------------
(* What the comments say and the code does not do.                          *)

\* "Everything else reached us from the transport, and this tier's single
\* connection cannot be trusted once it has" (shouldRedial): what a command
\* brings is the answer to that command.
AnswersItsCommand == own
=============================================================================
