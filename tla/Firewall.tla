------------------------------ MODULE Firewall ------------------------------
(***************************************************************************)
(* Doctor's firewall check (internal/router/traps.go, exposure.go): does a  *)
(* rule of this router drop the agent's replies, or the DNS queries that    *)
(* come in on its uplink?  Doctor walks raw prerouting and then one filter  *)
(* chain, first match wins, judging each matcher no, maybe or yes from what *)
(* the plan makes the packet; RouterOS meanwhile takes the packet itself    *)
(* along the same rules and knows every matcher's answer.  The module lets  *)
(* both meet the rules side by side, so that what doctor reports can be     *)
(* held against what happens to the packet.                                 *)
(* When doctor reports that the replies are dropped it proposes lists to    *)
(* join; the operator may follow that fix and doctor runs again.            *)
(* Addresses, ports and states are tokens: "container" is any network that  *)
(* holds the container's address, "unreadable" one doctor cannot parse.     *)
(***************************************************************************)
EXTENDS Integers, Sequences, FiniteSets

CONSTANTS
  Rules,        \* the rules a firewall of this instance is made of
  MaxRules,     \* bound: rules of one firewall
  Kinds,        \* packets judged: of "direct", "relay" and "inbound"
  Veth, Uplink, \* interfaces
  PlanIface, PlanAddr,  \* the lists the plan joins, or ListNone
  UplinkLists,  \* interface lists the uplink is in
  Deleted,      \* interface lists a rule names though they were removed
  Natted        \* Options.Expose: the connection may be dst-natted

VARIABLES
  rules,     \* the enabled rules doctor dumped, in order
  kind,      \* the packet
  joined,    \* the interface list of the veth, the address list of the /30
  chain,     \* the chain both are in, or "told" once doctor has reported
  i,         \* the next rule
  walker,    \* doctor's walk of this chain
  raw,       \* doctor's fate of the packet in raw prerouting
  report,    \* doctor's fate of the packet
  real,      \* what RouterOS has done with it: "walking", "passed", "dropped"
  by,        \* the rule that dropped it
  followed   \* the operator followed a fix

vars == <<rules, kind, joined, chain, i, walker, raw, report, real, by, followed>>

\* A matcher's answer (tri): ordered, so that the least sure of several is
\* their minimum.
No == 0
Maybe == 1
Yes == 2
Tri == {No, Maybe, Yes}
Open == -1   \* a walk that has not decided

ListNone == "none"
BuiltinIfaceLists == {"all", "dynamic", "static"}
None == 0    \* no rule

Actions == {"accept", "drop", "jump", "other"}
Match == [key : STRING, value : STRING, neg : BOOLEAN]

Rule == [table : {"raw", "filter"}, chain : STRING, action : Actions,
         invalid : BOOLEAN, match : SUBSET Match]

ASSUME FirewallAssumption ==
  /\ Rules \subseteq Rule
  /\ MaxRules \in Nat
  /\ Kinds \subseteq {"direct", "relay", "inbound"}
  \* A deleted list has no member; no list joined is built in (validateNames).
  /\ Deleted \cap (UplinkLists \cup {PlanIface, ListNone} \cup BuiltinIfaceLists) = {}
  /\ BuiltinIfaceLists \cap (UplinkLists \cup {PlanIface}) = {}
  /\ ListNone \notin UplinkLists

-----------------------------------------------------------------------------
(* What doctor knows of the packet: the matchers it answers yes to, and     *)
(* those it cannot tell.                                                    *)

\* inAddress and inPorts: what neither can parse is a maybe.
Unreadable == "unreadable"

\* notLoopback: the one network a query from the Internet is never for.
Loopback == "loopback"

TriOf(yes, maybe) == IF yes THEN Yes ELSE IF maybe THEN Maybe ELSE No
Flip(t) == Yes - t

\* sourceMatcher: the veth, the container's address, the lists they are in.
SourceYes(key, value, lists) ==
  \/ key = "in-interface" /\ value = Veth
  \/ key = "in-interface-list" /\ value = "all"
  \/ key = "in-interface-list" /\ value = lists.iface /\ value # ListNone
  \/ key = "src-address" /\ value = "container"
  \/ key = "src-address-list" /\ value = lists.addr /\ value # ListNone
  \/ key = "src-address-type" /\ value = "unicast"

SourceMaybe(key, value) ==
  \/ key = "in-interface" /\ value = "all-ethernet"
  \/ key = "in-interface-list" /\ value = "static"
  \/ key = "src-address" /\ value = Unreadable

\* reply.matcher: the agent's answer, which comes in on the veth and goes to a
\* LAN host or to the router itself.
ReplyKeys == {"in-interface", "in-interface-list", "src-address", "src-address-list",
              "src-address-type", "dst-address-type", "dst-address", "protocol", "src-port",
              "port", "connection-state", "connection-nat-state", "ipsec-policy"}

ReplyMatcher(key, value, lists, toRouter) ==
  TriOf(\/ SourceYes(key, value, lists)
        \/ key = "dst-address-type" /\ value = (IF toRouter THEN "local" ELSE "unicast")
        \/ key = "dst-address" /\ toRouter /\ value = "gateway"
        \/ key = "protocol" /\ value = "tcp"
        \/ key \in {"src-port", "port"} /\ value = "agent"
        \/ key = "connection-state" /\ value = "established"
        \/ key = "ipsec-policy" /\ value \in {"in-none", "out-none"},
        \/ SourceMaybe(key, value)
        \/ key = "dst-address-type" /\ toRouter
        \/ key = "dst-address" /\ (~toRouter \/ value = Unreadable)
        \/ key = "src-port" /\ value = Unreadable
        \/ key = "port"
        \/ key = "connection-nat-state" /\ Natted
        \/ key \notin ReplyKeys)

\* inbound.matcher: a DNS query from the Internet.
InboundKeys == {"in-interface", "in-interface-list", "protocol", "dst-port", "port",
                "connection-state", "connection-nat-state", "dst-address-type", "dst-address",
                "src-address-type", "ipsec-policy"}

InboundMatcher(key, value) ==
  TriOf(\/ key = "in-interface" /\ value = Uplink
        \/ key = "in-interface-list" /\ value \in {"all"} \cup UplinkLists
        \/ key = "protocol" /\ value = "udp"
        \/ key \in {"dst-port", "port"} /\ value = "dns"
        \/ key = "connection-state" /\ value = "new"
        \/ key = "dst-address-type" /\ value = "local"
        \/ key = "src-address-type" /\ value = "unicast"
        \/ key = "ipsec-policy" /\ value = "in-none",
        \/ key = "in-interface" /\ value = "all-ethernet"
        \/ key = "in-interface-list" /\ value \in {"dynamic", "static"}
        \/ key = "dst-port" /\ value = Unreadable
        \/ key = "port"
        \/ key = "dst-address" /\ value # Loopback   \* notLoopback
        \/ key \notin InboundKeys)

Judge(k, lists, m) ==
  LET plain == IF k = "inbound" THEN InboundMatcher(m.key, m.value)
               ELSE ReplyMatcher(m.key, m.value, lists, k = "relay")
  IN IF m.neg THEN Flip(plain) ELSE plain

\* fwRule.matches: the least sure of the matchers' answers.
Matches(r, k, lists) ==
  TriOf(\A m \in r.match : Judge(k, lists, m) = Yes,
        \A m \in r.match : Judge(k, lists, m) # No)

-----------------------------------------------------------------------------
(* What RouterOS knows of it: the matchers that hold, and those that may,   *)
(* depending on the LAN host, the query's source and the connection.  A     *)
(* deleted list is empty, and so is the built-in none.                      *)

Holds(k, lists, key, value) ==
  IF k = "inbound"
  THEN \/ key = "in-interface" /\ value = Uplink
       \/ key = "in-interface-list" /\ value \in {"all"} \cup UplinkLists
       \/ key = "protocol" /\ value = "udp"
       \/ key \in {"dst-port", "port"} /\ value = "dns"
       \/ key = "connection-state" /\ value = "new"
       \/ key = "dst-address-type" /\ value = "local"
       \/ key = "src-address-type" /\ value = "unicast"
       \/ key = "ipsec-policy" /\ value = "in-none"
  ELSE \/ key = "in-interface" /\ value = Veth
       \/ key = "in-interface-list" /\ value \in {"all", lists.iface} \ (Deleted \cup {ListNone})
       \/ key = "src-address" /\ value = "container"
       \/ key = "src-address-list" /\ value \in {lists.addr} \ {ListNone}
       \/ key = "src-address-type" /\ value = "unicast"
       \/ key = "dst-address-type" /\ value = (IF k = "relay" THEN "local" ELSE "unicast")
       \/ key = "dst-address" /\ k = "relay" /\ value = "gateway"
       \/ key = "protocol" /\ value = "tcp"
       \/ key \in {"src-port", "port"} /\ value = "agent"
       \/ key = "connection-state" /\ value = "established"
       \/ key = "ipsec-policy" /\ value \in {"in-none", "out-none"}

MayHold(k, key, value) ==
  \/ key = "in-interface" /\ value = "all-ethernet"
  \/ key = "in-interface-list" /\ value = "static"
  \/ key = "in-interface-list" /\ value = "dynamic" /\ k = "inbound"
  \/ key \in {"src-address", "src-port", "dst-address", "dst-port"} /\ value = Unreadable
  \/ key = "dst-address" /\ k = "direct"
  \/ key = "dst-address" /\ k = "inbound" /\ value # Loopback
  \/ key = "dst-address-type" /\ k = "relay"
  \/ key \in {"src-address", "src-address-list", "src-port"} /\ k = "inbound"
  \/ key = "dst-port" /\ k # "inbound"
  \/ key = "port"   \* the other end's port
  \/ key = "connection-nat-state" /\ k # "inbound" /\ Natted
  \/ key = "connection-mark"

\* The outcomes a matcher of a rule can have for the packet.
Truths(k, lists, m) ==
  {b \in BOOLEAN :
     IF b # m.neg THEN Holds(k, lists, m.key, m.value) \/ MayHold(k, m.key, m.value)
                  ELSE ~Holds(k, lists, m.key, m.value)}

\* The outcomes a whole rule can have: it takes what every matcher holds for.
Takes(k, lists, r) ==
  {b \in BOOLEAN : IF b THEN \A m \in r.match : TRUE \in Truths(k, lists, m)
                        ELSE \E m \in r.match : FALSE \in Truths(k, lists, m)}

-----------------------------------------------------------------------------
(* Doctor's walk. *)

NewWalker == [unsure |-> None, mayDrop |-> None, verdict |-> Open, rule |-> None]

Decide(w, verdict, rule) == [w EXCEPT !.verdict = verdict, !.rule = rule]
First(a, b) == IF a # None THEN a ELSE b   \* cmp.Or

\* An accept that may take the packet is forgotten.
Meet_Mutant1(w, n, action, m) ==
  IF w.verdict # Open \/ m = No \/ action = "other" THEN w
  ELSE IF action = "accept" THEN (IF m = Yes THEN Decide(w, No, None) ELSE w)
  ELSE IF action = "drop" /\ m = Yes
  THEN Decide(w, IF w.unsure # None THEN Maybe ELSE Yes, n)
  ELSE IF action = "drop"
  THEN [w EXCEPT !.mayDrop = First(w.mayDrop, n)]
  ELSE [w EXCEPT !.unsure = First(w.unsure, n)]

\* The drop is put down to the first rule that may have dropped it.
Meet_Mutant2(w, n, action, m) ==
  IF w.verdict # Open \/ m = No \/ action = "other" THEN w
  ELSE IF action = "accept" /\ m = Yes
  THEN Decide(w, IF w.mayDrop # None THEN Maybe ELSE No, w.mayDrop)
  ELSE IF action = "drop" /\ m = Yes
  THEN Decide(w, IF w.unsure # None THEN Maybe ELSE Yes, First(w.mayDrop, n))
  ELSE IF action = "drop"
  THEN [w EXCEPT !.mayDrop = First(w.mayDrop, n)]
  ELSE [w EXCEPT !.unsure = First(w.unsure, n)]

\* walker.meet: the effect of rule n, which takes the packet as m says.
Meet(w, n, action, m) ==
  IF w.verdict # Open \/ m = No \/ action = "other" THEN w
  ELSE IF action = "accept" /\ m = Yes
  THEN Decide(w, IF w.mayDrop # None THEN Maybe ELSE No, w.mayDrop)
  ELSE IF action = "drop" /\ m = Yes
  THEN Decide(w, IF w.unsure # None THEN Maybe ELSE Yes, n)
  ELSE IF action = "drop"
  THEN [w EXCEPT !.mayDrop = First(w.mayDrop, n)]
  ELSE [w EXCEPT !.unsure = First(w.unsure, n)]

\* A walk that decides nothing reports nothing.
Fate_Mutant(w) == [verdict |-> w.verdict, rule |-> w.rule]

\* The end of walk: what a walk that met every rule reports.
Fate(w) ==
  IF w.verdict # Open THEN [verdict |-> w.verdict, rule |-> w.rule]
  ELSE [verdict |-> IF w.mayDrop # None THEN Maybe ELSE No, rule |-> w.mayDrop]

Chain(k, table) ==
  IF table = "raw" THEN "prerouting" ELSE IF k = "direct" THEN "forward" ELSE "input"

\* The rules a walk of the table's chain meets; an invalid one is passed over.
Met(r, k, table) == r.table = table /\ r.chain = Chain(k, table) /\ ~r.invalid

\* walk's loop: what the walker has met after the first n rules, for every n.
Walkers(fw, k, lists, table) ==
  LET after[n \in 0 .. Len(fw)] ==
        IF n = 0 THEN NewWalker
        ELSE IF Met(fw[n], k, table)
        THEN Meet(after[n - 1], n, fw[n].action, Matches(fw[n], k, lists))
        ELSE after[n - 1]
  IN  after

Walk(fw, k, lists, table) == Fate(Walkers(fw, k, lists, table)[Len(fw)])

\* through: the surer of the two drops.
Surer(a, b) == IF a.verdict >= b.verdict THEN a ELSE b

Through(fw, k, lists) ==
  Surer(Walk(fw, k, lists, "raw"), Walk(fw, k, lists, "filter"))

-----------------------------------------------------------------------------
(* The fix doctor proposes. *)

PlanLists == [iface |-> PlanIface, addr |-> PlanAddr]

\* candidateLists: the lists the rules name, the plan's own and none.
Named(fw, key) == {m.value : m \in {x \in UNION {fw[n].match : n \in DOMAIN fw} : x.key = key}}

CandidateLists(fw) ==
  [iface : {PlanIface, ListNone}
             \cup (Named(fw, "in-interface-list") \ (UplinkLists \cup BuiltinIfaceLists)),
   addr : {PlanAddr, ListNone} \cup Named(fw, "src-address-list")]

Changes(c) == Cardinality({f \in {"iface", "addr"} : c[f] # PlanLists[f]})

\* Lists are proposed that only leave the drop uncertain.
MembershipThatPasses_Mutant(fw) ==
  LET passing == {c \in CandidateLists(fw) : Through(fw, "direct", c).verdict # Yes}
  IN {c \in passing : \A d \in passing : Changes(c) <= Changes(d)}

\* membershipThatPasses: a pair that lets the replies through and changes the
\* fewest of the plan's lists.  Which of several the rules' order picks is
\* left open.
MembershipThatPasses(fw) ==
  LET passing == {c \in CandidateLists(fw) : Through(fw, "direct", c).verdict = No}
  IN {c \in passing : \A d \in passing : Changes(c) <= Changes(d)}

\* trapItem's and dnsExposureItem's answer: a prerequisite, or a warning.
Item(verdict) ==
  CASE kind = "direct" ->
         (CASE verdict = Yes -> "missing" [] verdict = Maybe -> "warn" [] OTHER -> "ok")
    [] kind = "relay" -> (IF verdict = No THEN "ok" ELSE "warn")
    [] OTHER -> (IF verdict = Yes THEN "ok" ELSE "warn")

-----------------------------------------------------------------------------
(* The walk of doctor beside the way of the packet. *)

\* parseFwRules: raw's rules before filter's, each in rule order.
Firewalls ==
  {fw \in UNION {[1..n -> Rules] : n \in 0..MaxRules} :
     \A m, n \in DOMAIN fw : m < n /\ fw[m].table = "filter" => fw[n].table = "filter"}

TypeOK ==
  /\ rules \in Seq(Rules) /\ kind \in Kinds
  /\ DOMAIN joined = {"iface", "addr"}
  /\ chain \in {"raw", "filter", "told"}
  /\ i \in 1..(Len(rules) + 1)
  /\ walker \in [unsure : Nat, mayDrop : Nat, verdict : Tri \cup {Open}, rule : Nat]
  /\ raw \in [verdict : Tri, rule : Nat]
  /\ report \in [verdict : Tri, rule : Nat]
  /\ real \in {"walking", "passed", "dropped"}
  /\ by \in Nat
  /\ followed \in BOOLEAN

Unjudged == [verdict |-> No, rule |-> None]

Init ==
  /\ rules \in Firewalls
  /\ kind \in Kinds
  /\ joined = PlanLists
  /\ chain = "raw" /\ i = 1 /\ walker = NewWalker
  /\ raw = Unjudged /\ report = Unjudged
  /\ real = "walking" /\ by = None
  /\ followed = FALSE

\* RouterOS on a rule the packet still meets: a jump leads through a chain
\* that may accept it, drop it or return it.
Handled(action, taken, outcome) ==
  IF ~taken \/ real # "walking" \/ action = "other" THEN outcome = real
  ELSE \/ action \in {"accept", "jump"} /\ outcome = "passed"
       \/ action \in {"drop", "jump"} /\ outcome = "dropped"
       \/ action = "jump" /\ outcome = "walking"

\* Both meet the next rule of the chain.
MeetRule ==
  /\ chain \in {"raw", "filter"} /\ i <= Len(rules)
  /\ i' = i + 1
  /\ IF Met(rules[i], kind, chain)
     THEN /\ walker' = Meet(walker, i, rules[i].action, Matches(rules[i], kind, joined))
          /\ \E taken \in Takes(kind, joined, rules[i]) :
               \E outcome \in {"walking", "passed", "dropped"} :
                 /\ Handled(rules[i].action, taken, outcome)
                 /\ real' = outcome
                 /\ by' = IF real = "walking" /\ outcome = "dropped" THEN i ELSE by
     ELSE UNCHANGED <<walker, real, by>>
  /\ UNCHANGED <<rules, kind, joined, chain, raw, report, followed>>

\* Raw prerouting is done: what it did not drop goes on to the filter chain.
EndRaw ==
  /\ chain = "raw" /\ i = Len(rules) + 1
  /\ raw' = Fate(walker)
  /\ chain' = "filter" /\ i' = 1 /\ walker' = NewWalker
  /\ real' = IF real = "dropped" THEN real ELSE "walking"
  /\ UNCHANGED <<rules, kind, joined, report, by, followed>>

\* The filter chain is done: the default of a chain is to accept.
EndFilter ==
  /\ chain = "filter" /\ i = Len(rules) + 1
  /\ report' = Surer(raw, Fate(walker))
  /\ chain' = "told"
  /\ real' = IF real = "walking" THEN "passed" ELSE real
  /\ UNCHANGED <<rules, kind, joined, i, walker, raw, by, followed>>

\* The operator passes the lists of a fix; doctor refuses one that does not
\* exist (listChecks).
Follow(lists) ==
  /\ chain = "told" /\ Item(report.verdict) = "missing" /\ ~followed
  /\ lists \in MembershipThatPasses(rules)
  /\ lists.iface \notin Deleted
  /\ joined' = lists /\ followed' = TRUE
  /\ chain' = "raw" /\ i' = 1 /\ walker' = NewWalker
  /\ raw' = Unjudged /\ report' = Unjudged
  /\ real' = "walking" /\ by' = None
  /\ UNCHANGED <<rules, kind>>

Next ==
  \/ MeetRule
  \/ EndRaw
  \/ EndFilter
  \/ \E lists \in CandidateLists(rules) : Follow(lists)

Spec == Init /\ [][Next]_vars

-----------------------------------------------------------------------------
(* Properties. *)

\* No rule the packet can meet jumps: doctor does not read the chains a jump
\* leads to, and reports "passes" when only a jump stands in the way.
Jumpless == \A n \in DOMAIN rules : rules[n].action # "jump"

\* A certain verdict is never wrong: replies doctor calls dropped never get
\* through, whatever the matchers it cannot judge turn out to be, and those
\* it lets pass are not dropped by any rule of a firewall without jumps
\* (traps.go: "a maybe is never reported as a certain drop").
VerdictSound ==
  chain = "told" => /\ report.verdict = Yes => real = "dropped"
                    /\ report.verdict = No /\ Jumpless => real = "passed"

\* The rule a certain drop is put down to is the one nothing gets past: the
\* packet was dropped there or by a rule before it, never by a later one.
DropperNamed == chain = "told" /\ report.verdict = Yes => by \in 1..report.rule

\* An operator who joins the lists doctor proposes gets the replies through,
\* and doctor agrees at its next run.
FixPasses ==
  followed /\ chain = "told" /\ Jumpless => report.verdict = No /\ real = "passed"
=============================================================================
