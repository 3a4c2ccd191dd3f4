---------------------------- MODULE RouterProofs ----------------------------
(***************************************************************************)
(* The router's side: doctor's firewall check, and what the commands leave *)
(* of an install.                                                          *)
(*                                                                         *)
(* The check, for every firewall of any rules, of any length, and every    *)
(* kind of packet.  A certain verdict is right: a matcher doctor judges    *)
(* certain is certain (InboundSound, ReplySound), so a rule it judges      *)
(* certain is (MatchesSound); and what the walk remembers bounds where the *)
(* packet can be (Walked), which every rule preserves.  The rule named for *)
(* a certain drop is right because raw's rules come before filter's        *)
(* (Dropped); a fix passes because the walk that meets the rules one by    *)
(* one is the loop that judged the fix (Followed).                         *)
(*                                                                         *)
(* The commands, for every set of options, however often and wherever they *)
(* fail.  Each console line is bounded once, wherever on it it stops       *)
(* (Reached): what it keeps of what is not ours, and which record it may   *)
(* take away (the ...Line lemmas, put together in LineSafe).  Each script  *)
(* has a shape its tail keeps (Installs, Removes): a run that installs     *)
(* puts the manifest first, an uninstall goes through its stages in order. *)
(* DeployInv joins the two: what is left of a run tells what holds of the  *)
(* router, and each action keeps it.                                       *)
(***************************************************************************)
EXTENDS Deploy, Firewall, DataLemmas, FiniteSetTheorems
-----------------------------------------------------------------------------
(* The firewall check: what doctor calls certain.                           *)

\* A matcher on a query from the Internet that doctor answers yes or no has
\* that answer and no other.
LEMMA InboundSound ==
  ASSUME NEW key \in STRING, NEW value \in STRING, NEW lists
  PROVE  /\ InboundMatcher(key, value) = Yes => Holds("inbound", lists, key, value)
         /\ InboundMatcher(key, value) = No =>
              ~Holds("inbound", lists, key, value) /\ ~MayHold("inbound", key, value)
<1>1. InboundMatcher(key, value) = Yes => Holds("inbound", lists, key, value)
  BY DEF InboundMatcher, TriOf, Unreadable, Loopback, Holds, Yes, No, Maybe
<1>2. ASSUME InboundMatcher(key, value) = No, Holds("inbound", lists, key, value) PROVE FALSE
  BY <1>2 DEF InboundMatcher, TriOf, Unreadable, Loopback, Holds, Yes, No, Maybe
<1>3. ASSUME InboundMatcher(key, value) = No, MayHold("inbound", key, value) PROVE FALSE
  BY <1>3 DEF InboundMatcher, InboundKeys, TriOf, Unreadable, Loopback, MayHold, Yes, No, Maybe
<1> QED BY <1>1, <1>2, <1>3

\* The same of a matcher on the agent's reply, when the interface list the
\* veth joins exists.
LEMMA ReplySound ==
  ASSUME NEW k \in {"direct", "relay"}, NEW key \in STRING, NEW value \in STRING, NEW lists,
         lists.iface \notin Deleted
  PROVE  /\ ReplyMatcher(key, value, lists, k = "relay") = Yes => Holds(k, lists, key, value)
         /\ ReplyMatcher(key, value, lists, k = "relay") = No =>
              ~Holds(k, lists, key, value) /\ ~MayHold(k, key, value)
  BY FirewallAssumption DEF FirewallAssumption, BuiltinIfaceLists, ReplyMatcher, ReplyKeys, SourceYes,
     SourceMaybe, TriOf, Unreadable, Loopback, Holds, MayHold, ListNone, Yes, No, Maybe

\* A rule that doctor says takes the packet takes it, and one that it says
\* does not take it does not.
LEMMA MatchesSound ==
  ASSUME NEW k \in {"direct", "relay", "inbound"}, NEW lists, lists.iface \notin Deleted, NEW r \in Rules
  PROVE  /\ Matches(r, k, lists) \in Tri
         /\ \A taken \in Takes(k, lists, r) :
              /\ taken \in BOOLEAN
              /\ Matches(r, k, lists) = Yes => taken
              /\ Matches(r, k, lists) = No => ~taken
<1>1. ASSUME NEW m \in r.match
      PROVE  /\ Judge(k, lists, m) = Yes => FALSE \notin Truths(k, lists, m)
             /\ Judge(k, lists, m) = No => TRUE \notin Truths(k, lists, m)
  <2>1. m.key \in STRING /\ m.value \in STRING /\ m.neg \in BOOLEAN
    BY <1>1, FirewallAssumption DEF FirewallAssumption, Rule, Match
  <2> DEFINE plain == IF k = "inbound" THEN InboundMatcher(m.key, m.value)
                      ELSE ReplyMatcher(m.key, m.value, lists, k = "relay")
             surely == Holds(k, lists, m.key, m.value)
             maybe == MayHold(k, m.key, m.value)
  <2>2. (plain = Yes => surely) /\ (plain = No => ~surely /\ ~maybe)
    <3>1. CASE k = "inbound" BY <3>1, <2>1, InboundSound
    <3>2. CASE k # "inbound" BY <3>2, <2>1, ReplySound
    <3> QED BY <3>1, <3>2
  <2>3. plain \in Tri
    BY DEF InboundMatcher, ReplyMatcher, TriOf, Tri
  <2>4. Judge(k, lists, m) = IF m.neg THEN Flip(plain) ELSE plain
    BY DEF Judge
  <2>5. Truths(k, lists, m) =
          {b \in BOOLEAN : IF b # m.neg THEN surely \/ maybe ELSE ~surely}
    BY DEF Truths
  <2> HIDE DEF plain, surely, maybe
  <2>6. CASE m.neg
    <3>1. (Flip(plain) = Yes => plain = No) /\ (Flip(plain) = No => plain = Yes)
      BY <2>3 DEF Flip, Tri, Yes, No, Maybe
    <3> QED BY <3>1, <2>2, <2>4, <2>5, <2>6
  <2>7. CASE ~m.neg
    BY <2>7, <2>1, <2>2, <2>4, <2>5
  <2> QED BY <2>6, <2>7
<1>2. Matches(r, k, lists) \in Tri
  BY DEF Matches, TriOf, Tri
<1>3. Matches(r, k, lists) = Yes => \A m \in r.match : Judge(k, lists, m) = Yes
  BY DEF Matches, TriOf, Yes, No, Maybe
<1>4. Matches(r, k, lists) = No => \E m \in r.match : Judge(k, lists, m) = No
  BY DEF Matches, TriOf, Yes, No, Maybe
<1> QED BY <1>1, <1>2, <1>3, <1>4 DEF Takes

-----------------------------------------------------------------------------
(* What the walk of one chain, as far as it has come, says of the packet. *)

Index == Nat \ {0}
WalkerType == [unsure : Nat, mayDrop : Nat, verdict : Tri \cup {Open}, rule : Nat]
Places == {"walking", "passed", "dropped"}

\* Nothing that may have let it through was met: it walks on or is dropped.
NotPassed(w, place) ==
  /\ w.verdict = Open /\ w.unsure = None => place # "passed"
  /\ w.verdict = Yes => place = "dropped"

\* Nothing that may have dropped it was met: it walks on or has passed.
NotDropped(w, place) ==
  /\ w.verdict = Open /\ w.mayDrop = None => place # "dropped"
  /\ w.verdict = No => place = "passed"

\* One rule preserves both, whatever it turns out to match.
LEMMA MeetSound ==
  ASSUME NEW w \in WalkerType, NEW n \in Index, NEW action \in Actions, NEW m \in Tri,
         NEW taken \in BOOLEAN, m = Yes => taken, m = No => ~taken,
         real \in Places, NEW outcome \in Places, Handled(action, taken, outcome),
         NEW next, next = Meet(w, n, action, m)
  PROVE  /\ next \in WalkerType
         /\ NotPassed(w, real) => NotPassed(next, outcome)
         /\ NotDropped(w, real) /\ action # "jump" => NotDropped(next, outcome)
<1> USE DEF WalkerType, Places, Index, Actions, Tri, Handled, NotPassed, NotDropped, Yes, No, Maybe, Open, None
<1>1. CASE w.verdict # Open \/ m = No \/ action = "other"
  <2>1. next = w  BY <1>1 DEF Meet
  <2>2. real # "walking" => outcome = real  OBVIOUS
  <2> QED BY <1>1, <2>1, <2>2
<1> DEFINE open == w.verdict = Open /\ m # No
<1>2. CASE open /\ action = "accept" /\ m = Yes
  <2>1. next = [w EXCEPT !.verdict = IF w.mayDrop # None THEN Maybe ELSE No, !.rule = w.mayDrop]
    BY <1>2 DEF Meet, Decide
  <2>2. outcome = (IF real = "walking" THEN "passed" ELSE real)  BY <1>2
  <2>3. CASE w.mayDrop # None
    <3>1. next = [w EXCEPT !.verdict = Maybe, !.rule = w.mayDrop]  BY <2>1, <2>3
    <3>2. next \in WalkerType  BY <3>1
    <3>3. next.verdict = Maybe  BY <3>1
    <3> QED BY <1>2, <2>2, <2>3, <3>2, <3>3
  <2>4. CASE w.mayDrop = None
    <3>1. next = [w EXCEPT !.verdict = No, !.rule = w.mayDrop]  BY <2>1, <2>4
    <3>2. next \in WalkerType  BY <3>1
    <3>3. next.verdict = No  BY <3>1
    <3> QED BY <1>2, <2>2, <2>4, <3>2, <3>3
  <2> QED BY <2>3, <2>4
<1>3. CASE open /\ action = "drop" /\ m = Yes
  <2>1. next = [w EXCEPT !.verdict = IF w.unsure # None THEN Maybe ELSE Yes, !.rule = n]
    BY <1>3 DEF Meet, Decide
  <2>2. outcome = (IF real = "walking" THEN "dropped" ELSE real)  BY <1>3
  <2>3. CASE w.unsure # None
    <3>1. next = [w EXCEPT !.verdict = Maybe, !.rule = n]  BY <2>1, <2>3
    <3>2. next \in WalkerType  BY <3>1
    <3>3. next.verdict = Maybe  BY <3>1
    <3> QED BY <1>3, <2>2, <2>3, <3>2, <3>3
  <2>4. CASE w.unsure = None
    <3>1. next = [w EXCEPT !.verdict = Yes, !.rule = n]  BY <2>1, <2>4
    <3>2. next \in WalkerType  BY <3>1
    <3>3. next.verdict = Yes  BY <3>1
    <3> QED BY <1>3, <2>2, <2>4, <3>2, <3>3
  <2> QED BY <2>3, <2>4
<1>4. CASE open /\ action = "drop" /\ m # Yes
  <2>1. next = [w EXCEPT !.mayDrop = First(w.mayDrop, n)]
    BY <1>4 DEF Meet
  <2>2. First(w.mayDrop, n) \in Nat \ {0}  BY DEF First
  <2>3. outcome \in {real, "dropped"}  BY <1>4
  <2> QED BY <1>4, <2>1, <2>2, <2>3
<1>5. CASE open /\ (action = "jump" \/ (action = "accept" /\ m # Yes))
  <2>1. next = [w EXCEPT !.unsure = First(w.unsure, n)]
    BY <1>5 DEF Meet
  <2>2. First(w.unsure, n) \in Nat \ {0}  BY DEF First
  <2>3. action = "accept" => outcome \in {real, "passed"} /\ (real = "dropped" => outcome = "dropped")
    BY <1>5
  <2> QED BY <1>5, <2>1, <2>2, <2>3
<1> QED BY <1>1, <1>2, <1>3, <1>4, <1>5

-----------------------------------------------------------------------------
(* The invariant. *)

\* What raw prerouting reported bounds where the packet is in the filter
\* chain; only a packet that raw surely let through is judged there afresh.
Typed ==
  /\ rules \in Seq(Rules) /\ kind \in {"direct", "relay", "inbound"}
  /\ joined.iface \notin Deleted
  /\ chain \in {"raw", "filter", "told"} /\ i \in Index
  /\ walker \in WalkerType /\ real \in Places
  /\ raw \in [verdict : Tri, rule : Nat] /\ report \in [verdict : Tri, rule : Nat]

Walked ==
  /\ chain \in {"raw", "filter"} => NotPassed(walker, real)
  /\ chain = "raw" /\ Jumpless => NotDropped(walker, real)
  /\ chain = "filter" /\ raw.verdict = No /\ Jumpless => NotDropped(walker, real)
  /\ chain = "filter" /\ raw.verdict = Yes => real = "dropped"

IInv == Typed /\ Walked /\ VerdictSound

LEMMA InitInv == Init => IInv
<1> SUFFICES ASSUME Init PROVE IInv OBVIOUS
<1>1. rules \in Seq(Rules)
  <2>1. PICK n \in 0..MaxRules : rules \in [1..n -> Rules]  BY DEF Init, Firewalls
  <2> QED BY <2>1, FirewallAssumption DEF FirewallAssumption
<1>2. joined.iface \notin Deleted
  BY FirewallAssumption DEF FirewallAssumption, Init, PlanLists
<1>3. kind \in {"direct", "relay", "inbound"}
  BY FirewallAssumption DEF FirewallAssumption, Init
<1> QED BY <1>1, <1>2, <1>3 DEF Init, IInv, Typed, Walked, VerdictSound, NotPassed, NotDropped, NewWalker,
      Unjudged, WalkerType, Places, Index, Tri, Open, None, Yes, No, Maybe

\* A fate is certain only where the walk's invariant makes it so.
LEMMA FateSound ==
  ASSUME NEW w \in WalkerType, NEW f, f = Fate(w)
  PROVE  /\ f \in [verdict : Tri, rule : Nat]
         /\ f.verdict = Yes <=> w.verdict = Yes
         /\ f.verdict = No <=> w.verdict = No \/ (w.verdict = Open /\ w.mayDrop = None)
<1>1. CASE w.verdict # Open
  <2>1. f = [verdict |-> w.verdict, rule |-> w.rule]  BY <1>1 DEF Fate
  <2> QED BY <1>1, <2>1 DEF WalkerType, Tri, Open, Yes, No, Maybe
<1>2. CASE w.verdict = Open /\ w.mayDrop # None
  <2>1. f = [verdict |-> Maybe, rule |-> w.mayDrop]  BY <1>2 DEF Fate
  <2> QED BY <1>2, <2>1 DEF WalkerType, Tri, Open, Yes, No, Maybe
<1>3. CASE w.verdict = Open /\ w.mayDrop = None
  <2>1. f = [verdict |-> No, rule |-> None]  BY <1>3 DEF Fate
  <2> QED BY <1>3, <2>1 DEF WalkerType, Tri, Open, Yes, No, Maybe, None
<1> QED BY <1>1, <1>2, <1>3

LEMMA NextInv == IInv /\ [Next]_vars => IInv'
<1> SUFFICES ASSUME IInv, [Next]_vars PROVE IInv'  OBVIOUS
<1>0. Typed /\ Walked /\ VerdictSound  BY DEF IInv
<1>1. CASE MeetRule
  <2>1. i \in 1..Len(rules) /\ rules[i] \in Rules /\ chain \in {"raw", "filter"}
    BY <1>0, <1>1 DEF MeetRule, Typed, Index
  <2>2. rules[i].action \in Actions
    BY <2>1, FirewallAssumption DEF FirewallAssumption, Rule
  <2>3. Jumpless => rules[i].action # "jump"
    BY <2>1, <1>0 DEF Jumpless, Typed
  <2>4. /\ walker' \in WalkerType /\ real' \in Places
        /\ NotPassed(walker, real) => NotPassed(walker', real')
        /\ NotDropped(walker, real) /\ Jumpless => NotDropped(walker', real')
        /\ real = "dropped" => real' = "dropped"
    <3>1. CASE Met(rules[i], kind, chain)
      <4>1. PICK taken \in Takes(kind, joined, rules[i]), outcome \in Places :
              Handled(rules[i].action, taken, outcome) /\ real' = outcome
        BY <1>1, <3>1 DEF MeetRule, Places
      <4>2. walker' = Meet(walker, i, rules[i].action, Matches(rules[i], kind, joined))
        BY <1>1, <3>1 DEF MeetRule
      <4>3. /\ Matches(rules[i], kind, joined) \in Tri
            /\ taken \in BOOLEAN
            /\ Matches(rules[i], kind, joined) = Yes => taken
            /\ Matches(rules[i], kind, joined) = No => ~taken
        BY <1>0, <2>1, <4>1, MatchesSound DEF Typed
      <4>4. real = "dropped" => outcome = "dropped"
        BY <4>1 DEF Handled
      <4>5. real \in Places /\ walker \in WalkerType /\ i \in Index
        BY <1>0 DEF Typed
      <4>6. /\ walker' \in WalkerType
            /\ NotPassed(walker, real) => NotPassed(walker', outcome)
            /\ NotDropped(walker, real) /\ rules[i].action # "jump" => NotDropped(walker', outcome)
        BY <2>2, <4>1, <4>2, <4>3, <4>5, MeetSound
      <4> QED BY <2>3, <4>1, <4>4, <4>6
    <3>2. CASE ~Met(rules[i], kind, chain)
      <4>1. walker' = walker /\ real' = real  BY <1>1, <3>2 DEF MeetRule
      <4> QED BY <4>1, <1>0 DEF Typed
    <3> QED BY <3>1, <3>2
  <2>5. /\ rules' = rules /\ kind' = kind /\ joined' = joined /\ chain' = chain
        /\ raw' = raw /\ report' = report /\ i' = i + 1
    BY <1>1 DEF MeetRule
  <2>6. Jumpless' = Jumpless  BY <2>5 DEF Jumpless
  <2>7. Typed'  BY <1>0, <2>4, <2>5 DEF Typed, Index
  <2>8. Walked'  BY <1>0, <2>1, <2>4, <2>5, <2>6 DEF Walked
  <2>9. VerdictSound'  BY <2>1, <2>5 DEF VerdictSound
  <2> QED BY <2>7, <2>8, <2>9 DEF IInv
<1>2. CASE EndRaw
  <2>1. /\ chain = "raw" /\ chain' = "filter" /\ i' = 1 /\ raw' = Fate(walker) /\ walker' = NewWalker
        /\ real' = IF real = "dropped" THEN real ELSE "walking"
        /\ rules' = rules /\ kind' = kind /\ joined' = joined /\ report' = report
    BY <1>2 DEF EndRaw
  <2>2. Jumpless' = Jumpless  BY <2>1 DEF Jumpless
  <2>3. walker \in WalkerType /\ real \in Places  BY <1>0 DEF Typed
  <2>4. /\ raw' \in [verdict : Tri, rule : Nat]
        /\ raw'.verdict = Yes <=> walker.verdict = Yes
        /\ raw'.verdict = No <=> walker.verdict = No \/ (walker.verdict = Open /\ walker.mayDrop = None)
    BY <2>1, <2>3, FateSound
  <2>5. NewWalker \in WalkerType
    BY DEF NewWalker, WalkerType, None, Open
  <2>6. Typed'  BY <1>0, <2>1, <2>4, <2>5 DEF Typed, Index, Places
  <2>7. NotPassed(NewWalker, real')
    BY <2>1 DEF NotPassed, NewWalker, Open, Yes, None
  <2>8. raw'.verdict = No /\ Jumpless => NotDropped(NewWalker, real')
    BY <1>0, <2>1, <2>3, <2>4 DEF Walked, NotDropped, NewWalker, Open, No, None
  <2>9. raw'.verdict = Yes => real' = "dropped"
    BY <1>0, <2>1, <2>4 DEF Walked, NotPassed
  <2>10. Walked'  BY <2>1, <2>2, <2>7, <2>8, <2>9 DEF Walked
  <2>11. VerdictSound'  BY <2>1 DEF VerdictSound
  <2> QED BY <2>6, <2>10, <2>11 DEF IInv
<1>3. CASE EndFilter
  <2>1. /\ chain = "filter" /\ chain' = "told" /\ report' = Surer(raw, Fate(walker))
        /\ real' = IF real = "walking" THEN "passed" ELSE real
        /\ rules' = rules /\ kind' = kind /\ joined' = joined /\ i' = i /\ walker' = walker /\ raw' = raw
    BY <1>3 DEF EndFilter
  <2>2. Jumpless' = Jumpless  BY <2>1 DEF Jumpless
  <2>3. walker \in WalkerType /\ real \in Places /\ raw \in [verdict : Tri, rule : Nat]  BY <1>0 DEF Typed
  <2> DEFINE filter == Fate(walker)
  <2>4. /\ filter \in [verdict : Tri, rule : Nat]
        /\ filter.verdict = Yes <=> walker.verdict = Yes
        /\ filter.verdict = No <=> walker.verdict = No \/ (walker.verdict = Open /\ walker.mayDrop = None)
    BY <2>3, FateSound
  <2>5. report' = Surer(raw, filter)  BY <2>1
  <2> HIDE DEF filter
  <2>6. /\ report' \in [verdict : Tri, rule : Nat]
        /\ report'.verdict = Yes => raw.verdict = Yes \/ filter.verdict = Yes
        /\ report'.verdict = No => raw.verdict = No /\ filter.verdict = No
    BY <2>3, <2>4, <2>5 DEF Surer, Tri, Yes, No, Maybe
  <2>7. Typed'  BY <1>0, <2>1, <2>6 DEF Typed, Places
  <2>8. Walked'  BY <2>1 DEF Walked
  <2>9. report'.verdict = Yes => real' = "dropped"
    BY <1>0, <2>1, <2>4, <2>6 DEF Walked, NotPassed
  <2>10. report'.verdict = No /\ Jumpless => real' = "passed"
    BY <1>0, <2>1, <2>3, <2>4, <2>6 DEF Walked, NotDropped, Places
  <2>11. VerdictSound'  BY <2>1, <2>2, <2>9, <2>10 DEF VerdictSound
  <2> QED BY <2>7, <2>8, <2>11 DEF IInv
<1>4. ASSUME NEW lists \in CandidateLists(rules), Follow(lists) PROVE IInv'
  <2>1. /\ joined' = lists /\ lists.iface \notin Deleted /\ chain' = "raw" /\ i' = 1
        /\ walker' = NewWalker /\ raw' = Unjudged /\ report' = Unjudged /\ real' = "walking"
        /\ rules' = rules /\ kind' = kind
    BY <1>4 DEF Follow
  <2>2. Typed'
    BY <1>0, <2>1 DEF Typed, Index, NewWalker, WalkerType, Unjudged, Places, Tri, None, No, Open
  <2>3. Walked'
    BY <2>1 DEF Walked, NotPassed, NotDropped, NewWalker, Open, None, Yes, No
  <2>4. VerdictSound'  BY <2>1 DEF VerdictSound
  <2> QED BY <2>2, <2>3, <2>4 DEF IInv
<1>5. CASE UNCHANGED vars
  BY <1>0, <1>5 DEF vars, IInv, Typed, Walked, VerdictSound, Jumpless
<1> QED BY <1>1, <1>2, <1>3, <1>4, <1>5 DEF Next

\* For every set of rules, every firewall made of them and every packet:
\* a drop doctor calls certain happens, and a packet it lets pass is dropped
\* by no rule of a firewall without jumps.
THEOREM VerdictIsSound == Spec => []VerdictSound
<1>1. IInv => VerdictSound  BY DEF IInv
<1> QED BY InitInv, NextInv, <1>1, PTL DEF Spec
-----------------------------------------------------------------------------
(* The types of the variables. *)

LEMMA InvHolds == Spec => []IInv
BY InitInv, NextInv, PTL DEF Spec

\* The fates and the walker are typed with the invariant; the rest is here.
Ranges ==
  /\ kind \in Kinds /\ DOMAIN joined = {"iface", "addr"}
  /\ i \in 1 .. (Len(rules) + 1) /\ by \in Nat /\ followed \in BOOLEAN

LEMMA RangesInit == Init => Ranges
<1> SUFFICES ASSUME Init PROVE Ranges  OBVIOUS
<1>1. DOMAIN joined = {"iface", "addr"}
  BY DEF Init, PlanLists
<1>2. Len(rules) \in Nat
  BY InitInv DEF IInv, Typed
<1>3. kind \in Kinds /\ i = 1 /\ by = 0 /\ followed = FALSE
  BY DEF Init, None
<1>4. 1 \in 1 .. (Len(rules) + 1)
  BY <1>2
<1> QED BY <1>1, <1>3, <1>4, Zenon DEF Ranges

LEMMA RangesStep == IInv /\ Ranges /\ [Next]_vars => Ranges'
<1> SUFFICES ASSUME IInv, Ranges, [Next]_vars PROVE Ranges'  OBVIOUS
<1>0. Len(rules) \in Nat
  BY DEF IInv, Typed
<1>1. CASE MeetRule
  <2>1. /\ i <= Len(rules) /\ i' = i + 1 /\ by' \in {i, by}
        /\ UNCHANGED <<rules, kind, joined, followed>>
    BY <1>1 DEF MeetRule
  <2> QED BY <1>0, <2>1 DEF Ranges
<1>2. CASE EndRaw
  BY <1>0, <1>2 DEF EndRaw, Ranges
<1>3. CASE EndFilter
  BY <1>3 DEF EndFilter, Ranges
<1>4. ASSUME NEW lists \in CandidateLists(rules), Follow(lists) PROVE Ranges'
  <2>1. DOMAIN lists = {"iface", "addr"}
    BY DEF CandidateLists
  <2> QED BY <1>0, <1>4, <2>1 DEF Follow, Ranges, None
<1>5. CASE UNCHANGED vars
  BY <1>5 DEF vars, Ranges
<1> QED BY <1>1, <1>2, <1>3, <1>4, <1>5 DEF Next

LEMMA RangesHold == Spec => []Ranges
<1>1. Init => Ranges
  BY RangesInit
<1>2. IInv /\ Ranges /\ [Next]_vars => Ranges'
  BY RangesStep
<1> QED BY InvHolds, <1>1, <1>2, PTL DEF Spec

\* The walk, its two fates and the packet keep their ranges, and the walk
\* stays within the rules that doctor dumped (traps.go, walk, meet).
THEOREM FirewallTypes == Spec => []TypeOK
<1>1. IInv /\ Ranges => TypeOK
  BY DEF IInv, Typed, Ranges, TypeOK, WalkerType, Places
<1> QED BY InvHolds, RangesHold, <1>1, PTL

-----------------------------------------------------------------------------
(* The rule that dropped the packet.  Raw's rules come before filter's, so  *)
(* the rule that doctor settles on in the filter chain comes after one that *)
(* dropped the packet in raw prerouting.                                    *)

RawFirst ==
  \A m, n \in 1 .. Len(rules) :
    m < n /\ rules[m].table = "filter" => rules[n].table = "filter"

Dropped ==
  /\ RawFirst
  /\ real = "dropped" => by \in 1 .. Len(rules)
  /\ real = "dropped" /\ chain = "raw" => by < i /\ rules[by].table = "raw"
  /\ real = "dropped" /\ chain = "filter" => by < i \/ rules[by].table = "raw"
  /\ chain \in {"raw", "filter"} /\ walker.verdict = Yes => by \in 1 .. walker.rule
  /\ chain = "filter" /\ raw.verdict = Yes => by \in 1 .. raw.rule
  /\ DropperNamed

LEMMA DroppedInit == Init => Dropped
<1> SUFFICES ASSUME Init PROVE Dropped  OBVIOUS
<1>1. RawFirst
  <2>1. PICK n \in 0 .. MaxRules : rules \in [1 .. n -> Rules]
    BY DEF Init, Firewalls
  <2>2. DOMAIN rules = 1 .. n /\ Len(rules) = n
    BY <2>1, FirewallAssumption DEF FirewallAssumption
  <2> QED BY <2>2 DEF Init, Firewalls, RawFirst
<1> QED
  BY <1>1 DEF Init, Dropped, DropperNamed, NewWalker, Unjudged, Open, Yes, No

\* A walk turns certain only at a rule that drops and takes the packet.
LEMMA MeetDecides ==
  ASSUME NEW w \in WalkerType, NEW n \in Index, NEW action, NEW m \in Tri,
         NEW next, next = Meet(w, n, action, m), next.verdict = Yes
  PROVE  \/ w.verdict = Yes /\ next = w
         \/ w.verdict = Open /\ next.rule = n
<1> USE DEF WalkerType, Tri, Yes, No, Maybe, Open, None
<1>1. CASE w.verdict # Open
  BY <1>1 DEF Meet
<1>2. CASE w.verdict = Open /\ m # No /\ action = "drop" /\ m = Yes
  <2>1. next = [w EXCEPT !.verdict = IF w.unsure # None THEN Maybe ELSE Yes, !.rule = n]
    BY <1>2 DEF Meet, Decide
  <2>2. next.rule = n
    BY <2>1
  <2> QED BY <1>2, <2>2
<1>3. CASE w.verdict = Open /\ action = "accept" /\ m = Yes
  <2>1. next = [w EXCEPT !.verdict = IF w.mayDrop # None THEN Maybe ELSE No, !.rule = w.mayDrop]
    BY <1>3 DEF Meet, Decide
  <2>2. next.verdict = IF w.mayDrop # None THEN Maybe ELSE No
    BY <2>1
  <2> QED BY <2>2
<1>4. CASE w.verdict = Open /\ ~ (action \in {"accept", "drop"} /\ m = Yes)
  <2>1. \/ next = w \/ next = [w EXCEPT !.mayDrop = First(w.mayDrop, n)]
        \/ next = [w EXCEPT !.unsure = First(w.unsure, n)]
    BY <1>4 DEF Meet
  <2>2. next.verdict = w.verdict
    BY <2>1
  <2> QED BY <1>4, <2>2
<1> QED BY <1>1, <1>2, <1>3, <1>4

LEMMA DroppedStep == IInv /\ Ranges /\ Dropped /\ [Next]_vars => Dropped'
<1> SUFFICES ASSUME IInv, Ranges, Dropped, [Next]_vars PROVE Dropped'  OBVIOUS
<1>0. /\ Len(rules) \in Nat /\ walker \in WalkerType /\ i \in Index
      /\ real \in Places /\ raw \in [verdict : Tri, rule : Nat]
      /\ i \in 1 .. (Len(rules) + 1) /\ by \in Nat
      /\ IInv'
  BY NextInv DEF IInv, Typed, Ranges
<1>1. CASE MeetRule
  <2>1. /\ i \in 1 .. Len(rules) /\ chain \in {"raw", "filter"} /\ i' = i + 1
        /\ UNCHANGED <<rules, kind, joined, chain, raw, report, followed>>
    BY <1>0, <1>1 DEF MeetRule
  <2>2. RawFirst' /\ DropperNamed'
    BY <2>1 DEF Dropped, RawFirst, DropperNamed
  <2>3. CASE ~Met(rules[i], kind, chain)
    <3>1. UNCHANGED <<walker, real, by>>
      BY <1>1, <2>3 DEF MeetRule
    <3> QED BY <1>0, <2>1, <2>2, <3>1 DEF Dropped
  <2>4. CASE Met(rules[i], kind, chain)
    <3>1. PICK taken \in Takes(kind, joined, rules[i]), outcome \in Places :
            /\ Handled(rules[i].action, taken, outcome)
            /\ real' = outcome
            /\ by' = IF real = "walking" /\ outcome = "dropped" THEN i ELSE by
      BY <1>1, <2>4 DEF MeetRule, Places
    <3>2. walker' = Meet(walker, i, rules[i].action, Matches(rules[i], kind, joined))
      BY <1>1, <2>4 DEF MeetRule
    <3>3. real # "walking" => real' = real /\ by' = by
      BY <3>1 DEF Handled
    <3>4. real' = "dropped" => (real = "walking" /\ by' = i) \/ (real = "dropped" /\ by' = by)
      BY <1>0, <3>1, <3>3 DEF Places
    <3>5. rules[i].table = chain
      BY <2>4 DEF Met
    <3>6. real' = "dropped" => /\ by' \in 1 .. Len(rules) /\ (chain = "raw" => by' < i + 1)
                               /\ by' < i + 1 \/ rules[by'].table = "raw"
                               /\ chain = "raw" => rules[by'].table = "raw"
      BY <1>0, <2>1, <3>4, <3>5 DEF Dropped
    <3>7. ASSUME walker'.verdict = Yes PROVE by' \in 1 .. walker'.rule
      <4>1. Matches(rules[i], kind, joined) \in Tri
        BY DEF Matches, TriOf, Tri
      <4>2. \/ walker.verdict = Yes /\ walker' = walker
            \/ walker.verdict = Open /\ walker'.rule = i
        BY <1>0, <3>2, <3>7, <4>1, MeetDecides
      <4>3. real' = "dropped"
        BY <1>0, <2>1, <3>7 DEF IInv, Walked, NotPassed
      <4>4. CASE walker.verdict = Yes /\ walker' = walker
        <5>1. real = "dropped"
          BY <2>1, <4>4 DEF IInv, Walked, NotPassed
        <5> QED BY <2>1, <3>3, <4>4, <5>1 DEF Dropped
      <4>5. CASE walker'.rule = i
        <5>1. by' \in 1 .. Len(rules)
          BY <3>6, <4>3
        <5>2. by' <= i
          <6>1. SUFFICES ASSUME i < by' PROVE FALSE
            BY <1>0, <5>1
          <6>2. chain = "filter" /\ rules[by'].table = "raw"
            BY <1>0, <2>1, <3>6, <4>3, <5>1, <6>1
          <6>3. rules[by'].table = "filter"
            BY <2>1, <3>5, <5>1, <6>1, <6>2 DEF Dropped, RawFirst
          <6> QED BY <6>2, <6>3
        <5> QED BY <4>5, <5>1, <5>2
      <4> QED BY <4>2, <4>4, <4>5
    <3>8. chain = "filter" /\ raw.verdict = Yes => by' \in 1 .. raw.rule
      <4>1. chain = "filter" /\ raw.verdict = Yes => real = "dropped"
        BY DEF IInv, Walked
      <4> QED BY <3>3, <4>1 DEF Dropped
    <3> QED BY <2>1, <2>2, <3>6, <3>7, <3>8 DEF Dropped
  <2> QED BY <2>3, <2>4
<1>2. CASE EndRaw
  <2>1. /\ chain = "raw" /\ chain' = "filter" /\ raw' = Fate(walker) /\ walker' = NewWalker
        /\ real' = "dropped" => real = "dropped"
        /\ UNCHANGED <<rules, by, report>>
    BY <1>2 DEF EndRaw
  <2>2. RawFirst' /\ DropperNamed'
    BY <2>1 DEF Dropped, RawFirst, DropperNamed
  <2>3. raw'.verdict = Yes => walker.verdict = Yes /\ raw'.rule = walker.rule
    BY <1>0, <2>1 DEF Fate, WalkerType, Open, Tri, Yes, No, Maybe
  <2>4. walker'.verdict # Yes
    BY <2>1 DEF NewWalker, Open, Yes
  <2> QED BY <2>1, <2>2, <2>3, <2>4 DEF Dropped
<1>3. CASE EndFilter
  <2>1. /\ chain = "filter" /\ chain' = "told" /\ report' = Surer(raw, Fate(walker))
        /\ real' = "dropped" => real = "dropped"
        /\ UNCHANGED <<rules, by, raw, walker, i>>
    BY <1>3 DEF EndFilter
  <2>2. RawFirst'
    BY <2>1 DEF Dropped, RawFirst
  <2>3. report'.verdict = Yes =>
          \/ raw.verdict = Yes /\ report' = raw
          \/ walker.verdict = Yes /\ report'.rule = walker.rule
    <3>1. Fate(walker).verdict = Yes => walker.verdict = Yes /\ Fate(walker).rule = walker.rule
      BY <1>0 DEF Fate, WalkerType, Open, Tri, Yes, No, Maybe
    <3> QED BY <2>1, <3>1 DEF Surer
  <2>4. DropperNamed'
    BY <2>1, <2>3 DEF Dropped, DropperNamed
  <2> QED BY <2>1, <2>2, <2>4 DEF Dropped
<1>4. ASSUME NEW lists \in CandidateLists(rules), Follow(lists) PROVE Dropped'
  <2>1. /\ chain' = "raw" /\ real' = "walking" /\ walker' = NewWalker /\ UNCHANGED rules
    BY <1>4 DEF Follow
  <2>2. RawFirst'
    BY <2>1 DEF Dropped, RawFirst
  <2> QED BY <2>1, <2>2 DEF Dropped, DropperNamed, NewWalker, Open, Yes
<1>5. CASE UNCHANGED vars
  BY <1>5 DEF vars, Dropped, RawFirst, DropperNamed
<1> QED BY <1>1, <1>2, <1>3, <1>4, <1>5 DEF Next

\* Nothing gets past the rule a certain drop is put down to: the packet was
\* dropped there or before (traps.go, meet, through).
THEOREM DropsAreNamed == Spec => []DropperNamed
<1>1. Init => Dropped
  BY DroppedInit
<1>2. IInv /\ Ranges /\ Dropped /\ [Next]_vars => Dropped'
  BY DroppedStep
<1>3. Dropped => DropperNamed
  BY DEF Dropped
<1> QED BY InvHolds, RangesHold, <1>1, <1>2, <1>3, PTL DEF Spec
-----------------------------------------------------------------------------
(* The fix.  The walk that follows the packet, rule by rule, finds what     *)
(* walk's loop finds when doctor judges a pair of lists it may propose: so  *)
(* a pair that passes on paper passes when doctor runs again.               *)

\* One turn of walk's loop.
Turn(w, fw, n, k, lists, table) ==
  IF Met(fw[n], k, table) THEN Meet(w, n, fw[n].action, Matches(fw[n], k, lists)) ELSE w

\* g is the loop's first h turns.
Turns(g, fw, h, k, lists, table) ==
  /\ g = [n \in 0 .. h |-> g[n]]
  /\ g[0] = NewWalker
  /\ \A n \in 1 .. h : g[n] = Turn(g[n - 1], fw, n, k, lists, table)

LEMMA TurnsExist ==
  ASSUME NEW fw, NEW k, NEW lists, NEW table
  PROVE  \A h \in Nat : \E g : Turns(g, fw, h, k, lists, table)
<1> DEFINE T == {h \in Nat : \E g : Turns(g, fw, h, k, lists, table)}
<1>1. 0 \in T
  <2>1. Turns([n \in 0 .. 0 |-> NewWalker], fw, 0, k, lists, table)
    BY DEF Turns
  <2> QED BY <2>1
<1>2. ASSUME NEW h \in T PROVE h + 1 \in T
  <2>1. PICK g : Turns(g, fw, h, k, lists, table)
    OBVIOUS
  <2> DEFINE f == [n \in 0 .. (h + 1) |->
                     IF n <= h THEN g[n] ELSE Turn(g[h], fw, h + 1, k, lists, table)]
  <2>2. f = [n \in 0 .. (h + 1) |-> f[n]] /\ f[0] = NewWalker
    BY <2>1 DEF Turns
  <2>3. ASSUME NEW n \in 1 .. (h + 1) PROVE f[n] = Turn(f[n - 1], fw, n, k, lists, table)
    <3>1. CASE n <= h
      <4>1. n \in 1 .. h /\ n \in 0 .. (h + 1) /\ n - 1 \in 0 .. (h + 1) /\ n - 1 <= h
        BY <3>1
      <4>2. f[n] = g[n] /\ f[n - 1] = g[n - 1]
        BY <3>1, <4>1
      <4> QED BY <2>1, <4>1, <4>2 DEF Turns
    <3>2. CASE n = h + 1
      <4>1. h \in 0 .. (h + 1) /\ n \in 0 .. (h + 1) /\ ~ (n <= h) /\ n - 1 = h
        BY <3>2
      <4>2. f[n] = Turn(g[h], fw, h + 1, k, lists, table) /\ f[n - 1] = g[h]
        BY <4>1
      <4> QED BY <3>2, <4>2
    <3> QED BY <3>1, <3>2
  <2> HIDE DEF f
  <2>4. Turns(f, fw, h + 1, k, lists, table)
    BY <2>2, <2>3 DEF Turns
  <2> QED BY <2>4
<1>3. T = Nat
  <2>1. T \in SUBSET Nat
    OBVIOUS
  <2> HIDE DEF T
  <2> QED BY <1>1, <1>2, <2>1, EveryNat
<1> QED BY <1>3

\* Walkers is such a function.
LEMMA WalkersTurn ==
  ASSUME NEW fw \in Seq(Rules), NEW k, NEW lists, NEW table
  PROVE  Turns(Walkers(fw, k, lists, table), fw, Len(fw), k, lists, table)
<1> DEFINE F(g) == [n \in 0 .. Len(fw) |->
                      IF n = 0 THEN NewWalker
                      ELSE IF Met(fw[n], k, table)
                      THEN Meet(g[n - 1], n, fw[n].action, Matches(fw[n], k, lists))
                      ELSE g[n - 1]]
           w == CHOOSE g : g = F(g)
<1>1. PICK g : Turns(g, fw, Len(fw), k, lists, table)
  <2>1. Len(fw) \in Nat
    OBVIOUS
  <2> QED BY <2>1, TurnsExist, Zenon
<1>2. g = F(g)
  BY <1>1 DEF Turns, Turn
<1>3. w = F(w)
  BY <1>2
<1>4. Walkers(fw, k, lists, table) = w
  BY DEF Walkers
<1> HIDE DEF w
<1>5. Turns(w, fw, Len(fw), k, lists, table)
  BY <1>3 DEF Turns, Turn
<1> QED BY <1>4, <1>5

\* Where the walk is, and what became of the fix the operator followed.
Followed ==
  /\ chain \in {"raw", "filter"} =>
       walker = Walkers(rules, kind, joined, chain)[i - 1]
  /\ chain = "filter" => raw = Walk(rules, kind, joined, "raw")
  /\ chain = "told" => report = Through(rules, kind, joined)
  /\ followed => kind = "direct" /\ Through(rules, "direct", joined).verdict = No

\* A new walk has taken no turn.
LEMMA FirstWalker ==
  ASSUME NEW fw \in Seq(Rules), NEW k, NEW lists, NEW table
  PROVE  Walkers(fw, k, lists, table)[1 - 1] = NewWalker
BY WalkersTurn DEF Turns

LEMMA FollowedInit == Init => Followed
<1> SUFFICES ASSUME Init PROVE Followed  OBVIOUS
<1>1. rules \in Seq(Rules)
  BY InitInv DEF IInv, Typed
<1> QED BY <1>1, FirstWalker DEF Init, Followed

LEMMA FollowedStep == IInv /\ Ranges /\ Followed /\ [Next]_vars => Followed'
<1> SUFFICES ASSUME IInv, Ranges, Followed, [Next]_vars PROVE Followed'  OBVIOUS
<1>0. rules \in Seq(Rules) /\ i \in 1 .. (Len(rules) + 1) /\ Len(rules) \in Nat
  BY DEF IInv, Typed, Ranges
<1>1. CASE MeetRule
  <2>1. /\ i \in 1 .. Len(rules) /\ chain \in {"raw", "filter"} /\ i' = i + 1
        /\ UNCHANGED <<rules, kind, joined, chain, raw, report, followed>>
        /\ walker' = Turn(walker, rules, i, kind, joined, chain)
    BY <1>0, <1>1 DEF MeetRule, Turn
  <2>2. walker' = Walkers(rules, kind, joined, chain)[i]
    BY <1>0, <2>1, WalkersTurn DEF Followed, Turns
  <2>3. i' - 1 = i
    BY <2>1
  <2> QED BY <2>1, <2>2, <2>3 DEF Followed
<1>2. CASE EndRaw
  <2>1. /\ chain = "raw" /\ chain' = "filter" /\ raw' = Fate(walker) /\ i' = 1
        /\ i - 1 = Len(rules) /\ walker' = NewWalker
        /\ UNCHANGED <<rules, kind, joined, followed>>
    BY <1>0, <1>2 DEF EndRaw
  <2>2. raw' = Walk(rules, kind, joined, "raw")
    BY <2>1 DEF Followed, Walk
  <2>3. walker' = Walkers(rules, kind, joined, "filter")[i' - 1]
    BY <1>0, <2>1, FirstWalker
  <2> QED BY <2>1, <2>2, <2>3 DEF Followed
<1>3. CASE EndFilter
  <2>1. /\ chain = "filter" /\ chain' = "told" /\ report' = Surer(raw, Fate(walker))
        /\ i - 1 = Len(rules)
        /\ UNCHANGED <<rules, kind, joined, followed>>
    BY <1>0, <1>3 DEF EndFilter
  <2>2. report' = Through(rules, kind, joined)
    BY <2>1 DEF Followed, Walk, Through
  <2> QED BY <2>1, <2>2 DEF Followed
<1>4. ASSUME NEW lists \in CandidateLists(rules), Follow(lists) PROVE Followed'
  <2>1. /\ chain' = "raw" /\ i' = 1 /\ walker' = NewWalker /\ joined' = lists
        /\ UNCHANGED <<rules, kind>>
    BY <1>4 DEF Follow
  <2>2. kind = "direct"
    BY <1>4 DEF Follow, Item
  <2>3. Through(rules, "direct", lists).verdict = No
    BY <1>4 DEF Follow, MembershipThatPasses
  <2>4. walker' = Walkers(rules, kind, lists, "raw")[i' - 1]
    BY <1>0, <2>1, FirstWalker
  <2> QED BY <2>1, <2>2, <2>3, <2>4 DEF Followed
<1>5. CASE UNCHANGED vars
  BY <1>5 DEF vars, Followed
<1> QED BY <1>1, <1>2, <1>3, <1>4, <1>5 DEF Next

\* The lists doctor proposes let the replies through, and doctor says so when
\* it runs again: its second walk finds what its search for lists found
\* (traps.go, membershipThatPasses, path).
THEOREM FixesPass == Spec => []FixPasses
<1>1. Init => Followed
  BY FollowedInit
<1>2. IInv /\ Ranges /\ Followed /\ [Next]_vars => Followed'
  BY FollowedStep
<1>3. IInv /\ Followed => FixPasses
  BY DEF IInv, Followed, FixPasses, VerdictSound
<1> QED BY InvHolds, RangesHold, <1>1, <1>2, <1>3, PTL DEF Spec
-----------------------------------------------------------------------------
(* Install, upgrade, uninstall: what a router and a run are.                *)

Object == {ob \in [step : Names, id : Seq(STRING), tag : {"ours", "theirs"}] :
             IsStep(Step(ob.step, ob.id))}
ManifestRecord == [kind : {"none", "ours", "theirs"}, shape : ShapeRecord]
RouterRecord ==
  [objs : SUBSET Object, entries : {"none", "ours", "theirs"}, marker : BOOLEAN,
   box : {"none", "added", "running", "removing"}, pulled : BOOLEAN,
   files : SUBSET {"dir", "root", "tar"}, manifest : ManifestRecord]
Verbs == {"none", "install", "upgrade", "uninstall", "script"}
Results == {"none", "installed", "refused", "error", "dirty", "clean", "partial", "killed"}
AnyStep == [step : Names \cup {"manifest", "none"}, id : Seq(STRING)]
Entry == [do : {"list", "read", "create", "upload", "remove", "undo", "sweep",
                "verify", "drop"}, step : AnyStep]
RunRecord ==
  [verb : Verbs, opts : ShapeRecord, strict : BOOLEAN, todo : Seq(Entry),
   found : SUBSET OurItems, wrote : BOOLEAN, failed : BOOLEAN, result : Results]

DeployTyped ==
  /\ rt \in RouterRecord /\ run \in RunRecord /\ store \subseteq Items
  /\ runs \in 0 .. MaxRuns /\ failures \in 0 .. MaxFailures
  /\ operator \in 0 .. MaxOperator
  /\ lost \in BOOLEAN /\ turned \in BOOLEAN /\ legacy \in BOOLEAN

\* What is left of a run that installs: the manifest and the read only in
\* front, an upload with its container behind it.
Puts(e, step) == e.do = "create" /\ e.step.step = step
Installing(e) ==
  \/ e.do \in {"read", "upload", "undo"}
  \/ e.do = "create" /\ (e.step.step = "manifest" \/ IsStep(e.step))
  \/ e.do = "remove" /\ e.step.step = "container"
Installs(todo) ==
  \A n \in 1 .. Len(todo) :
    /\ Installing(todo[n])
    /\ n > 1 => todo[n].do # "read" /\ ~Puts(todo[n], "manifest")
    /\ todo[n].do = "upload" => n < Len(todo) /\ Puts(todo[n + 1], "container")

\* How far an entry of an uninstall is along it, and what is left of one.
Stage(e) ==
  CASE e.do = "list"   -> 0
    [] e.do = "read"   -> 1
    [] e.do = "remove" -> IF e.step.step = "container" THEN 2
                          ELSE IF e.step.step = "manifest" THEN 5 ELSE 3
    [] e.do = "sweep"  -> 4
    [] e.do = "verify" -> 6
    [] e.do = "drop"   -> 7
    [] OTHER           -> 8
Removing(e) ==
  \/ e.do \in {"list", "read", "sweep", "verify", "drop"}
  \/ e.do = "remove" /\ (e.step.step = "manifest" \/ IsStep(e.step))
Removes(todo) ==
  \A n \in 1 .. Len(todo) :
    /\ Removing(todo[n])
    /\ n > 1 => \/ Stage(todo[n]) = Stage(todo[n - 1]) + 1
                \/ Stage(todo[n]) = 3 /\ Stage(todo[n - 1]) = 3

TodoFits == IF run.verb = "uninstall" THEN Removes(run.todo) ELSE Installs(run.todo)

\* Past the manifest, a run that installs works under it.
Recorded ==
  run.verb # "uninstall" /\ ~Idle /\ ~Doing("read") /\ ~Puts(Head(run.todo), "manifest")
    => rt.manifest.kind = "ours"

\* What is not ours is not written over: no manifest is written where there
\* is one of the operator's, and beside his envlist a run is only reading.
Unopposed ==
  /\ ~Idle /\ Puts(Head(run.todo), "manifest") => rt.manifest.kind # "theirs"
  /\ rt.entries = "theirs" =>
       /\ ~rt.marker /\ rt.box = "none"
       /\ run.verb # "uninstall" => Idle \/ Doing("read")

\* A tar on the router is signed for, about to be, or about to be undone,
\* unless the history says how it was left behind.
TarAccounted ==
  "tar" \in rt.files =>
    \/ lost \/ turned \/ rt.marker
    \/ ~Idle /\ (Puts(Head(run.todo), "container") \/ Doing("undo"))

\* A run that has only read has written nothing.
Unwritten ==
  /\ Doing("list") \/ Doing("read") => ~run.wrote
  /\ run.result = "refused" => ~run.wrote
  /\ ~Idle => run.result = "none"

\* How far an uninstall nothing failed in has come is what is gone.
Removed ==
  run.verb = "uninstall" /\ ~run.failed /\ ~Idle =>
    LET stage == Stage(Head(run.todo))
    IN  /\ stage > 2 => rt.box = "none" /\ ~rt.marker
        /\ stage > 4 => TaggedObjects(rt) = {}
        /\ stage > 5 => rt.manifest.kind # "ours" /\ ~("dir" \in rt.files /\ DirEmpty(rt))

\* What an uninstall that found nothing left, and one that found something,
\* leave true of the router.
Verified ==
  run.verb = "uninstall" =>
    /\ Doing("drop") \/ (Idle /\ run.result = "clean") =>
         /\ ~Tagged(rt) /\ rt.entries # "ours" /\ rt.manifest.kind # "ours"
         /\ "root" \notin rt.files
    /\ run.result = "clean" => store \cap run.found = {}
    /\ run.result = "dirty" =>
         \/ run.failed
         \/ rt.manifest.kind # "ours" /\ "root" \in rt.files /\ rt.box = "none"

DeployInv ==
  /\ DeployTyped /\ TodoFits /\ RecordsOutlive /\ Recorded /\ Unopposed
  /\ TarAccounted /\ Unwritten /\ Removed /\ Verified
-----------------------------------------------------------------------------
(* The console commands, wherever they stop.                                *)

\* What the operator made, and what a line never does to the router: take a
\* record away before what it records, or change what is not tagged.
Foreigns(r) == {ob \in r.objs : ob.tag = "theirs"}
LineKeeps(r, q) ==
  /\ q \in RouterRecord
  /\ Foreigns(q) = Foreigns(r)
  /\ r.entries = "theirs" <=> q.entries = "theirs"
  /\ r.manifest.kind = "theirs" => q.manifest = r.manifest
  /\ (r.entries = "ours" => r.marker) => (q.entries = "ours" => q.marker)
  /\ "tar" \in q.files => "tar" \in r.files

\* Where a line can stop.
Reached(line) == Range(line.steps) \cup line.slow \cup {Last(line.steps)}

\* The places of a concatenation, and its last.
LEMMA RangeConcat ==
  ASSUME NEW S, NEW a \in Seq(S), NEW b \in Seq(S)
  PROVE  /\ Range(a \o b) = Range(a) \cup Range(b)
         /\ b # <<>> => Last(a \o b) = Last(b)
<1> DEFINE c == a \o b
<1>1. /\ c \in Seq(S) /\ Len(c) = Len(a) + Len(b)
      /\ \A n \in 1 .. Len(a) : c[n] = a[n]
      /\ \A n \in (Len(a) + 1) .. (Len(a) + Len(b)) : c[n] = b[n - Len(a)]
  BY ConcatShape
<1>2. Len(a) \in Nat /\ Len(b) \in Nat
      /\ DOMAIN a = 1 .. Len(a) /\ DOMAIN b = 1 .. Len(b) /\ DOMAIN c = 1 .. Len(c)
  BY <1>1
<1> HIDE DEF c
<1>3. ASSUME NEW n \in DOMAIN c PROVE c[n] \in Range(a) \cup Range(b)
  <2>1. CASE n <= Len(a)
    BY <1>1, <1>2, <2>1 DEF Range
  <2>2. CASE n > Len(a)
    <3>1. n - Len(a) \in DOMAIN b /\ c[n] = b[n - Len(a)]
      BY <1>1, <1>2, <2>2
    <3> QED BY <3>1 DEF Range
  <2> QED BY <1>2, <2>1, <2>2
<1>4. ASSUME NEW n \in DOMAIN a PROVE a[n] \in Range(c)
  <2>1. n \in DOMAIN c /\ c[n] = a[n]
    BY <1>1, <1>2
  <2> QED BY <2>1 DEF Range
<1>5. ASSUME NEW n \in DOMAIN b PROVE b[n] \in Range(c)
  <2>0. n + Len(a) \in (Len(a) + 1) .. (Len(a) + Len(b)) /\ n + Len(a) \in DOMAIN c
    BY <1>1, <1>2
  <2>1. c[n + Len(a)] = b[(n + Len(a)) - Len(a)]
    BY <1>1, <2>0
  <2>2. (n + Len(a)) - Len(a) = n
    BY <1>2
  <2> QED BY <2>0, <2>1, <2>2 DEF Range
<1>6. Range(c) = Range(a) \cup Range(b)
  BY <1>3, <1>4, <1>5 DEF Range
<1>7. ASSUME b # <<>> PROVE Last(c) = Last(b)
  <2>1. Len(b) > 0
    BY <1>7
  <2>2. c[Len(a) + Len(b)] = b[(Len(a) + Len(b)) - Len(a)]
    BY <1>1, <1>2, <2>1
  <2>3. (Len(a) + Len(b)) - Len(a) = Len(b)
    BY <1>2
  <2> QED BY <1>1, <2>2, <2>3 DEF Last
<1> QED
  BY <1>6, <1>7 DEF c

\* The manifest.
LEMMA CreateManifestLine ==
  ASSUME NEW r \in RouterRecord, NEW o \in ShapeRecord, r.manifest.kind # "theirs",
         NEW q \in Reached(CreateManifest(r, o))
  PROVE  /\ LineKeeps(r, q)
         /\ q.objs = r.objs /\ q.marker = r.marker /\ q.box = r.box
         /\ q.entries = r.entries /\ r.files \subseteq q.files
         /\ r.manifest.kind = "ours" => q.manifest.kind = "ours"
         /\ q = Last(CreateManifest(r, o).steps) => q.manifest.kind = "ours"
<1> DEFINE made == [r EXCEPT !.manifest = [kind |-> "ours", shape |-> o],
                             !.files = @ \cup {"dir"}]
<1>1. CreateManifest(r, o).steps = <<r, made>> /\ CreateManifest(r, o).slow = {}
  BY DEF CreateManifest, Line
<1>2. /\ made \in RouterRecord /\ made.manifest.kind = "ours"
      /\ made.objs = r.objs /\ made.marker = r.marker /\ made.box = r.box
      /\ made.entries = r.entries /\ made.files = r.files \cup {"dir"}
  BY DEF RouterRecord, ManifestRecord
<1> HIDE DEF made
<1>3. Range(<<r, made>>) = {r, made} /\ Last(<<r, made>>) = made
  BY DEF Range, Last
<1>4. q = r \/ q = made
  BY <1>1, <1>3 DEF Reached
<1>5. Last(CreateManifest(r, o).steps) = made
  BY <1>1, <1>3
<1> QED
  BY <1>2, <1>4, <1>5 DEF LineKeeps, Foreigns

\* One object that carries the tag: made, or taken away.
LEMMA CreateObjectLine ==
  ASSUME NEW r \in RouterRecord, NEW s, IsStep(s), NEW q \in Reached(CreateObject(r, s))
  PROVE  /\ LineKeeps(r, q)
         /\ q.manifest = r.manifest /\ q.marker = r.marker /\ q.box = r.box
         /\ q.entries = r.entries /\ q.files = r.files
<1> DEFINE made == [r EXCEPT !.objs = @ \cup {Ours(s)}]
<1>1. CreateObject(r, s).steps = <<r, made>> /\ CreateObject(r, s).slow = {}
  BY DEF CreateObject, Line
<1>2. Ours(s) \in Object /\ Ours(s).tag = "ours"
  BY DEF Ours, Object, IsStep, Step
<1>3. /\ made \in RouterRecord /\ made.objs = r.objs \cup {Ours(s)}
      /\ made.manifest = r.manifest /\ made.marker = r.marker /\ made.box = r.box
      /\ made.entries = r.entries /\ made.files = r.files
  <2> DEFINE ob == Ours(s)
  <2> HIDE DEF ob
  <2>1. ob \in Object
    BY <1>2 DEF ob
  <2>2. [r EXCEPT !.objs = @ \cup {ob}] \in RouterRecord
    BY <2>1 DEF RouterRecord
  <2> QED BY <2>2 DEF RouterRecord, ob
<1> HIDE DEF made
<1>4. Foreigns(made) = Foreigns(r)
  BY <1>2, <1>3 DEF Foreigns
<1>5. Range(<<r, made>>) = {r, made} /\ Last(<<r, made>>) = made
  BY DEF Range, Last
<1>6. q = r \/ q = made
  BY <1>1, <1>5 DEF Reached
<1> QED
  BY <1>3, <1>4, <1>6 DEF LineKeeps

\* The removal of one object takes our object away and touches no other.
LEMMA RemoveObjectLine ==
  ASSUME NEW r \in RouterRecord, NEW s, NEW q \in Reached(RemoveObject(r, s))
  PROVE  /\ LineKeeps(r, q)
         /\ q.manifest = r.manifest /\ q.marker = r.marker /\ q.box = r.box
         /\ q.entries = r.entries /\ q.files = r.files
         /\ TaggedObjects(q) \subseteq TaggedObjects(r)
<1> DEFINE made == [r EXCEPT !.objs = @ \ {Ours(s)}]
<1>1. RemoveObject(r, s).steps = <<r, made>> /\ RemoveObject(r, s).slow = {}
  BY DEF RemoveObject, Line
<1>2. Ours(s).tag = "ours"
  BY DEF Ours
<1>3. /\ made \in RouterRecord /\ made.objs = r.objs \ {Ours(s)}
      /\ made.manifest = r.manifest /\ made.marker = r.marker /\ made.box = r.box
      /\ made.entries = r.entries /\ made.files = r.files
  BY DEF RouterRecord
<1> HIDE DEF made
<1>4. Foreigns(made) = Foreigns(r) /\ TaggedObjects(made) \subseteq TaggedObjects(r)
  BY <1>2, <1>3 DEF Foreigns, TaggedObjects
<1>5. Range(<<r, made>>) = {r, made} /\ Last(<<r, made>>) = made
  BY DEF Range, Last
<1>6. q = r \/ q = made
  BY <1>1, <1>5 DEF Reached
<1> QED
  BY <1>3, <1>4, <1>6 DEF LineKeeps

\* The container: signed before it is filled, and signed for at the end.
LEMMA CreateContainerLine ==
  ASSUME NEW r \in RouterRecord, NEW o \in ShapeRecord,
         r.entries # "theirs",
         NEW q \in Reached(CreateContainer(r, o))
  PROVE  /\ LineKeeps(r, q)
         /\ q.manifest = r.manifest /\ q.objs = r.objs
         /\ q.entries # "theirs"
         /\ q = Last(CreateContainer(r, o).steps) => q.marker
<1> DEFINE cleared == IF r.marker THEN [r EXCEPT !.marker = FALSE, !.entries = "none"]
                      ELSE r
           signed  == [cleared EXCEPT !.marker = TRUE]
           filled  == [signed EXCEPT !.entries = "ours"]
           added   == [filled EXCEPT !.box = "added", !.pulled = o.remote,
                                     !.files = @ \cup {"root", "dir"}]
           tidied  == IF o.remote THEN added ELSE [added EXCEPT !.files = @ \ {"tar"}]
           started == [tidied EXCEPT !.box = "running"]
           Fine(x) == /\ x \in RouterRecord /\ x.objs = r.objs /\ x.manifest = r.manifest
                      /\ x.entries # "theirs"
                      /\ (r.entries = "ours" => r.marker) => (x.entries = "ours" => x.marker)
                      /\ "tar" \in x.files => "tar" \in r.files
<1>1. Fine(cleared)
  BY DEF RouterRecord
<1>2. Fine(signed) /\ signed.marker
  <2> HIDE DEF cleared
  <2> QED BY <1>1 DEF RouterRecord
<1>3. Fine(filled) /\ filled.marker
  <2> HIDE DEF signed
  <2> QED BY <1>2 DEF RouterRecord
<1>4. Fine(added) /\ added.marker
  <2> HIDE DEF filled
  <2>1. o.remote \in BOOLEAN
    BY DEF ShapeRecord
  <2> QED BY <1>3, <2>1 DEF RouterRecord
<1>5. Fine(tidied) /\ tidied.marker
  <2> HIDE DEF added
  <2> QED BY <1>4 DEF RouterRecord
<1>6. Fine(started) /\ started.marker
  <2> HIDE DEF tidied
  <2> QED BY <1>5 DEF RouterRecord
<1>7. Fine(r)
  OBVIOUS
<1>8. \/ /\ CreateContainer(r, o).steps = <<r, cleared, signed, filled, added, tidied, started>>
         /\ CreateContainer(r, o).slow = {}
      \/ /\ CreateContainer(r, o).steps = <<r, cleared, signed, filled>>
         /\ CreateContainer(r, o).slow = {}
  BY DEF CreateContainer, Line
<1> HIDE DEF cleared, signed, filled, added, tidied, started
<1>9. /\ Range(<<r, cleared, signed, filled>>) = {r, cleared, signed, filled}
      /\ Last(<<r, cleared, signed, filled>>) = filled
  BY DEF Range, Last
<1>10. /\ Range(<<r, cleared, signed, filled, added, tidied, started>>) =
             {r, cleared, signed, filled, added, tidied, started}
       /\ Last(<<r, cleared, signed, filled, added, tidied, started>>) = started
  BY DEF Range, Last
<1>11. q \in {r, cleared, signed, filled, added, tidied, started}
  BY <1>8, <1>9, <1>10 DEF Reached
<1>12. Fine(q)
  BY <1>1, <1>2, <1>3, <1>4, <1>5, <1>6, <1>7, <1>11
<1>13. Last(CreateContainer(r, o).steps) \in {filled, started}
  BY <1>8, <1>9, <1>10
<1> QED
  BY <1>3, <1>6, <1>12, <1>13 DEF LineKeeps, Foreigns

\* The places of a line of four states, and its end.
LEMMA FourPlaces ==
  ASSUME NEW a, NEW b, NEW c, NEW d
  PROVE  /\ Range(<<a, b, c, d>>) = {a, b, c, d} /\ Last(<<a, b, c, d>>) = d
         /\ <<a, b, c, d>> \in Seq({a, b, c, d}) /\ <<a, b, c, d>> # <<>>
BY DEF Range, Last

\* The container's removal: its marker goes last, after the tar it signs for.
LEMMA RemoveContainerLine ==
  ASSUME NEW r \in RouterRecord, NEW o \in ShapeRecord,
         NEW q \in Reached(RemoveContainer(r, o))
  PROVE  /\ (r.entries = "theirs" => ~r.marker) => LineKeeps(r, q)
         /\ q.manifest = r.manifest /\ q.objs = r.objs
         /\ q.marker => r.marker
         /\ r.box = "none" => q.box = "none"
         /\ r.marker /\ ~q.marker /\ "tar" \in q.files => o.remote
         /\ q = Last(RemoveContainer(r, o).steps) => q.box = "none" /\ ~q.marker
<1> DEFINE stopped == [r EXCEPT !.box = IF @ = "running" THEN "added" ELSE @]
           going   == [r EXCEPT !.box = IF @ = "none" THEN @ ELSE "removing"]
           gone    == [r EXCEPT !.box = "none"]
           rooted  == IF r.box = "none" THEN gone ELSE [gone EXCEPT !.files = @ \ {"root"}]
           untarred(p) == IF o.remote THEN p ELSE [p EXCEPT !.files = @ \ {"tar"}]
           emptied(p)  == [untarred(p) EXCEPT !.entries = "none"]
           bared(p)    == [emptied(p) EXCEPT !.marker = FALSE]
           rest(p) == IF ~r.marker THEN <<p>>
                      ELSE <<p, untarred(p), emptied(p), bared(p)>>
           Fine(x) == /\ x \in RouterRecord /\ x.objs = r.objs /\ x.manifest = r.manifest
                      /\ (r.entries = "theirs" => ~r.marker) =>
                           (r.entries = "theirs" <=> x.entries = "theirs")
                      /\ (r.entries = "ours" => r.marker) => (x.entries = "ours" => x.marker)
                      /\ "tar" \in x.files => "tar" \in r.files
                      /\ x.marker => r.marker
                      /\ r.box = "none" => x.box = "none"
                      /\ r.marker /\ ~x.marker /\ "tar" \in x.files => o.remote
           Same(x) == x.marker = r.marker /\ x.entries = r.entries
<1>0. o.remote \in BOOLEAN /\ r.marker \in BOOLEAN
  BY DEF ShapeRecord, RouterRecord
<1>1. Fine(r) /\ Fine(stopped) /\ Fine(gone) /\ Same(gone) /\ gone.box = "none"
  BY DEF RouterRecord
<1>2. Fine(going) /\ Same(going)
  BY DEF RouterRecord
<1>3. Fine(rooted) /\ Same(rooted) /\ rooted.box = "none"
  <2> HIDE DEF gone
  <2> QED BY <1>1 DEF RouterRecord
<1>4. ASSUME NEW p, Fine(p), Same(p), r.marker
      PROVE  /\ Fine(untarred(p)) /\ Fine(emptied(p)) /\ Fine(bared(p))
             /\ ~bared(p).marker /\ bared(p).box = p.box
  <2>1. /\ Fine(untarred(p)) /\ Same(untarred(p)) /\ untarred(p).box = p.box
        /\ "tar" \in untarred(p).files => o.remote
    BY <1>0, <1>4 DEF RouterRecord
  <2> DEFINE u == untarred(p)
  <2> HIDE DEF u
  <2>2. u \in RouterRecord /\ Fine(u) /\ Same(u) /\ u.box = p.box /\ ("tar" \in u.files => o.remote)
    BY <2>1 DEF u
  <2> DEFINE e == [u EXCEPT !.entries = "none"]
  <2>3. Fine(e) /\ e.box = p.box /\ ("tar" \in e.files => o.remote) /\ e.entries = "none"
    BY <1>4, <2>2 DEF RouterRecord
  <2> HIDE DEF e
  <2> DEFINE b == [e EXCEPT !.marker = FALSE]
  <2>4. Fine(b) /\ ~b.marker /\ b.box = p.box
    BY <1>4, <2>3 DEF RouterRecord
  <2>5. e = emptied(p) /\ b = bared(p)
    BY DEF e, u
  <2> QED BY <2>1, <2>3, <2>4, <2>5
<1>5. /\ RemoveContainer(r, o).steps = <<r, stopped, going, gone>> \o rest(rooted)
      /\ RemoveContainer(r, o).slow \subseteq {Last(rest(going)), rooted}
  BY DEF RemoveContainer
<1> HIDE DEF stopped, going, gone, rooted, untarred, emptied, bared
<1>6. ASSUME NEW p, Fine(p), Same(p)
      PROVE  /\ rest(p) \in Seq({p, untarred(p), emptied(p), bared(p)}) /\ rest(p) # <<>>
             /\ \A x \in Range(rest(p)) : Fine(x)
             /\ Last(rest(p)) \in Range(rest(p))
             /\ ~Last(rest(p)).marker /\ Last(rest(p)).box = p.box
  <2> HIDE DEF Fine
  <2>1. CASE ~r.marker
    <3>1. rest(p) = <<p>>
      BY <2>1
    <3> HIDE DEF rest
    <3>2. Range(<<p>>) = {p} /\ Last(<<p>>) = p
      BY DEF Range, Last
    <3> QED BY <1>6, <2>1, <3>1, <3>2
  <2>2. CASE r.marker
    <3>1. rest(p) = <<p, untarred(p), emptied(p), bared(p)>>
      BY <2>2
    <3> HIDE DEF rest
    <3>2. /\ Range(rest(p)) = {p, untarred(p), emptied(p), bared(p)}
          /\ Last(rest(p)) = bared(p) /\ rest(p) # <<>>
          /\ rest(p) \in Seq({p, untarred(p), emptied(p), bared(p)})
      BY <3>1, FourPlaces
    <3> QED BY <1>4, <1>6, <2>2, <3>2
  <2> QED BY <1>0, <2>1, <2>2
<1>7. /\ Range(RemoveContainer(r, o).steps) = {r, stopped, going, gone} \cup Range(rest(rooted))
      /\ Last(RemoveContainer(r, o).steps) = Last(rest(rooted))
  <2> DEFINE a == <<r, stopped, going, gone>>
             b == rest(rooted)
             S == {r, stopped, going, gone, rooted, untarred(rooted), emptied(rooted), bared(rooted)}
  <2>1. b # <<>> /\ b \in Seq({rooted, untarred(rooted), emptied(rooted), bared(rooted)})
    BY <1>3, <1>6
  <2>2. a \in Seq(S) /\ Range(a) = {r, stopped, going, gone}
    BY DEF Range
  <2> HIDE DEF rest, a, b
  <2>3. b \in Seq(S)
    BY <2>1
  <2> HIDE DEF S
  <2>4. Range(a \o b) = Range(a) \cup Range(b) /\ Last(a \o b) = Last(b)
    BY <2>1, <2>2, <2>3, RangeConcat
  <2> QED BY <1>5, <2>2, <2>4 DEF a, b
<1> HIDE DEF rest
<1>8. Fine(q)
  <2> HIDE DEF Fine
  <2>1. /\ \A x \in Range(rest(rooted)) : Fine(x)
        /\ Fine(Last(rest(rooted))) /\ Fine(Last(rest(going)))
    BY <1>2, <1>3, <1>6
  <2> QED BY <1>1, <1>2, <1>3, <1>5, <1>7, <2>1 DEF Reached
<1>9. ~Last(RemoveContainer(r, o).steps).marker /\ Last(RemoveContainer(r, o).steps).box = "none"
  BY <1>3, <1>6, <1>7
<1> QED
  BY <1>8, <1>9 DEF LineKeeps, Foreigns

\* The manifest's removal: nothing happens while something tagged remains.
LEMMA RemoveManifestLine ==
  ASSUME NEW r \in RouterRecord, NEW q \in Reached(RemoveManifest(r)),
         NoManifest \in ManifestRecord, NoManifest.kind = "none"
  PROVE  /\ LineKeeps(r, q)
         /\ q.objs = r.objs /\ q.entries = r.entries /\ q.marker = r.marker /\ q.box = r.box
         /\ Tagged(r) => q = r /\ ~RemoveManifest(r).ok
         /\ ~Tagged(r) /\ q = Last(RemoveManifest(r).steps) =>
              q.manifest.kind # "ours" /\ ~("dir" \in q.files /\ DirEmpty(q))
<1> DEFINE mine     == r.manifest.kind = "ours"
           unrooted == IF mine THEN [r EXCEPT !.files = @ \ {"root"}] ELSE r
           unlisted == IF mine THEN [unrooted EXCEPT !.manifest = NoManifest] ELSE r
           emptied  == IF DirEmpty(unlisted)
                       THEN [unlisted EXCEPT !.files = @ \ {"dir"}] ELSE unlisted
           Fine(x) == /\ x \in RouterRecord /\ x.objs = r.objs /\ x.entries = r.entries
                      /\ x.marker = r.marker /\ x.box = r.box
                      /\ r.manifest.kind = "theirs" => x.manifest = r.manifest
                      /\ "tar" \in x.files => "tar" \in r.files
<1>1. Fine(r) /\ Fine(unrooted)
  BY DEF RouterRecord
<1>2. Fine(unlisted) /\ unlisted.manifest.kind # "ours"
  <2>1. CASE mine
    <3>1. unlisted = [unrooted EXCEPT !.manifest = NoManifest]
      BY <2>1
    <3> HIDE DEF unrooted, unlisted
    <3> QED BY <1>1, <2>1, <3>1 DEF RouterRecord
  <2>2. CASE ~mine
    BY <2>2
  <2> QED BY <2>1, <2>2
<1>3. Fine(emptied) /\ emptied.manifest.kind # "ours" /\ ~("dir" \in emptied.files /\ DirEmpty(emptied))
  <2> HIDE DEF unlisted
  <2>1. CASE DirEmpty(unlisted)
    BY <1>2, <2>1 DEF RouterRecord
  <2>2. CASE ~DirEmpty(unlisted)
    BY <1>2, <2>2
  <2> QED BY <2>1, <2>2
<1>4. CASE Tagged(r)
  <2>1. RemoveManifest(r) = Line(<<r>>, FALSE)
    BY <1>4 DEF RemoveManifest
  <2>2. Range(<<r>>) = {r} /\ Last(<<r>>) = r
    BY DEF Range, Last
  <2>3. q = r /\ ~RemoveManifest(r).ok
    BY <2>1, <2>2 DEF Reached, Line
  <2> QED BY <1>4, <2>3 DEF LineKeeps
<1>5. CASE ~Tagged(r)
  <2>1. RemoveManifest(r) = Line(<<r, unrooted, unlisted, emptied>>, TRUE)
    BY <1>5 DEF RemoveManifest
  <2> HIDE DEF unrooted, unlisted, emptied
  <2>2. /\ Range(<<r, unrooted, unlisted, emptied>>) = {r, unrooted, unlisted, emptied}
        /\ Last(<<r, unrooted, unlisted, emptied>>) = emptied
    BY DEF Range, Last
  <2>3. q \in {r, unrooted, unlisted, emptied} /\ Last(RemoveManifest(r).steps) = emptied
    BY <2>1, <2>2 DEF Reached, Line
  <2>4. Fine(q)
    BY <1>1, <1>2, <1>3, <2>3
  <2> QED BY <1>3, <1>5, <2>3, <2>4 DEF LineKeeps, Foreigns
<1> QED
  BY <1>4, <1>5

\* The undo of an upload.
LEMMA UndoUploadLine ==
  ASSUME NEW r \in RouterRecord, NEW q \in Reached(UndoUpload(r))
  PROVE  /\ LineKeeps(r, q)
         /\ q.objs = r.objs /\ q.entries = r.entries /\ q.marker = r.marker
         /\ q.box = r.box /\ q.manifest = r.manifest
         /\ q = Last(UndoUpload(r).steps) /\ r.box = "none" => "tar" \notin q.files
<1> DEFINE made == IF r.box = "none" THEN [r EXCEPT !.files = @ \ {"tar"}] ELSE r
<1>1. UndoUpload(r).steps = <<r, made>> /\ UndoUpload(r).slow = {}
  BY DEF UndoUpload, Line
<1>2. /\ made \in RouterRecord /\ made.objs = r.objs /\ made.entries = r.entries
      /\ made.marker = r.marker /\ made.box = r.box /\ made.manifest = r.manifest
      /\ "tar" \in made.files => "tar" \in r.files
      /\ r.box = "none" => "tar" \notin made.files
  BY DEF RouterRecord
<1> HIDE DEF made
<1>3. Range(<<r, made>>) = {r, made} /\ Last(<<r, made>>) = made
  BY DEF Range, Last
<1>4. (q = r \/ q = made) /\ Last(UndoUpload(r).steps) = made
  BY <1>1, <1>3 DEF Reached
<1> QED
  BY <1>2, <1>4 DEF LineKeeps, Foreigns

-----------------------------------------------------------------------------
(* The scripts the runs carry out.                                          *)

\* The steps that make a tagged object.
ObjectStep == {s \in [step : Names, id : Seq(STRING)] : IsStep(s) /\ s.step # "container"}
PlanStep == ObjectStep \cup {ManifestStep} \cup {Step("container", <<v>>) : v \in STRING}

\* Sequences of one entry and of two.
LEMMA OneTwo ==
  ASSUME NEW S, NEW v \in S, NEW w \in S
  PROVE  /\ <<v>> \in Seq(S) /\ Len(<<v>>) = 1 /\ <<v>>[1] = v
         /\ <<v, w>> \in Seq(S) /\ Len(<<v, w>>) = 2 /\ <<v, w>>[1] = v /\ <<v, w>>[2] = w
         /\ <<>> \o <<v>> = <<v>> /\ <<w>> \o <<v>> = <<w, v>>
<1>1. /\ <<v>> \in Seq(S) /\ Len(<<v>>) = 1 /\ <<v>>[1] = v
      /\ <<w>> \in Seq(S) /\ Len(<<w>>) = 1 /\ <<w>>[1] = w
  OBVIOUS
<1>2. /\ <<v, w>> \in Seq(S) /\ Len(<<v, w>>) = 2 /\ <<v, w>>[1] = v /\ <<v, w>>[2] = w
  OBVIOUS
<1>3. <<>> \o <<v>> = <<v>>
  BY <1>1, ConcatEmptySeq
<1>4. <<w>> \o <<v>> = <<w, v>>
  <2> DEFINE a == <<w>>
             b == <<v>>
             c == <<w, v>>
  <2>1. a \in Seq(S) /\ b \in Seq(S) /\ Len(a) = 1 /\ Len(b) = 1 /\ a[1] = w /\ b[1] = v
    BY <1>1
  <2>2. c \in Seq(S) /\ Len(c) = 2 /\ c[1] = w /\ c[2] = v
    OBVIOUS
  <2> HIDE DEF a, b, c
  <2>3. /\ a \o b \in Seq(S) /\ Len(a \o b) = Len(a) + Len(b)
        /\ \A n \in 1 .. Len(a) : (a \o b)[n] = a[n]
        /\ \A n \in (Len(a) + 1) .. (Len(a) + Len(b)) : (a \o b)[n] = b[n - Len(a)]
    BY <2>1, ConcatShape
  <2>4. Len(a \o b) = 2 /\ (a \o b)[1] = w /\ (a \o b)[2] = v
    <3>1. 1 \in 1 .. Len(a) /\ 2 \in (Len(a) + 1) .. (Len(a) + Len(b)) /\ 2 - Len(a) = 1
      BY <2>1
    <3>2. (a \o b)[1] = a[1] /\ (a \o b)[2] = b[2 - Len(a)]
      BY <2>3, <3>1
    <3> QED BY <2>1, <2>3, <3>1, <3>2
  <2>5. \A n \in 1 .. Len(a \o b) : (a \o b)[n] = c[n]
    <3>1. \A n \in 1 .. 2 : n = 1 \/ n = 2
      OBVIOUS
    <3> QED BY <2>2, <2>4, <3>1
  <2>6. a \o b = c
    BY <2>2, <2>3, <2>4, <2>5, SameSeq
  <2> QED BY <2>6 DEF a, b, c
<1> QED BY <1>1, <1>2, <1>3, <1>4

\* A step of a plan names its object by one name, a member by two.
LEMMA StepShape ==
  ASSUME NEW step \in Names, NEW v \in STRING, NEW w \in STRING
  PROVE  /\ step \notin Members => /\ IsStep(Step(step, <<v>>))
                                  /\ Step(step, <<v>>).step = step
         /\ step \in Members => /\ IsStep(Step(step, <<v, w>>))
                               /\ Step(step, <<v, w>>).step = step
<1>1. /\ <<v>> \in Seq(STRING) /\ Len(<<v>>) = 1
      /\ <<v, w>> \in Seq(STRING) /\ Len(<<v, w>>) = 2
  BY OneTwo
<1> DEFINE a == <<v>>
           b == <<v, w>>
<1> HIDE DEF a, b
<1>2. a \in Seq(STRING) /\ Len(a) = 1 /\ b \in Seq(STRING) /\ Len(b) = 2
  BY <1>1 DEF a, b
<1>3. step \notin Members => IsStep(Step(step, a)) /\ Step(step, a).step = step
  BY <1>2 DEF IsStep, Step
<1>4. step \in Members => IsStep(Step(step, b)) /\ Step(step, b).step = step
  BY <1>2 DEF IsStep, Step
<1> QED
  BY <1>3, <1>4 DEF a, b

\* A plan is the manifest, the steps of tagged objects and the container.
LEMMA PlanShape ==
  ASSUME NEW o \in ShapeRecord
  PROVE  /\ Objects(o) \in Seq(ObjectStep) /\ Plan(o) \in Seq(PlanStep)
         /\ Range(Plan(o)) = {ManifestStep, ContainerStep(o)} \cup Range(Objects(o))
         /\ IsStep(ContainerStep(o)) /\ ContainerStep(o) \in PlanStep
         /\ Len(Objects(o)) >= 2
<1>1. /\ o.veth \in STRING /\ o.ifaceList \in STRING /\ o.addrList \in STRING
      /\ o.expose \in STRING
  BY DEF ShapeRecord
<1>2. /\ ContainerStep(o) \in PlanStep /\ IsStep(ContainerStep(o)) /\ ManifestStep \in PlanStep
  <2>1. "container" \in Names /\ "container" \notin Members
    BY DEF Names, Members
  <2> QED BY <1>1, <2>1, StepShape DEF PlanStep, ContainerStep
<1>3. ASSUME NEW step \in Names \ {"container"}, NEW v \in STRING, NEW w \in STRING
      PROVE  /\ step \notin Members => Step(step, <<v>>) \in ObjectStep
             /\ step \in Members => Step(step, <<v, w>>) \in ObjectStep
  <2>1. /\ step \notin Members => IsStep(Step(step, <<v>>)) /\ Step(step, <<v>>).step = step
        /\ step \in Members => IsStep(Step(step, <<v, w>>)) /\ Step(step, <<v, w>>).step = step
    BY StepShape
  <2>2. \A s : IsStep(s) => s \in [step : Names, id : Seq(STRING)]
    BY DEF IsStep
  <2> QED BY <2>1, <2>2 DEF ObjectStep
<1>4. /\ Step("veth", <<o.veth>>) \in ObjectStep
      /\ Step("address", <<o.veth>>) \in ObjectStep
      /\ Step("expose-nat", <<o.expose>>) \in ObjectStep
      /\ Step("expose-accept", <<o.veth>>) \in ObjectStep
      /\ Step("iface-member", <<o.veth, o.ifaceList>>) \in ObjectStep
      /\ Step("addr-member", <<o.veth, o.addrList>>) \in ObjectStep
  <2>1. /\ {"veth", "address", "expose-nat", "expose-accept"} \subseteq (Names \ {"container"}) \ Members
        /\ {"iface-member", "addr-member"} \subseteq (Names \ {"container"}) \cap Members
    BY DEF Names, Members
  <2> QED BY <1>1, <1>3, <2>1
<1>5. Objects(o) \in Seq(ObjectStep) /\ Len(Objects(o)) >= 2
  <2> DEFINE a == <<Step("veth", <<o.veth>>), Step("address", <<o.veth>>)>>
             b == IF o.ifaceList = "none" THEN <<>>
                  ELSE <<Step("iface-member", <<o.veth, o.ifaceList>>)>>
             c == IF o.addrList = "none" THEN <<>>
                  ELSE <<Step("addr-member", <<o.veth, o.addrList>>)>>
             d == IF o.expose = "no" THEN <<>>
                  ELSE <<Step("expose-nat", <<o.expose>>), Step("expose-accept", <<o.veth>>)>>
  <2>1. a \in Seq(ObjectStep) /\ b \in Seq(ObjectStep) /\ c \in Seq(ObjectStep)
        /\ d \in Seq(ObjectStep) /\ Len(a) = 2
    BY <1>3, <1>4
  <2>2. Objects(o) = a \o b \o c \o d
    BY DEF Objects
  <2> HIDE DEF a, b, c, d
  <2>3. a \o b \in Seq(ObjectStep) /\ Len(a \o b) = Len(a) + Len(b)
    BY <2>1, ConcatShape
  <2>4. a \o b \o c \in Seq(ObjectStep) /\ Len(a \o b \o c) = Len(a \o b) + Len(c)
    BY <2>1, <2>3, ConcatShape
  <2>5. /\ a \o b \o c \o d \in Seq(ObjectStep)
        /\ Len(a \o b \o c \o d) = Len(a \o b \o c) + Len(d)
    BY <2>1, <2>4, ConcatShape
  <2>6. Len(b) \in Nat /\ Len(c) \in Nat /\ Len(d) \in Nat
    BY <2>1
  <2> QED BY <2>1, <2>2, <2>3, <2>4, <2>5, <2>6
<1>6. /\ Objects(o) \in Seq(PlanStep) /\ <<ManifestStep>> \in Seq(PlanStep)
      /\ <<ContainerStep(o)>> \in Seq(PlanStep) /\ <<ContainerStep(o)>> # <<>>
      /\ Range(<<ManifestStep>>) = {ManifestStep}
      /\ Range(<<ContainerStep(o)>>) = {ContainerStep(o)}
  <2>1. ObjectStep \subseteq PlanStep
    BY DEF PlanStep
  <2> HIDE DEF ObjectStep, PlanStep
  <2>2. Objects(o) \in Seq(PlanStep)
    BY <1>5, <2>1
  <2>3. \A x : Range(<<x>>) = {x}
    BY DEF Range
  <2> QED BY <1>2, <2>2, <2>3
<1>7. <<ManifestStep>> \o Objects(o) \in Seq(PlanStep)
  BY <1>6, ConcatShape
<1>8. Plan(o) \in Seq(PlanStep)
  BY <1>6, <1>7, ConcatShape DEF Plan
<1>9. Range(<<ManifestStep>> \o Objects(o)) = {ManifestStep} \cup Range(Objects(o))
  <2> DEFINE a == <<ManifestStep>>
             b == Objects(o)
  <2>1. a \in Seq(PlanStep) /\ b \in Seq(PlanStep)
    BY <1>6
  <2> HIDE DEF a, b
  <2>2. Range(a \o b) = Range(a) \cup Range(b)
    BY <2>1, RangeConcat
  <2> QED BY <1>6, <2>2 DEF a, b
<1>10. Range(Plan(o)) = ({ManifestStep} \cup Range(Objects(o))) \cup {ContainerStep(o)}
  <2> DEFINE a == <<ManifestStep>> \o Objects(o)
             b == <<ContainerStep(o)>>
  <2>1. a \in Seq(PlanStep) /\ b \in Seq(PlanStep) /\ Plan(o) = a \o b
    BY <1>6, <1>7 DEF Plan
  <2> HIDE DEF a, b
  <2>2. Range(a \o b) = Range(a) \cup Range(b)
    BY <2>1, RangeConcat
  <2> QED BY <1>6, <1>9, <2>1, <2>2 DEF a, b
<1> QED
  BY <1>2, <1>5, <1>8, <1>10

\* What a run that installs goes on to after a plain piece.
LEMMA InstallsConcat ==
  ASSUME NEW a \in Seq(Entry), NEW b \in Seq(Entry), Installs(a), Installs(b),
         \A n \in 1 .. Len(a) : a[n].do # "upload",
         \A n \in 1 .. Len(b) : b[n].do # "read" /\ ~Puts(b[n], "manifest")
  PROVE  /\ a \o b \in Seq(Entry) /\ Installs(a \o b)
         /\ (\A n \in 1 .. Len(b) : b[n].do # "upload") =>
              \A n \in 1 .. Len(a \o b) : (a \o b)[n].do # "upload"
<1> DEFINE c == a \o b
<1>1. /\ c \in Seq(Entry) /\ Len(c) = Len(a) + Len(b)
      /\ \A n \in 1 .. Len(a) : c[n] = a[n]
      /\ \A n \in (Len(a) + 1) .. (Len(a) + Len(b)) : c[n] = b[n - Len(a)]
  BY ConcatShape
<1>2. Len(a) \in Nat /\ Len(b) \in Nat
  OBVIOUS
<1> HIDE DEF c
<1>3. ASSUME NEW n \in 1 .. Len(c)
      PROVE  /\ Installing(c[n])
             /\ n > 1 => c[n].do # "read" /\ ~Puts(c[n], "manifest")
             /\ c[n].do = "upload" => n < Len(c) /\ Puts(c[n + 1], "container")
  <2>1. CASE n <= Len(a)
    <3>1. n \in 1 .. Len(a) /\ c[n] = a[n]
      BY <1>1, <1>2, <2>1
    <3> QED BY <3>1 DEF Installs
  <2>2. CASE n > Len(a)
    <3> DEFINE m == n - Len(a)
    <3>1. m \in 1 .. Len(b) /\ c[n] = b[m]
      BY <1>1, <1>2, <2>2
    <3>2. m < Len(b) => n < Len(c) /\ c[n + 1] = b[m + 1]
      <4>1. SUFFICES ASSUME m < Len(b) PROVE n < Len(c) /\ c[n + 1] = b[m + 1]
        OBVIOUS
      <4>2. n + 1 \in (Len(a) + 1) .. (Len(a) + Len(b)) /\ (n + 1) - Len(a) = m + 1
        BY <1>1, <1>2, <2>2, <4>1
      <4>3. c[n + 1] = b[(n + 1) - Len(a)]
        BY <1>1, <4>2
      <4> QED BY <1>1, <1>2, <4>1, <4>2, <4>3
    <3> HIDE DEF m
    <3>3. /\ Installing(b[m])
          /\ b[m].do = "upload" => m < Len(b) /\ Puts(b[m + 1], "container")
      BY <3>1 DEF Installs
    <3> QED BY <3>1, <3>2, <3>3
  <2> QED BY <1>2, <2>1, <2>2
<1>4. Installs(c)
  BY <1>3 DEF Installs
<1>5. ASSUME \A n \in 1 .. Len(b) : b[n].do # "upload", NEW n \in 1 .. Len(c)
      PROVE  c[n].do # "upload"
  <2>1. CASE n <= Len(a)
    BY <1>1, <1>2, <2>1
  <2>2. CASE n > Len(a)
    <3>1. n - Len(a) \in 1 .. Len(b) /\ c[n] = b[n - Len(a)]
      BY <1>1, <1>2, <2>2
    <3> QED BY <1>5, <3>1
  <2> QED BY <1>2, <2>1, <2>2
<1> QED
  BY <1>1, <1>4, <1>5 DEF c

\* A piece that creates: the manifest only in front.
LEMMA CreatesFit ==
  ASSUME NEW w \in Seq(PlanStep), \A n \in 1 .. Len(w) : n > 1 => w[n] # ManifestStep
  PROVE  /\ Creates(w) \in Seq(Entry) /\ Len(Creates(w)) = Len(w)
         /\ \A n \in 1 .. Len(w) : Creates(w)[n] = Do("create", w[n])
         /\ Installs(Creates(w))
         /\ \A n \in 1 .. Len(w) : Creates(w)[n].do # "upload"
<1> DEFINE c == Creates(w)
<1>1. /\ DOMAIN c = 1 .. Len(w) /\ Len(w) \in Nat
      /\ \A n \in 1 .. Len(w) : c[n] = Do("create", w[n]) /\ w[n] \in PlanStep
  BY DEF Creates
<1>2. ASSUME NEW s \in PlanStep
      PROVE  /\ Do("create", s) \in Entry
             /\ Installing(Do("create", s))
             /\ Puts(Do("create", s), "manifest") => s = ManifestStep
             /\ Do("create", s).do = "create"
  <2>1. CASE s \in ObjectStep
    BY <2>1 DEF ObjectStep, Do, Entry, AnyStep, Installing, Puts, IsStep, Names, Members
  <2>2. CASE s = ManifestStep
    BY <2>2 DEF ManifestStep, Step, Do, Entry, AnyStep, Installing, Puts
  <2>3. CASE \E v \in STRING : s = Step("container", <<v>>)
    <3>1. IsStep(s) /\ s.step = "container"
      BY <2>3, StepShape DEF Names, Members
    <3> QED BY <3>1 DEF Do, Entry, AnyStep, Installing, Puts, IsStep
  <2> QED BY <2>1, <2>2, <2>3 DEF PlanStep
<1>3. \A n \in 1 .. Len(w) :
        /\ c[n] \in Entry /\ Installing(c[n]) /\ (Puts(c[n], "manifest") => w[n] = ManifestStep)
        /\ c[n].do = "create"
  BY <1>1, <1>2
<1>4. c = [n \in 1 .. Len(w) |-> c[n]]
  BY DEF Creates
<1> HIDE DEF c
<1>5. c \in Seq(Entry) /\ Len(c) = Len(w)
  BY <1>1, <1>3, <1>4
<1>6. Installs(c)
  BY <1>3, <1>5 DEF Installs
<1> QED
  BY <1>1, <1>3, <1>5, <1>6 DEF c

\* The container's entries are what a run that installs can go on to.
LEMMA CreatesBoxFit ==
  ASSUME NEW o \in ShapeRecord
  PROVE  /\ CreatesBox(o) \in Seq(Entry) /\ Installs(CreatesBox(o))
         /\ \A n \in 1 .. Len(CreatesBox(o)) :
              /\ CreatesBox(o)[n].do \in {"create", "upload"}
              /\ ~Puts(CreatesBox(o)[n], "manifest")
         /\ CreatesBox(o) # <<>>
<1> DEFINE up == Do("upload", NoStep)
           box == Do("create", ContainerStep(o))
<1>1. /\ up \in Entry /\ Installing(up) /\ up.do = "upload" /\ ~Puts(up, "manifest")
  BY DEF Do, NoStep, Step, Entry, AnyStep, Installing, Puts
<1>2. /\ box \in Entry /\ Installing(box) /\ box.do = "create" /\ Puts(box, "container")
      /\ ~Puts(box, "manifest")
  <2>1. IsStep(ContainerStep(o)) /\ ContainerStep(o).step = "container"
    BY PlanShape DEF ContainerStep, Step
  <2> QED BY <2>1 DEF Do, Entry, AnyStep, Installing, Puts, IsStep
<1>3. CreatesBox(o) = IF o.remote THEN <<box>> ELSE <<up, box>>
  <2>1. <<>> \o <<box>> = <<box>> /\ <<up>> \o <<box>> = <<up, box>>
    BY <1>1, <1>2, OneTwo
  <2> HIDE DEF up, box
  <2>2. CreatesBox(o) = (IF o.remote THEN <<>> ELSE <<up>>) \o <<box>>
    BY DEF CreatesBox, up, box
  <2> QED BY <2>1, <2>2
<1> HIDE DEF up, box
<1>4. CASE o.remote
  <2>1. CreatesBox(o) = <<box>>
    BY <1>3, <1>4
  <2> QED BY <1>2, <2>1 DEF Installs
<1>5. CASE ~o.remote
  <2>1. CreatesBox(o) = <<up, box>>
    BY <1>3, <1>5
  <2>2. Len(<<up, box>>) = 2 /\ \A n \in 1 .. 2 : n = 1 \/ n = 2
    OBVIOUS
  <2> QED BY <1>1, <1>2, <2>1, <2>2 DEF Installs
<1> QED
  BY <1>4, <1>5

\* The manifest and the objects: the manifest only in front, and of what is
\* kept of them too.
LEMMA ListedShape ==
  ASSUME NEW o \in ShapeRecord, NEW keep
  PROVE  LET w == Kept(<<ManifestStep>> \o Objects(o), keep)
         IN  /\ w \in Seq(PlanStep)
             /\ \A n \in 1 .. Len(w) : n > 1 => w[n] # ManifestStep
             /\ ManifestStep \in keep => w # <<>> /\ w[1] = ManifestStep
<1> DEFINE a == <<ManifestStep>>
           b == Objects(o)
           l == a \o b
           w == Kept(l, keep)
<1>1. /\ a \in Seq(PlanStep) /\ Len(a) = 1 /\ a[1] = ManifestStep
      /\ b \in Seq(PlanStep) /\ b \in Seq(ObjectStep)
  <2>1. ManifestStep \in PlanStep /\ ObjectStep \subseteq PlanStep
    BY DEF PlanStep
  <2>2. b \in Seq(ObjectStep)
    BY PlanShape
  <2> HIDE DEF b, ObjectStep, PlanStep
  <2> QED BY <2>1, <2>2, OneTwo
<1>2. ManifestStep \notin ObjectStep
  BY DEF ObjectStep, ManifestStep, Step, IsStep, Names, Members
<1> HIDE DEF a, b
<1>3. /\ l \in Seq(PlanStep) /\ Len(l) = 1 + Len(b) /\ l[1] = ManifestStep
      /\ Len(b) \in Nat /\ \A n \in 1 .. Len(l) : n > 1 => l[n] # ManifestStep
  <2>1. /\ l \in Seq(PlanStep) /\ Len(l) = Len(a) + Len(b)
        /\ \A n \in 1 .. Len(a) : l[n] = a[n]
        /\ \A n \in (Len(a) + 1) .. (Len(a) + Len(b)) : l[n] = b[n - Len(a)]
    BY <1>1, ConcatShape
  <2>2. Len(b) \in Nat /\ \A n \in 1 .. Len(b) : b[n] \in ObjectStep
    BY <1>1
  <2> HIDE DEF l
  <2>3. 1 \in 1 .. Len(a) /\ l[1] = ManifestStep
    BY <1>1, <2>1
  <2>4. ASSUME NEW n \in 1 .. Len(l), n > 1 PROVE l[n] # ManifestStep
    <3>1. n \in (Len(a) + 1) .. (Len(a) + Len(b)) /\ n - Len(a) \in 1 .. Len(b)
      BY <1>1, <2>1, <2>2, <2>4
    <3> QED BY <1>2, <2>1, <2>2, <3>1
  <2> QED BY <1>1, <2>1, <2>2, <2>3, <2>4
<1> HIDE DEF l
<1>4. IsKept(w, PlanStep, l, keep, Len(l))
  BY <1>3, KeptShape
<1> HIDE DEF w
<1>5. w \in Seq(PlanStep) /\ Len(w) \in Nat
  BY <1>4 DEF IsKept
<1>6. PICK pos \in [1 .. Len(w) -> 1 .. Len(l)] :
        /\ \A n, m \in 1 .. Len(w) : n < m => pos[n] < pos[m]
        /\ \A n \in 1 .. Len(w) : w[n] = l[pos[n]] /\ l[pos[n]] \in keep
        /\ \A m \in 1 .. Len(l) : l[m] \in keep => \E n \in 1 .. Len(w) : pos[n] = m
  BY <1>4 DEF IsKept
<1>7. ASSUME NEW n \in 1 .. Len(w), n > 1 PROVE w[n] # ManifestStep
  <2>1. 1 \in 1 .. Len(w) /\ pos[1] \in 1 .. Len(l) /\ pos[n] \in 1 .. Len(l) /\ pos[1] < pos[n]
    BY <1>5, <1>6, <1>7
  <2>2. pos[n] > 1
    BY <1>3, <2>1
  <2> QED BY <1>3, <1>6, <2>1, <2>2
<1>8. ASSUME ManifestStep \in keep PROVE w # <<>> /\ w[1] = ManifestStep
  <2>1. 1 \in 1 .. Len(l)
    BY <1>3
  <2>2. PICK n \in 1 .. Len(w) : pos[n] = 1
    BY <1>3, <1>6, <1>8, <2>1
  <2>3. w[n] = ManifestStep
    BY <1>3, <1>6, <2>2
  <2>4. n = 1
    BY <1>5, <1>7, <2>3
  <2> QED BY <1>5, <2>3, <2>4
<1> QED
  BY <1>5, <1>7, <1>8 DEF w, l, a, b

\* What is left of a run when its head is done.
LEMMA TailFits ==
  ASSUME NEW todo \in Seq(Entry), todo # <<>>
  PROVE  /\ Tail(todo) \in Seq(Entry) /\ Head(todo) \in Entry
         /\ Installs(todo) =>
              /\ Installs(Tail(todo)) /\ Installing(Head(todo))
              /\ Tail(todo) # <<>> =>
                   /\ Head(Tail(todo)).do # "read" /\ ~Puts(Head(Tail(todo)), "manifest")
              /\ Head(todo).do = "upload" =>
                   Tail(todo) # <<>> /\ Puts(Head(Tail(todo)), "container")
         /\ Removes(todo) =>
              /\ Removes(Tail(todo)) /\ Removing(Head(todo))
              /\ Tail(todo) # <<>> =>
                   \/ Stage(Head(Tail(todo))) = Stage(Head(todo)) + 1
                   \/ Stage(Head(Tail(todo))) = 3 /\ Stage(Head(todo)) = 3
<1> DEFINE t == Tail(todo)
<1>1. /\ t \in Seq(Entry) /\ Len(t) = Len(todo) - 1 /\ Len(todo) \in Nat \ {0}
      /\ Head(todo) = todo[1] /\ todo[1] \in Entry
      /\ \A n \in 1 .. (Len(todo) - 1) : t[n] = todo[n + 1]
  BY TailShape
<1>2. t # <<>> => Head(t) = t[1] /\ Len(t) >= 1 /\ 1 \in 1 .. Len(t)
  BY <1>1
<1> HIDE DEF t
<1>3. \A n \in 1 .. Len(t) : n + 1 \in 1 .. Len(todo) /\ t[n] = todo[n + 1]
  BY <1>1
<1>4. 1 \in 1 .. Len(todo) /\ 1 + 1 = 2
  BY <1>1
<1>5. t # <<>> => Head(t) = todo[2] /\ 2 \in 1 .. Len(todo)
  BY <1>2, <1>3, <1>4
<1>6. ASSUME Installs(todo)
      PROVE  /\ Installs(t) /\ Installing(Head(todo))
             /\ t # <<>> => Head(t).do # "read" /\ ~Puts(Head(t), "manifest")
             /\ Head(todo).do = "upload" => t # <<>> /\ Puts(Head(t), "container")
  <2>1. ASSUME NEW n \in 1 .. Len(t)
        PROVE  /\ Installing(t[n])
               /\ n > 1 => t[n].do # "read" /\ ~Puts(t[n], "manifest")
               /\ t[n].do = "upload" => n < Len(t) /\ Puts(t[n + 1], "container")
    <3>1. n + 1 \in 1 .. Len(todo) /\ t[n] = todo[n + 1] /\ n \in Nat /\ n + 1 > 1
      BY <1>1, <1>3
    <3>2. /\ Installing(todo[n + 1])
          /\ n + 1 > 1 => todo[n + 1].do # "read" /\ ~Puts(todo[n + 1], "manifest")
          /\ todo[n + 1].do = "upload" =>
               n + 1 < Len(todo) /\ Puts(todo[(n + 1) + 1], "container")
      BY <1>6, <3>1 DEF Installs
    <3>3. n + 1 < Len(todo) => n < Len(t) /\ n + 1 \in 1 .. Len(t) /\ t[n + 1] = todo[(n + 1) + 1]
      BY <1>1, <1>3, <3>1
    <3> QED BY <3>1, <3>2, <3>3
  <2>2. Installs(t)
    BY <2>1 DEF Installs
  <2>3. /\ Installing(todo[1])
        /\ todo[1].do = "upload" => 1 < Len(todo) /\ Puts(todo[1 + 1], "container")
    BY <1>4, <1>6 DEF Installs
  <2>4. 2 \in 1 .. Len(todo) => todo[2].do # "read" /\ ~Puts(todo[2], "manifest")
    BY <1>6 DEF Installs
  <2>5. 1 < Len(todo) => t # <<>>
    BY <1>1
  <2> QED BY <1>1, <1>4, <1>5, <2>2, <2>3, <2>4, <2>5
<1>7. ASSUME Removes(todo)
      PROVE  /\ Removes(t) /\ Removing(Head(todo))
             /\ t # <<>> => \/ Stage(Head(t)) = Stage(Head(todo)) + 1
                            \/ Stage(Head(t)) = 3 /\ Stage(Head(todo)) = 3
  <2>1. ASSUME NEW n \in 1 .. Len(t)
        PROVE  /\ Removing(t[n])
               /\ n > 1 => \/ Stage(t[n]) = Stage(t[n - 1]) + 1
                           \/ Stage(t[n]) = 3 /\ Stage(t[n - 1]) = 3
    <3>1. n + 1 \in 1 .. Len(todo) /\ t[n] = todo[n + 1] /\ n \in Nat /\ n + 1 > 1
          /\ (n + 1) - 1 = n
      BY <1>1, <1>3
    <3>2. /\ Removing(todo[n + 1])
          /\ n + 1 > 1 => \/ Stage(todo[n + 1]) = Stage(todo[(n + 1) - 1]) + 1
                          \/ Stage(todo[n + 1]) = 3 /\ Stage(todo[(n + 1) - 1]) = 3
      BY <1>7, <3>1 DEF Removes
    <3>3. n > 1 => n - 1 \in 1 .. Len(t) /\ (n - 1) + 1 = n
      BY <1>1, <3>1
    <3>4. n > 1 => t[n - 1] = todo[n]
      BY <1>3, <3>3
    <3> QED BY <3>1, <3>2, <3>4
  <2>2. Removes(t)
    BY <2>1 DEF Removes
  <2>3. Removing(todo[1])
    BY <1>4, <1>7 DEF Removes
  <2>4. 2 \in 1 .. Len(todo) => \/ Stage(todo[2]) = Stage(todo[2 - 1]) + 1
                                \/ Stage(todo[2]) = 3 /\ Stage(todo[2 - 1]) = 3
    BY <1>7 DEF Removes
  <2>5. 2 - 1 = 1
    OBVIOUS
  <2> QED BY <1>1, <1>5, <2>2, <2>3, <2>4, <2>5
<1> QED
  BY <1>1, <1>6, <1>7 DEF t

\* The script of an uninstall.
LEMMA RemovalFits ==
  ASSUME NEW o \in ShapeRecord
  PROVE  /\ Removal(o) \in Seq(Entry) /\ Removal(o) # <<>> /\ Removes(Removal(o))
         /\ Head(Removal(o)) = Do("remove", ContainerStep(o))
<1> DEFINE a == <<Do("remove", ContainerStep(o))>>
           obs == Objects(o)
           b == [n \in DOMAIN obs |-> Do("remove", Reverse(obs)[n])]
           c == <<Do("sweep", NoStep), Do("remove", ManifestStep), Do("verify", NoStep),
                  Do("drop", NoStep)>>
<1>1. obs \in Seq(ObjectStep) /\ Len(obs) >= 2
  BY PlanShape
<1>2. /\ Do("remove", ContainerStep(o)) \in Entry /\ Removing(Do("remove", ContainerStep(o)))
      /\ Stage(Do("remove", ContainerStep(o))) = 2
  <2>1. IsStep(ContainerStep(o)) /\ ContainerStep(o).step = "container"
    BY PlanShape DEF ContainerStep, Step
  <2> QED BY <2>1 DEF Do, Entry, AnyStep, Removing, Stage, IsStep
<1>3. /\ a \in Seq(Entry) /\ Len(a) = 1 /\ a[1] = Do("remove", ContainerStep(o))
  BY <1>2, OneTwo
<1>4. /\ b \in Seq(Entry) /\ Len(b) = Len(obs) /\ Len(b) >= 2
      /\ \A n \in 1 .. Len(b) : Removing(b[n]) /\ Stage(b[n]) = 3
  <2>1. Len(obs) \in Nat /\ DOMAIN obs = 1 .. Len(obs)
        /\ \A n \in 1 .. Len(obs) : obs[n] \in ObjectStep
    BY <1>1
  <2> HIDE DEF obs
  <2>2. ASSUME NEW n \in 1 .. Len(obs) PROVE Reverse(obs)[n] \in ObjectStep
    <3>1. Reverse(obs)[n] = obs[(Len(obs) - n) + 1]
      BY <2>1 DEF Reverse
    <3>2. (Len(obs) - n) + 1 \in 1 .. Len(obs)
      BY <2>1
    <3> QED BY <2>1, <3>1, <3>2
  <2>3. ASSUME NEW s \in ObjectStep
        PROVE  Do("remove", s) \in Entry /\ Removing(Do("remove", s)) /\ Stage(Do("remove", s)) = 3
    BY DEF ObjectStep, Do, Entry, AnyStep, Removing, Stage, IsStep, Names, Members
  <2>4. \A n \in 1 .. Len(obs) : b[n] \in Entry /\ Removing(b[n]) /\ Stage(b[n]) = 3
    BY <2>1, <2>2, <2>3
  <2>5. b = [n \in 1 .. Len(obs) |-> b[n]]
    BY <2>1
  <2> HIDE DEF b
  <2>6. b \in Seq(Entry) /\ Len(b) = Len(obs)
    BY <2>1, <2>4, <2>5
  <2> QED BY <1>1, <2>4, <2>6
<1>5. /\ c \in Seq(Entry) /\ Len(c) = 4
      /\ \A n \in 1 .. 4 : Removing(c[n]) /\ Stage(c[n]) = n + 3
  <2>1. /\ Do("sweep", NoStep) \in Entry /\ Do("remove", ManifestStep) \in Entry
        /\ Do("verify", NoStep) \in Entry /\ Do("drop", NoStep) \in Entry
    BY DEF Do, Entry, NoStep, ManifestStep, Step, AnyStep
  <2>2. /\ Stage(Do("sweep", NoStep)) = 4 /\ Stage(Do("remove", ManifestStep)) = 5
        /\ Stage(Do("verify", NoStep)) = 6 /\ Stage(Do("drop", NoStep)) = 7
        /\ Removing(Do("sweep", NoStep)) /\ Removing(Do("remove", ManifestStep))
        /\ Removing(Do("verify", NoStep)) /\ Removing(Do("drop", NoStep))
    BY DEF Do, NoStep, ManifestStep, Step, Stage, Removing
  <2>3. c \in Seq(Entry) /\ Len(c) = 4
    BY <2>1
  <2>4. /\ c[1] = Do("sweep", NoStep) /\ c[2] = Do("remove", ManifestStep)
        /\ c[3] = Do("verify", NoStep) /\ c[4] = Do("drop", NoStep)
    OBVIOUS
  <2> HIDE DEF c
  <2>5. \A n \in 1 .. 4 : n = 1 \/ n = 2 \/ n = 3 \/ n = 4
    OBVIOUS
  <2> QED BY <2>2, <2>3, <2>4, <2>5
<1>6. Removal(o) = a \o b \o c
  BY DEF Removal
<1> HIDE DEF a, b, c, obs
<1> DEFINE d == a \o b
           e == d \o c
<1>7. /\ d \in Seq(Entry) /\ Len(d) = 1 + Len(b) /\ d[1] = a[1]
      /\ \A n \in 2 .. (1 + Len(b)) : d[n] = b[n - 1]
  <2>0. a \in Seq(Entry) /\ b \in Seq(Entry)
    BY <1>3, <1>4
  <2>1. /\ d \in Seq(Entry) /\ Len(d) = Len(a) + Len(b)
        /\ \A n \in 1 .. Len(a) : d[n] = a[n]
        /\ \A n \in (Len(a) + 1) .. (Len(a) + Len(b)) : d[n] = b[n - Len(a)]
    BY <2>0, ConcatShape
  <2> HIDE DEF d
  <2>2. 1 \in 1 .. Len(a) /\ Len(a) + 1 = 2
    BY <1>3
  <2> QED BY <1>3, <2>1, <2>2
<1> HIDE DEF d
<1>8. /\ e \in Seq(Entry) /\ Len(e) = Len(d) + 4
      /\ \A n \in 1 .. Len(d) : e[n] = d[n]
      /\ \A n \in (Len(d) + 1) .. (Len(d) + 4) : e[n] = c[n - Len(d)]
  <2>0. d \in Seq(Entry) /\ c \in Seq(Entry)
    BY <1>5, <1>7
  <2>1. /\ e \in Seq(Entry) /\ Len(e) = Len(d) + Len(c)
        /\ \A n \in 1 .. Len(d) : e[n] = d[n]
        /\ \A n \in (Len(d) + 1) .. (Len(d) + Len(c)) : e[n] = c[n - Len(d)]
    BY <2>0, ConcatShape
  <2> HIDE DEF e
  <2> QED BY <1>5, <2>1
<1> HIDE DEF e
<1>9. Len(b) \in Nat /\ Len(b) >= 2
  BY <1>4
<1>10. ASSUME NEW n \in 1 .. Len(e)
       PROVE  /\ Removing(e[n])
              /\ n = 1 => Stage(e[n]) = 2
              /\ n > 1 /\ n <= 1 + Len(b) => Stage(e[n]) = 3
              /\ n > 1 + Len(b) => Stage(e[n]) = n - Len(b) + 2
  <2>1. CASE n = 1
    BY <1>2, <1>3, <1>7, <1>8, <1>9, <2>1
  <2>2. CASE n > 1 /\ n <= 1 + Len(b)
    <3>1. n \in 2 .. (1 + Len(b)) /\ n \in 1 .. Len(d) /\ n - 1 \in 1 .. Len(b)
      BY <1>7, <1>9, <2>2
    <3>2. e[n] = b[n - 1]
      BY <1>7, <1>8, <3>1
    <3> QED BY <1>4, <1>9, <2>2, <3>1, <3>2
  <2>3. CASE n > 1 + Len(b)
    <3>1. /\ n \in (Len(d) + 1) .. (Len(d) + 4) /\ n - Len(d) \in 1 .. 4
          /\ (n - Len(d)) + 3 = n - Len(b) + 2
      BY <1>7, <1>8, <1>9, <2>3
    <3>2. e[n] = c[n - Len(d)]
      BY <1>8, <3>1
    <3> QED BY <1>5, <1>9, <2>3, <3>1, <3>2
  <2> QED BY <1>9, <2>1, <2>2, <2>3
<1>11. ASSUME NEW n \in 1 .. Len(e), n > 1
       PROVE  \/ Stage(e[n]) = Stage(e[n - 1]) + 1
              \/ Stage(e[n]) = 3 /\ Stage(e[n - 1]) = 3
  <2>0. n \in Nat /\ n - 1 \in 1 .. Len(e)
    BY <1>7, <1>8, <1>9, <1>11
  <2>1. CASE n <= 1 + Len(b)
    <3>1. Stage(e[n]) = 3 /\ Stage(e[n - 1]) \in {2, 3}
      BY <1>9, <1>10, <1>11, <2>0, <2>1
    <3> QED BY <3>1
  <2>2. CASE n > 1 + Len(b)
    <3>1. Stage(e[n]) = n - Len(b) + 2
      BY <1>10, <2>2
    <3>2. CASE n - 1 > 1 + Len(b)
      <4>1. Stage(e[n - 1]) = (n - 1) - Len(b) + 2
        BY <1>10, <2>0, <3>2
      <4> QED BY <1>9, <2>0, <3>1, <4>1
    <3>3. CASE n - 1 <= 1 + Len(b)
      <4>1. n - 1 = 1 + Len(b) /\ Stage(e[n]) = 4
        BY <1>9, <2>0, <2>2, <3>1, <3>3
      <4>2. Stage(e[n - 1]) = 3
        BY <1>4, <1>9, <1>10, <2>0, <4>1
      <4> QED BY <4>1, <4>2
    <3> QED BY <1>9, <2>0, <3>2, <3>3
  <2> QED BY <1>9, <2>0, <2>1, <2>2
<1>12. Removes(e)
  BY <1>10, <1>11 DEF Removes
<1>13. Removal(o) = e /\ e # <<>> /\ Head(e) = e[1] /\ e[1] = a[1]
  BY <1>6, <1>7, <1>8, <1>9 DEF d, e
<1> QED
  BY <1>3, <1>8, <1>12, <1>13

\* The manifest in front of other steps, and what a concatenation starts with.
LEMMA ManifestFirst ==
  ASSUME NEW v \in Seq(PlanStep), \A n \in 1 .. Len(v) : v[n] # ManifestStep
  PROVE  LET w == <<ManifestStep>> \o v
         IN  /\ w \in Seq(PlanStep) /\ w # <<>> /\ w[1] = ManifestStep
             /\ \A n \in 1 .. Len(w) : n > 1 => w[n] # ManifestStep
<1> DEFINE a == <<ManifestStep>>
           w == a \o v
<1>1. a \in Seq(PlanStep) /\ Len(a) = 1 /\ a[1] = ManifestStep
  <2>1. ManifestStep \in PlanStep
    BY DEF PlanStep
  <2> HIDE DEF PlanStep
  <2> QED BY <2>1, OneTwo
<1> HIDE DEF a
<1>2. /\ w \in Seq(PlanStep) /\ Len(w) = Len(a) + Len(v)
      /\ \A n \in 1 .. Len(a) : w[n] = a[n]
      /\ \A n \in (Len(a) + 1) .. (Len(a) + Len(v)) : w[n] = v[n - Len(a)]
  <2>1. a \in Seq(PlanStep)
    BY <1>1
  <2> QED BY <2>1, ConcatShape
<1>3. Len(v) \in Nat
  OBVIOUS
<1> HIDE DEF w
<1>4. w # <<>> /\ w[1] = ManifestStep
  <2>1. 1 \in 1 .. Len(a) /\ Len(w) > 0
    BY <1>1, <1>2, <1>3
  <2> QED BY <1>1, <1>2, <2>1
<1>5. ASSUME NEW n \in 1 .. Len(w), n > 1 PROVE w[n] # ManifestStep
  <2>1. n \in (Len(a) + 1) .. (Len(a) + Len(v)) /\ n - Len(a) \in 1 .. Len(v)
    BY <1>1, <1>2, <1>3, <1>5
  <2> QED BY <1>2, <2>1
<1> QED
  BY <1>2, <1>4, <1>5 DEF w, a

\* The head of a concatenation is that of its first piece.
LEMMA HeadConcat ==
  ASSUME NEW S, NEW a \in Seq(S), NEW b \in Seq(S), a # <<>>
  PROVE  a \o b # <<>> /\ Head(a \o b) = a[1]
<1>1. /\ a \o b \in Seq(S) /\ Len(a \o b) = Len(a) + Len(b)
      /\ \A n \in 1 .. Len(a) : (a \o b)[n] = a[n]
  BY ConcatShape
<1>2. Len(a) \in Nat \ {0} /\ Len(b) \in Nat
  OBVIOUS
<1> DEFINE c == a \o b
<1> HIDE DEF c
<1>3. c \in Seq(S) /\ Len(c) > 0 /\ c[1] = a[1]
  <2>1. 1 \in 1 .. Len(a)
    BY <1>2
  <2> QED BY <1>1, <1>2, <2>1 DEF c
<1>4. c # <<>> /\ Head(c) = c[1]
  BY <1>3
<1> QED
  BY <1>3, <1>4 DEF c

\* The objects of a plan are none of them the manifest, and the rest of a
\* script's plan is not either.
LEMMA ScriptShape ==
  ASSUME NEW o \in ShapeRecord
  PROVE  /\ Plan(o) # <<>> /\ Plan(o)[1] = ManifestStep
         /\ \A n \in 1 .. Len(Plan(o)) : n > 1 => Plan(o)[n] # ManifestStep
<1> DEFINE b == Objects(o)
           c == <<ContainerStep(o)>>
           v == b \o c
<1>1. b \in Seq(ObjectStep) /\ ContainerStep(o) \in PlanStep
  BY PlanShape
<1>2. ManifestStep \notin ObjectStep /\ ManifestStep # ContainerStep(o) /\ ObjectStep \subseteq PlanStep
  BY DEF ObjectStep, PlanStep, ManifestStep, ContainerStep, Step, IsStep, Names, Members
<1>3. /\ b \in Seq(PlanStep) /\ \A n \in 1 .. Len(b) : b[n] # ManifestStep
      /\ c \in Seq(PlanStep) /\ Len(c) = 1 /\ c[1] # ManifestStep
      /\ <<ManifestStep>> \in Seq(PlanStep)
  <2>1. ManifestStep \in PlanStep
    BY DEF PlanStep
  <2> HIDE DEF b, ObjectStep, PlanStep
  <2> QED BY <1>1, <1>2, <2>1, OneTwo
<1> HIDE DEF b, c
<1>4. /\ v \in Seq(PlanStep) /\ Len(v) = Len(b) + Len(c)
      /\ \A n \in 1 .. Len(b) : v[n] = b[n]
      /\ \A n \in (Len(b) + 1) .. (Len(b) + Len(c)) : v[n] = c[n - Len(b)]
  <2>1. b \in Seq(PlanStep) /\ c \in Seq(PlanStep)
    BY <1>3
  <2> QED BY <2>1, ConcatShape
<1> HIDE DEF v
<1>5. ASSUME NEW n \in 1 .. Len(v) PROVE v[n] # ManifestStep
  <2>1. Len(b) \in Nat
    BY <1>3
  <2>2. CASE n <= Len(b)
    BY <1>3, <1>4, <2>1, <2>2
  <2>3. CASE n > Len(b)
    <3>1. n \in (Len(b) + 1) .. (Len(b) + Len(c)) /\ n - Len(b) = 1
      BY <1>3, <1>4, <2>1, <2>3
    <3> QED BY <1>3, <1>4, <3>1
  <2> QED BY <2>1, <2>2, <2>3
<1>6. Plan(o) = <<ManifestStep>> \o v
  <2>1. Plan(o) = (<<ManifestStep>> \o b) \o c
    BY DEF Plan, b, c
  <2> QED BY <1>3, <2>1, ConcatAssociative DEF v
<1> QED
  BY <1>4, <1>5, <1>6, ManifestFirst

\* An upgrade's script installs, and starts with the manifest.
LEMMA ReplacementFits ==
  ASSUME NEW o \in ShapeRecord
  PROVE  /\ Replacement(o) \in Seq(Entry) /\ Installs(Replacement(o)) /\ Replacement(o) # <<>>
         /\ Head(Replacement(o)) = Do("create", ManifestStep)
<1> DEFINE v == Missing(rt, o)
           x == <<ManifestStep>> \o v
           a == Creates(x)
           b == <<Do("remove", ContainerStep(o))>>
           c == CreatesBox(o)
<1>1. v \in Seq(PlanStep) /\ \A n \in 1 .. Len(v) : v[n] # ManifestStep
  <2> DEFINE keep == {s \in Range(Objects(o)) : StateOf(rt, o, s) = "absent"}
  <2>1. Objects(o) \in Seq(ObjectStep)
    BY PlanShape
  <2>2. IsKept(Kept(Objects(o), keep), ObjectStep, Objects(o), keep, Len(Objects(o)))
    BY <2>1, KeptShape
  <2>3. v \in Seq(ObjectStep)
    BY <2>2 DEF IsKept, Missing
  <2>4. ManifestStep \notin ObjectStep /\ ObjectStep \subseteq PlanStep
    BY DEF ObjectStep, PlanStep, ManifestStep, Step, IsStep, Names, Members
  <2> HIDE DEF v, ObjectStep, PlanStep
  <2> QED BY <2>3, <2>4
<1> HIDE DEF v
<1>2. /\ x \in Seq(PlanStep) /\ x # <<>> /\ x[1] = ManifestStep
      /\ \A n \in 1 .. Len(x) : n > 1 => x[n] # ManifestStep
  BY <1>1, ManifestFirst
<1> HIDE DEF x
<1>3. /\ a \in Seq(Entry) /\ Len(a) = Len(x) /\ Installs(a)
      /\ \A n \in 1 .. Len(x) : a[n] = Do("create", x[n])
      /\ \A n \in 1 .. Len(a) : a[n].do # "upload"
  BY <1>2, CreatesFit
<1> HIDE DEF a
<1>4. a # <<>> /\ a[1] = Do("create", ManifestStep)
  <2>1. 1 \in 1 .. Len(x)
    BY <1>2
  <2> QED BY <1>2, <1>3, <2>1
<1>5. /\ b \in Seq(Entry) /\ Installs(b)
      /\ \A n \in 1 .. Len(b) : /\ b[n].do # "read" /\ b[n].do # "upload"
                                /\ ~Puts(b[n], "manifest")
  <2> DEFINE e == Do("remove", ContainerStep(o))
  <2>1. IsStep(ContainerStep(o)) /\ ContainerStep(o).step = "container"
    BY PlanShape DEF ContainerStep, Step
  <2>2. /\ e \in Entry /\ Installing(e) /\ e.do = "remove" /\ ~Puts(e, "manifest")
    BY <2>1 DEF Do, Entry, AnyStep, Installing, Puts, IsStep
  <2>3. b = <<e>>
    OBVIOUS
  <2> HIDE DEF e, b
  <2>4. b \in Seq(Entry) /\ Len(b) = 1 /\ b[1] = e
    BY <2>2, <2>3, OneTwo
  <2>5. \A n \in 1 .. Len(b) : b[n] = e /\ n = 1
    BY <2>4
  <2> QED BY <2>2, <2>4, <2>5 DEF Installs
<1>6. /\ c \in Seq(Entry) /\ Installs(c)
      /\ \A n \in 1 .. Len(c) : c[n].do # "read" /\ ~Puts(c[n], "manifest")
  BY CreatesBoxFit
<1> HIDE DEF b, c
<1> DEFINE d == a \o b
<1>7. /\ d \in Seq(Entry) /\ Installs(d) /\ \A n \in 1 .. Len(d) : d[n].do # "upload"
  BY <1>3, <1>5, InstallsConcat
<1>8. d # <<>> /\ Head(d) = a[1]
  BY <1>3, <1>4, <1>5, HeadConcat
<1> HIDE DEF d
<1>9. d[1] = a[1]
  BY <1>7, <1>8
<1>10. d \o c \in Seq(Entry) /\ Installs(d \o c)
  BY <1>6, <1>7, InstallsConcat
<1>11. d \o c # <<>> /\ Head(d \o c) = d[1]
  BY <1>6, <1>7, <1>8, HeadConcat
<1>12. Replacement(o) = d \o c
  BY DEF Replacement, a, b, c, d, x, v
<1> QED
  BY <1>4, <1>9, <1>10, <1>11, <1>12

-----------------------------------------------------------------------------
(* The options a run goes on with, and the initial states.                  *)

\* The absent manifest is a manifest record that is not ours.
LEMMA NoManifestTyped ==
  /\ NoManifest \in ManifestRecord /\ NoManifest.kind = "none"
  /\ (CHOOSE o \in Shapes : TRUE) \in ShapeRecord
<1>1. (CHOOSE o \in Shapes : TRUE) \in Shapes
  BY DeployAssumption DEF DeployAssumption
<1>2. (CHOOSE o \in Shapes : TRUE) \in ShapeRecord
  BY <1>1, DeployAssumption DEF DeployAssumption
<1> QED
  BY <1>2 DEF NoManifest, ManifestRecord

\* What the tagged objects say is a value of the option, or the flag's.
LEMMA SaidTyped ==
  ASSUME NEW r \in RouterRecord, NEW step \in Names, NEW n \in 1 .. 2, NEW flag \in STRING,
         n = 1 \/ step \in Members
  PROVE  Said(r, step, n, flag) \in STRING
<1> DEFINE ids == {ob.id : ob \in {x \in TaggedObjects(r) : x.step = step}}
<1>1. ASSUME NEW id \in ids PROVE id[n] \in STRING
  <2>1. PICK ob \in TaggedObjects(r) : ob.step = step /\ id = ob.id
    OBVIOUS
  <2>2. ob \in Object
    BY <2>1 DEF TaggedObjects, RouterRecord
  <2>3. id \in Seq(STRING) /\ Len(id) = IF step \in Members THEN 2 ELSE 1
    BY <2>1, <2>2 DEF Object, IsStep, Step
  <2>4. n \in 1 .. Len(id)
    BY <2>3
  <2> QED BY <2>3, <2>4
<1>2. ASSUME Cardinality(ids) = 1 PROVE (CHOOSE id \in ids : TRUE)[n] \in STRING
  <2>1. ids # {}
    BY <1>2, FS_EmptySet
  <2> HIDE DEF ids
  <2>2. (CHOOSE id \in ids : TRUE) \in ids
    BY <2>1
  <2> QED BY <1>1, <2>2
<1>3. Said(r, step, n, flag) = IF Cardinality(ids) = 1 THEN (CHOOSE id \in ids : TRUE)[n] ELSE flag
  BY DEF Said
<1> HIDE DEF ids
<1> QED
  BY <1>2, <1>3

\* What an upgrade or an uninstall takes over from the router is a shape.
LEMMA AdoptedTyped ==
  ASSUME NEW r \in RouterRecord, NEW o \in ShapeRecord, NEW verb
  PROVE  Adopted(r, o, verb) \in ShapeRecord
<1>1. /\ o.veth \in STRING /\ o.ifaceList \in STRING /\ o.addrList \in STRING
      /\ o.expose \in STRING /\ o.remote \in BOOLEAN
  BY DEF ShapeRecord
<1>2. {"veth", "expose-nat"} \subseteq Names /\ {"iface-member", "addr-member"} \subseteq Names \cap Members
  BY DEF Names, Members
<1>3. /\ Said(r, "veth", 1, o.veth) \in STRING
      /\ Said(r, "iface-member", 2, o.ifaceList) \in STRING
      /\ Said(r, "addr-member", 2, o.addrList) \in STRING
      /\ Said(r, "expose-nat", 1, o.expose) \in STRING
  <2>1. 1 \in 1 .. 2 /\ 2 \in 1 .. 2
    OBVIOUS
  <2>2. Said(r, "veth", 1, o.veth) \in STRING /\ Said(r, "expose-nat", 1, o.expose) \in STRING
    BY <1>1, <1>2, <2>1, SaidTyped
  <2>3. /\ Said(r, "iface-member", 2, o.ifaceList) \in STRING
        /\ Said(r, "addr-member", 2, o.addrList) \in STRING
    BY <1>1, <1>2, <2>1, SaidTyped
  <2> QED BY <2>2, <2>3
<1>4. ObjectsShape(r, o) \in ShapeRecord
  <2>1. (o.remote \/ (r.box # "none" /\ r.pulled)) \in BOOLEAN
    OBVIOUS
  <2> QED BY <1>3, <2>1 DEF ObjectsShape, ShapeRecord
<1>5. r.manifest.shape \in ShapeRecord
  BY DEF RouterRecord, ManifestRecord
<1> DEFINE s == IF r.manifest.kind = "ours" THEN r.manifest.shape ELSE ObjectsShape(r, o)
<1>6. s \in ShapeRecord
  BY <1>4, <1>5
<1>7. Adopted(r, o, verb) = IF ~ShapeFound(r) THEN o
                            ELSE IF verb = "upgrade" THEN [s EXCEPT !.remote = o.remote] ELSE s
  BY DEF Adopted
<1> HIDE DEF s
<1>8. [s EXCEPT !.remote = o.remote] \in ShapeRecord
  BY <1>1, <1>6 DEF ShapeRecord
<1> QED
  BY <1>6, <1>7, <1>8

\* A bare router, the operator's own, and that of an older install are good
\* ones to start with.
LEMMA DeployStarts == DeployInit => DeployInv
<1> SUFFICES ASSUME DeployInit PROVE DeployInv
  OBVIOUS
<1>1. /\ run \in RunRecord /\ run.verb = "none" /\ run.todo = <<>> /\ run.result = "none"
      /\ run.found = {} /\ run.wrote = FALSE
  <2>1. run = [verb |-> "none", opts |-> CHOOSE o \in Shapes : TRUE, strict |-> FALSE,
               todo |-> <<>>, found |-> {}, wrote |-> FALSE, failed |-> FALSE,
               result |-> "none"]
    BY DEF DeployInit, NoRun
  <2>2. <<>> \in Seq(Entry)
    OBVIOUS
  <2> QED BY <2>1, <2>2, NoManifestTyped DEF RunRecord, Verbs, Results
<1>2. /\ Bare \in RouterRecord /\ Bare.objs = {} /\ Bare.entries = "none" /\ Bare.marker = FALSE
      /\ Bare.box = "none" /\ Bare.files = {} /\ Bare.manifest.kind = "none"
  <2>1. NoManifest \in ManifestRecord /\ NoManifest.kind = "none"
    BY NoManifestTyped
  <2> QED BY <2>1 DEF Bare, RouterRecord
<1> DEFINE Starts == /\ rt \in RouterRecord
                     /\ rt.entries = "ours" => rt.marker
                     /\ rt.entries = "theirs" => ~rt.marker /\ rt.box = "none"
                     /\ Tagged(rt) /\ ~legacy => rt.manifest.kind = "ours"
                     /\ "tar" \notin rt.files
<1>3. ASSUME ~legacy PROVE Starts
  <2>1. rt \in {Bare, [Bare EXCEPT !.entries = "theirs"],
                [Bare EXCEPT !.manifest = [@ EXCEPT !.kind = "theirs"], !.files = {"dir"}]}
    BY <1>3 DEF DeployInit
  <2>2. /\ rt \in RouterRecord /\ rt.objs = {} /\ rt.entries # "ours" /\ rt.marker = FALSE
        /\ rt.box = "none" /\ "tar" \notin rt.files
    <3>1. CASE rt = Bare
      BY <1>2, <3>1
    <3>2. CASE rt = [Bare EXCEPT !.entries = "theirs"]
      BY <1>2, <3>2 DEF RouterRecord
    <3>3. CASE rt = [Bare EXCEPT !.manifest = [@ EXCEPT !.kind = "theirs"], !.files = {"dir"}]
      BY <1>2, <3>3 DEF RouterRecord, ManifestRecord
    <3> QED BY <2>1, <3>1, <3>2, <3>3
  <2>3. ~Tagged(rt)
    BY <2>2 DEF Tagged, TaggedObjects
  <2> QED BY <1>3, <2>2, <2>3
<1>4. ASSUME legacy PROVE Starts
  <2>1. PICK o \in Legacy :
          rt = [Bare EXCEPT !.objs = {Ours(s) : s \in Range(Objects(o))},
                            !.entries = "ours", !.marker = TRUE, !.box = "running",
                            !.pulled = o.remote, !.files = {"dir", "root"}]
    BY <1>4 DEF DeployInit
  <2>2. o \in ShapeRecord
    BY DeployAssumption DEF DeployAssumption
  <2>3. {Ours(s) : s \in Range(Objects(o))} \subseteq Object
    <3>1. Objects(o) \in Seq(ObjectStep)
      BY <2>2, PlanShape
    <3>2. Range(Objects(o)) \subseteq ObjectStep
      <4> HIDE DEF ObjectStep
      <4> QED BY <3>1 DEF Range
    <3>3. \A s \in ObjectStep : Ours(s) \in Object
      BY DEF ObjectStep, Ours, Object, IsStep, Step
    <3> QED BY <3>2, <3>3
  <2>4. /\ rt \in RouterRecord /\ rt.entries = "ours" /\ rt.marker = TRUE
        /\ "tar" \notin rt.files
    <3>1. o.remote \in BOOLEAN
      BY <2>2 DEF ShapeRecord
    <3> DEFINE obs == {Ours(s) : s \in Range(Objects(o))}
    <3> HIDE DEF obs
    <3>2. rt = [Bare EXCEPT !.objs = obs, !.entries = "ours", !.marker = TRUE, !.box = "running",
                            !.pulled = o.remote, !.files = {"dir", "root"}]
      BY <2>1 DEF obs
    <3>3. obs \subseteq Object
      BY <2>3 DEF obs
    <3> QED BY <1>2, <3>1, <3>2, <3>3 DEF RouterRecord
  <2> QED BY <1>4, <2>4
<1> HIDE DEF Starts
<1>5. Starts /\ legacy \in BOOLEAN
  BY <1>3, <1>4 DEF DeployInit
<1> USE DEF Starts
<1>6. DeployTyped
  <2>1. /\ store = Items /\ runs = 0 /\ failures = 0 /\ operator = 0 /\ lost = FALSE
        /\ turned = FALSE
    BY DEF DeployInit
  <2>2. MaxRuns \in Nat /\ MaxFailures \in Nat /\ MaxOperator \in Nat
    BY DeployAssumption DEF DeployAssumption
  <2>3. /\ runs \in 0 .. MaxRuns /\ failures \in 0 .. MaxFailures /\ operator \in 0 .. MaxOperator
    BY <2>1, <2>2
  <2>4. lost \in BOOLEAN /\ turned \in BOOLEAN /\ store \subseteq Items
    BY <2>1
  <2> QED BY <1>1, <1>5, <2>3, <2>4 DEF DeployTyped
<1>7. TodoFits
  BY <1>1 DEF TodoFits, Installs
<1>8. RecordsOutlive
  BY <1>5 DEF RecordsOutlive
<1>9. Recorded /\ Unopposed /\ Removed
  BY <1>1, <1>5 DEF Recorded, Unopposed, Removed, Idle
<1>10. TarAccounted /\ Unwritten /\ Verified
  BY <1>1, <1>5 DEF TarAccounted, Unwritten, Verified, Idle, Doing
<1> QED
  BY <1>6, <1>7, <1>8, <1>9, <1>10 DEF DeployInv

-----------------------------------------------------------------------------
(* Steps that only read.                                                    *)

\* What no step does to what is not ours.
Untouched ==
  /\ operator' = operator => Foreigns(rt') = Foreigns(rt)
  /\ rt.entries = "theirs" => rt'.entries = "theirs"
  /\ rt.manifest.kind = "theirs" => rt'.manifest = rt.manifest
  /\ store \ OurItems = store' \ OurItems

\* A run ends, and the router is as it was.
LEMMA RunEnds ==
  ASSUME DeployInv, NEW res \in Results, NEW fails \in BOOLEAN,
         run' = [run EXCEPT !.todo = <<>>, !.result = res, !.failed = fails],
         UNCHANGED <<rt, store, runs, operator, turned, legacy>>,
         failures' \in 0 .. MaxFailures, lost' \in BOOLEAN,
         res = "refused" => ~run.wrote,
         "tar" \in rt.files => lost' \/ turned \/ rt.marker,
         res # "clean",
         res = "dirty" =>
           fails \/ (rt.manifest.kind # "ours" /\ "root" \in rt.files /\ rt.box = "none")
  PROVE  DeployInv' /\ Untouched
<1>1. /\ run' \in RunRecord /\ run'.verb = run.verb /\ run'.todo = <<>> /\ run'.result = res
      /\ run'.failed = fails /\ run'.found = run.found /\ run'.wrote = run.wrote
  <2>1. run \in RunRecord /\ <<>> \in Seq(Entry)
    BY DEF DeployInv, DeployTyped
  <2> QED BY <2>1 DEF RunRecord
<1>2. /\ rt' = rt /\ store' = store /\ runs' = runs /\ operator' = operator /\ turned' = turned
      /\ legacy' = legacy
  OBVIOUS
<1>3. DeployTyped'
  BY <1>1, <1>2 DEF DeployInv, DeployTyped
<1>4. TodoFits'
  BY <1>1 DEF TodoFits, Installs, Removes
<1>5. RecordsOutlive'
  BY <1>2 DEF DeployInv, RecordsOutlive
<1>6. Recorded' /\ Removed'
  BY <1>1 DEF Recorded, Removed, Idle
<1>7. Unopposed'
  BY <1>1, <1>2 DEF DeployInv, Unopposed, Idle
<1>8. TarAccounted'
  BY <1>1, <1>2 DEF TarAccounted
<1>9. Unwritten'
  BY <1>1, <1>2 DEF Unwritten, Idle, Doing
<1>10. Verified'
  BY <1>1, <1>2 DEF Verified, Idle, Doing
<1> QED
  BY <1>2, <1>3, <1>4, <1>5, <1>6, <1>7, <1>8, <1>9, <1>10 DEF DeployInv, Untouched

\* A run that installs has read the router and goes on.
LEMMA RunInstalls ==
  ASSUME DeployInv, Doing("read"), run.verb # "uninstall",
         NEW o \in ShapeRecord, NEW todo \in Seq(Entry), Installs(todo),
         run' = [run EXCEPT !.opts = o, !.todo = todo],
         UNCHANGED <<rt, store, runs, failures, operator, lost, turned, legacy>>,
         rt.entries # "theirs",
         todo # <<>> => /\ Head(todo).do \notin {"list", "read"}
                        /\ IF Puts(Head(todo), "manifest") THEN rt.manifest.kind # "theirs"
                           ELSE rt.manifest.kind = "ours"
  PROVE  DeployInv' /\ Untouched
<1>1. /\ run' \in RunRecord /\ run'.verb = run.verb /\ run'.todo = todo /\ run'.result = run.result
      /\ run'.failed = run.failed /\ run'.wrote = run.wrote
  BY DEF DeployInv, DeployTyped, RunRecord
<1>2. /\ rt' = rt /\ store' = store /\ runs' = runs /\ operator' = operator /\ turned' = turned
      /\ legacy' = legacy /\ failures' = failures /\ lost' = lost
  OBVIOUS
<1>3. DeployTyped'
  BY <1>1, <1>2 DEF DeployInv, DeployTyped
<1>4. TodoFits'
  BY <1>1 DEF TodoFits
<1>5. RecordsOutlive'
  BY <1>2 DEF DeployInv, RecordsOutlive
<1>6. Recorded' /\ Removed' /\ Verified'
  BY <1>1, <1>2 DEF Recorded, Removed, Verified, Idle, Doing
<1>7. Unopposed'
  BY <1>1, <1>2 DEF Unopposed, Idle
<1>8. TarAccounted'
  <2>1. ~Puts(Head(run.todo), "container") /\ ~Doing("undo")
    BY DEF Doing, Puts
  <2> QED BY <1>2, <2>1 DEF DeployInv, TarAccounted
<1>9. Unwritten'
  BY <1>1, <1>2 DEF DeployInv, Unwritten, Idle, Doing
<1> QED
  BY <1>2, <1>3, <1>4, <1>5, <1>6, <1>7, <1>8, <1>9 DEF DeployInv, Untouched

\* While a run reads, a tar is one that history or the marker speaks for.
LEMMA ReadTar ==
  ASSUME DeployInv, Doing("read") \/ Doing("list"), "tar" \in rt.files
  PROVE  lost \/ turned \/ rt.marker
BY DEF DeployInv, TarAccounted, Doing, Puts

\* What a run is refused for.
LEMMA ReadRefused ==
  ASSUME DeployInv, Doing("read") \/ Doing("list"),
         run' = [run EXCEPT !.todo = <<>>, !.result = "refused"],
         UNCHANGED <<rt, store, runs, failures, operator, lost, turned, legacy>>
  PROVE  DeployInv' /\ Untouched
<1>1. run \in RunRecord /\ failures \in 0 .. MaxFailures /\ lost \in BOOLEAN
  BY DEF DeployInv, DeployTyped
<1>2. /\ run' = [run EXCEPT !.todo = <<>>, !.result = "refused", !.failed = run.failed]
      /\ run.failed \in BOOLEAN /\ "refused" \in Results
  BY <1>1 DEF RunRecord, Results
<1>3. ~run.wrote
  BY DEF DeployInv, Unwritten
<1>4. "tar" \in rt.files => lost' \/ turned \/ rt.marker
  BY ReadTar
<1>5. failures' \in 0 .. MaxFailures /\ lost' \in BOOLEAN
  BY <1>1
<1> QED
  BY <1>2, <1>3, <1>4, <1>5, RunEnds

\* A manifest of the operator's reads as foreign, one of ours as ours; so
\* does the envlist.
LEMMA ManifestState ==
  ASSUME NEW r \in RouterRecord, NEW o \in ShapeRecord
  PROVE  /\ StateOf(r, o, ManifestStep) = "foreign" <=> r.manifest.kind = "theirs"
         /\ StateOf(r, o, ManifestStep) = "owned" => r.manifest.kind = "ours"
<1>1. r.manifest.kind \in {"none", "ours", "theirs"}
  BY DEF RouterRecord, ManifestRecord
<1>2. ManifestStep.step = "manifest"
  BY DEF ManifestStep, Step
<1>3. /\ Present(r, o, ManifestStep) <=> r.manifest.kind = "ours" /\ r.manifest.shape = o
      /\ Check(r, o, ManifestStep) <=> r.manifest.kind # "none"
      /\ Owned(r, o, ManifestStep) <=> r.manifest.kind = "ours"
  BY <1>2 DEF Present, Check, Owned
<1> QED
  BY <1>1, <1>2, <1>3 DEF StateOf

\* With the operator's envlist there the container step reads as foreign.
LEMMA ContainerState ==
  ASSUME DeployInv, NEW o \in ShapeRecord, StateOf(rt, o, ContainerStep(o)) # "foreign"
  PROVE  rt.entries # "theirs"
<1>1. ContainerStep(o).step = "container"
  BY DEF ContainerStep, Step
<1>2. rt.entries = "theirs" => ~rt.marker /\ rt.box = "none"
  BY DEF DeployInv, Unopposed
<1>3. rt.entries = "theirs" =>
        /\ ~Present(rt, o, ContainerStep(o)) /\ Check(rt, o, ContainerStep(o))
        /\ ~Owned(rt, o, ContainerStep(o))
  BY <1>1, <1>2 DEF Present, Check, Owned
<1> QED
  BY <1>3 DEF StateOf

\* Install goes on only with a script whose first write is the manifest, or
\* under a manifest that is ours already.
LEMMA ReadInstallSteps == DeployInv /\ ReadInstall => DeployInv' /\ Untouched
<1> SUFFICES ASSUME DeployInv, ReadInstall PROVE DeployInv' /\ Untouched
  OBVIOUS
<1> DEFINE o == run.opts
           w == Kept(<<ManifestStep>> \o Objects(o), Unowned(rt, o))
           box == IF ContainerStep(o) \in Unowned(rt, o) THEN CreatesBox(o) ELSE <<>>
<1>1. /\ Doing("read") /\ run.verb = "install" /\ o \in ShapeRecord /\ run \in RunRecord
      /\ rt \in RouterRecord /\ failures \in 0 .. MaxFailures /\ lost \in BOOLEAN
      /\ UNCHANGED <<rt, store, runs, failures, operator, lost, turned, legacy>>
  BY DEF ReadInstall, DeployInv, DeployTyped, RunRecord
<1>2. CASE \E s \in Range(Plan(o)) : StateOf(rt, o, s) = "foreign"
  <2>1. run' = [run EXCEPT !.todo = <<>>, !.result = "refused"]
    BY <1>2 DEF ReadInstall, End
  <2> QED BY <1>1, <2>1, ReadRefused
<1>3. CASE /\ \A s \in Range(Plan(o)) : StateOf(rt, o, s) # "foreign"
           /\ \A s \in Range(Plan(o)) : StateOf(rt, o, s) = "owned"
  <2>1. run' = [run EXCEPT !.todo = <<>>, !.result = "installed"]
    BY <1>3 DEF ReadInstall, End
  <2>2. run' = [run EXCEPT !.todo = <<>>, !.result = "installed", !.failed = run.failed]
    BY <1>1, <2>1 DEF RunRecord
  <2>3. "installed" \in Results /\ run.failed \in BOOLEAN
    BY <1>1 DEF Results, RunRecord
  <2>4. "tar" \in rt.files => lost' \/ turned \/ rt.marker
    BY <1>1, ReadTar
  <2> QED BY <1>1, <2>2, <2>3, <2>4, RunEnds
<1>4. CASE /\ \A s \in Range(Plan(o)) : StateOf(rt, o, s) # "foreign"
           /\ ~(\A s \in Range(Plan(o)) : StateOf(rt, o, s) = "owned")
  <2>1. run' = [run EXCEPT !.todo = Creates(w) \o box]
    BY <1>4 DEF ReadInstall, GoOn
  <2>2. run' = [run EXCEPT !.opts = o, !.todo = Creates(w) \o box]
    BY <1>1, <2>1 DEF RunRecord
  <2>3. /\ w \in Seq(PlanStep)
        /\ \A n \in 1 .. Len(w) : n > 1 => w[n] # ManifestStep
        /\ ManifestStep \in Unowned(rt, o) => w # <<>> /\ w[1] = ManifestStep
    BY <1>1, ListedShape
  <2> HIDE DEF w, o
  <2>4. /\ Creates(w) \in Seq(Entry) /\ Len(Creates(w)) = Len(w)
        /\ \A n \in 1 .. Len(w) : Creates(w)[n] = Do("create", w[n])
        /\ Installs(Creates(w)) /\ \A n \in 1 .. Len(w) : Creates(w)[n].do # "upload"
    BY <2>3, CreatesFit
  <2>5. /\ box \in Seq(Entry) /\ Installs(box)
        /\ \A n \in 1 .. Len(box) : /\ box[n].do \in {"create", "upload"}
                                    /\ ~Puts(box[n], "manifest")
    <3>1. /\ CreatesBox(o) \in Seq(Entry) /\ Installs(CreatesBox(o))
          /\ \A n \in 1 .. Len(CreatesBox(o)) :
               /\ CreatesBox(o)[n].do \in {"create", "upload"}
               /\ ~Puts(CreatesBox(o)[n], "manifest")
      BY <1>1, CreatesBoxFit
    <3>2. <<>> \in Seq(Entry) /\ Len(<<>>) = 0 /\ 1 .. 0 = {}
      OBVIOUS
    <3>3. Installs(<<>>)
      BY <3>2 DEF Installs
    <3> QED BY <3>1, <3>2, <3>3
  <2> HIDE DEF box
  <2>6. Creates(w) \o box \in Seq(Entry) /\ Installs(Creates(w) \o box)
    BY <2>4, <2>5, InstallsConcat
  <2> DEFINE todo == Creates(w) \o box
  <2>7. ASSUME todo # <<>>
        PROVE  /\ Head(todo) = IF w # <<>> THEN Do("create", w[1]) ELSE box[1]
               /\ w = <<>> => 1 \in 1 .. Len(box)
               /\ w # <<>> => w[1] \in PlanStep
    <3>1. /\ Len(todo) = Len(Creates(w)) + Len(box)
          /\ \A n \in 1 .. Len(Creates(w)) : todo[n] = Creates(w)[n]
          /\ \A n \in (Len(Creates(w)) + 1) .. (Len(Creates(w)) + Len(box)) :
               todo[n] = box[n - Len(Creates(w))]
      <4>1. Creates(w) \in Seq(Entry) /\ box \in Seq(Entry)
        BY <2>4, <2>5
      <4> QED BY <4>1, ConcatShape
    <3>2. Len(w) \in Nat /\ Len(box) \in Nat /\ (w = <<>> <=> Len(w) = 0)
          /\ (w # <<>> => w[1] \in PlanStep)
      BY <2>3, <2>5
    <3>3. Len(todo) > 0 /\ Head(todo) = todo[1]
      BY <2>6, <2>7
    <3> HIDE DEF todo
    <3>4. CASE w = <<>>
      <4>1. Len(Creates(w)) = 0 /\ 1 \in 1 .. Len(box)
        BY <2>4, <3>1, <3>2, <3>3, <3>4
      <4>2. 1 \in (Len(Creates(w)) + 1) .. (Len(Creates(w)) + Len(box)) /\ 1 - Len(Creates(w)) = 1
        BY <3>2, <4>1
      <4>3. todo[1] = box[1 - Len(Creates(w))]
        BY <3>1, <4>2
      <4> QED BY <3>3, <3>4, <4>1, <4>2, <4>3
    <3>5. CASE w # <<>>
      <4>1. 1 \in 1 .. Len(w) /\ 1 \in 1 .. Len(Creates(w))
        BY <2>4, <3>2, <3>5
      <4>2. todo[1] = Do("create", w[1])
        BY <2>4, <3>1, <4>1
      <4> QED BY <3>2, <3>3, <3>5, <4>2
    <3> QED BY <3>4, <3>5
  <2> HIDE DEF todo
  <2>8. StateOf(rt, o, ManifestStep) # "foreign" /\ StateOf(rt, o, ContainerStep(o)) # "foreign"
    BY <1>1, <1>4, PlanShape DEF o
  <2>9. ManifestStep \notin Unowned(rt, o) => StateOf(rt, o, ManifestStep) = "owned"
    BY <1>1, PlanShape DEF Unowned, o
  <2>10. ASSUME todo # <<>>
         PROVE  /\ Head(todo).do \notin {"list", "read"}
                /\ IF Puts(Head(todo), "manifest") THEN rt.manifest.kind # "theirs"
                   ELSE rt.manifest.kind = "ours"
    <3>1. CASE ManifestStep \in Unowned(rt, o)
      <4>1. Head(todo) = Do("create", ManifestStep)
        BY <2>3, <2>7, <2>10, <3>1
      <4>2. Puts(Head(todo), "manifest") /\ Head(todo).do = "create"
        BY <4>1 DEF Puts, Do, ManifestStep, Step
      <4> QED BY <1>1, <2>8, <4>2, ManifestState
    <3>2. CASE ManifestStep \notin Unowned(rt, o)
      <4>1. rt.manifest.kind = "ours"
        BY <1>1, <2>9, <3>2, ManifestState
      <4>2. Head(todo).do \in {"create", "upload"}
        <5>1. \A s : Do("create", s).do = "create"
          BY DEF Do
        <5> QED BY <2>5, <2>7, <2>10, <5>1
      <4> QED BY <4>1, <4>2
    <3> QED BY <3>1, <3>2
  <2>11. rt.entries # "theirs"
    BY <1>1, <2>8, ContainerState
  <2> QED BY <1>1, <2>2, <2>6, <2>10, <2>11, RunInstalls DEF todo, o
<1> QED
  BY <1>2, <1>3, <1>4

\* The script starts with the manifest, and its guards keep it off a router
\* where that is the operator's.
LEMMA ReadScriptSteps == DeployInv /\ ReadScript => DeployInv' /\ Untouched
<1> SUFFICES ASSUME DeployInv, ReadScript PROVE DeployInv' /\ Untouched
  OBVIOUS
<1> DEFINE o == run.opts
           no == \/ Foreign(Step("veth", <<o.veth>>)) \in rt.objs
                    /\ Ours(Step("veth", <<o.veth>>)) \notin rt.objs
                 \/ rt.entries # "none" /\ ~rt.marker
                 \/ ~o.remote /\ "tar" \notin rt.files
                 \/ rt.manifest.kind = "theirs"
<1>1. /\ Doing("read") /\ run.verb = "script" /\ o \in ShapeRecord /\ run \in RunRecord
      /\ UNCHANGED <<rt, store, runs, failures, operator, lost, turned, legacy>>
  BY DEF ReadScript, DeployInv, DeployTyped, RunRecord
<1>2. CASE no
  <2>1. run' = [run EXCEPT !.todo = <<>>, !.result = "refused"]
    BY <1>2 DEF ReadScript, End
  <2> QED BY <1>1, <2>1, ReadRefused
<1>3. CASE ~no
  <2>1. run' = [run EXCEPT !.todo = Creates(Plan(o))]
    BY <1>3 DEF ReadScript, GoOn
  <2>2. run' = [run EXCEPT !.opts = o, !.todo = Creates(Plan(o))]
    BY <1>1, <2>1 DEF RunRecord
  <2>3. rt.manifest.kind # "theirs" /\ rt.entries # "theirs"
    BY <1>3 DEF DeployInv, Unopposed
  <2> HIDE DEF o, no
  <2>4. /\ Plan(o) \in Seq(PlanStep) /\ Plan(o) # <<>> /\ Plan(o)[1] = ManifestStep
        /\ \A n \in 1 .. Len(Plan(o)) : n > 1 => Plan(o)[n] # ManifestStep
    BY <1>1, PlanShape, ScriptShape
  <2> DEFINE todo == Creates(Plan(o))
  <2>5. /\ todo \in Seq(Entry) /\ Len(todo) = Len(Plan(o)) /\ Installs(todo)
        /\ \A n \in 1 .. Len(Plan(o)) : todo[n] = Do("create", Plan(o)[n])
    BY <2>4, CreatesFit
  <2> HIDE DEF todo
  <2>6. Head(todo) = Do("create", ManifestStep)
    <3>1. 1 \in 1 .. Len(Plan(o))
      BY <2>4
    <3> QED BY <2>4, <2>5, <3>1
  <2>7. Head(todo).do \notin {"list", "read"} /\ Puts(Head(todo), "manifest")
    BY <2>6 DEF Puts, Do, ManifestStep, Step
  <2> QED BY <1>1, <2>2, <2>3, <2>5, <2>7, RunInstalls DEF todo, o
<1> QED
  BY <1>2, <1>3

\* Upgrade writes the manifest first too, under the shape it adopted.
LEMMA ReadUpgradeSteps == DeployInv /\ ReadUpgrade => DeployInv' /\ Untouched
<1> SUFFICES ASSUME DeployInv, ReadUpgrade PROVE DeployInv' /\ Untouched
  OBVIOUS
<1> DEFINE o == Adopted(rt, run.opts, "upgrade")
           no == \/ run.strict /\ Contradicted(rt, run.opts)
                 \/ rt.box = "none"
                 \/ \E s \in Range(Plan(o)) : StateOf(rt, o, s) = "foreign"
<1>1. /\ Doing("read") /\ run.verb = "upgrade" /\ run.opts \in ShapeRecord /\ rt \in RouterRecord
      /\ UNCHANGED <<rt, store, runs, failures, operator, lost, turned, legacy>>
  BY DEF ReadUpgrade, DeployInv, DeployTyped, RunRecord
<1>2. o \in ShapeRecord
  BY <1>1, AdoptedTyped
<1>3. CASE no
  <2>1. run' = [run EXCEPT !.todo = <<>>, !.result = "refused"]
    BY <1>3 DEF ReadUpgrade, End
  <2> QED BY <1>1, <2>1, ReadRefused
<1>4. CASE ~no
  <2>1. run' = [run EXCEPT !.opts = o, !.todo = Replacement(o)]
    BY <1>4 DEF ReadUpgrade
  <2>2. rt.entries # "theirs"
    BY <1>4 DEF DeployInv, Unopposed
  <2>3. ManifestStep \in Range(Plan(o))
    BY <1>2, PlanShape
  <2>4. StateOf(rt, o, ManifestStep) # "foreign"
    BY <1>4, <2>3
  <2> HIDE DEF o, no
  <2>5. rt.manifest.kind # "theirs"
    BY <1>1, <1>2, <2>4, ManifestState
  <2>6. /\ Replacement(o) \in Seq(Entry) /\ Installs(Replacement(o))
        /\ Head(Replacement(o)) = Do("create", ManifestStep)
    BY <1>2, ReplacementFits
  <2> DEFINE todo == Replacement(o)
  <2>7. Head(todo).do \notin {"list", "read"} /\ Puts(Head(todo), "manifest")
    BY <2>6 DEF Puts, Do, ManifestStep, Step
  <2> HIDE DEF todo
  <2> QED BY <1>1, <1>2, <2>1, <2>2, <2>5, <2>6, <2>7, RunInstalls DEF todo
<1> QED
  BY <1>3, <1>4

\* Uninstall goes on with its stages in order, from the second.
LEMMA ReadUninstallSteps == DeployInv /\ ReadUninstall => DeployInv' /\ Untouched
<1> SUFFICES ASSUME DeployInv, ReadUninstall PROVE DeployInv' /\ Untouched
  OBVIOUS
<1> DEFINE o == Resolved(rt, Adopted(rt, run.opts, "uninstall"))
           no == run.strict /\ ShapeFound(rt) /\ Contradicted(rt, run.opts)
<1>1. /\ Doing("read") /\ run.verb = "uninstall" /\ run \in RunRecord /\ rt \in RouterRecord
      /\ rt' = rt /\ store' = store /\ runs' = runs /\ failures' = failures
      /\ operator' = operator /\ lost' = lost /\ turned' = turned /\ legacy' = legacy
  BY DEF ReadUninstall, DeployInv, DeployTyped
<1>2. o \in ShapeRecord
  <2>1. Adopted(rt, run.opts, "uninstall") \in ShapeRecord
    BY <1>1, AdoptedTyped DEF RunRecord
  <2> QED BY <1>1, <2>1 DEF Resolved, RouterRecord, ManifestRecord
<1>3. CASE no
  <2>1. run' = [run EXCEPT !.todo = <<>>, !.result = "refused"]
    BY <1>3 DEF ReadUninstall, End
  <2> QED BY <1>1, <2>1, ReadRefused
<1>4. CASE ~no
  <2>1. run' = [run EXCEPT !.opts = o, !.todo = Removal(o)]
    BY <1>4 DEF ReadUninstall
  <2> HIDE DEF o, no
  <2>2. /\ Removal(o) \in Seq(Entry) /\ Removal(o) # <<>> /\ Removes(Removal(o))
        /\ Head(Removal(o)) = Do("remove", ContainerStep(o))
    BY <1>2, RemovalFits
  <2> DEFINE todo == Removal(o)
  <2> HIDE DEF todo
  <2>3. /\ run' \in RunRecord /\ run'.verb = "uninstall" /\ run'.todo = todo /\ todo # <<>>
        /\ run'.result = run.result /\ run'.wrote = run.wrote /\ run'.failed = run.failed
        /\ Removes(todo)
    BY <1>1, <1>2, <2>1, <2>2 DEF RunRecord, todo
  <2>4. Head(todo).do = "remove" /\ Stage(Head(todo)) = 2
    BY <2>2 DEF todo, Do, ContainerStep, Step, Stage
  <2>5. DeployTyped'
    BY <1>1, <2>3 DEF DeployInv, DeployTyped
  <2>6. TodoFits' /\ Recorded' /\ RecordsOutlive'
    BY <1>1, <2>3 DEF DeployInv, TodoFits, Recorded, RecordsOutlive
  <2>7. Unopposed'
    BY <1>1, <2>3, <2>4 DEF DeployInv, Unopposed, Idle, Puts
  <2>8. TarAccounted'
    <3>1. "tar" \in rt.files => lost \/ turned \/ rt.marker
      BY <1>1, ReadTar
    <3> QED BY <1>1, <3>1 DEF TarAccounted
  <2>9. run.result = "none"
    BY <1>1 DEF DeployInv, Unwritten, Idle, Doing
  <2>10. Unwritten'
    BY <1>1, <2>3, <2>4, <2>9 DEF Unwritten, Idle, Doing
  <2>11. Removed'
    BY <2>3, <2>4 DEF Removed
  <2>12. Verified'
    BY <2>3, <2>4, <2>9 DEF Verified, Idle, Doing
  <2> QED BY <1>1, <2>5, <2>6, <2>7, <2>8, <2>10, <2>11, <2>12 DEF DeployInv, Untouched
<1> QED
  BY <1>3, <1>4

\* The listing of the stores takes only what bears this project's names.
LEMMA ListSteps == DeployInv /\ ListTargets => DeployInv' /\ Untouched
<1> SUFFICES ASSUME DeployInv, ListTargets PROVE DeployInv' /\ Untouched
  OBVIOUS
<1>1. /\ Doing("list") /\ run \in RunRecord
      /\ rt' = rt /\ store' = store /\ runs' = runs /\ failures' = failures
      /\ operator' = operator /\ lost' = lost /\ turned' = turned /\ legacy' = legacy
  BY DEF ListTargets, DeployInv, DeployTyped
<1>2. PICK wanted \in BOOLEAN : run' = [run EXCEPT !.found = Bears(wanted), !.todo = Tail(@)]
  BY DEF ListTargets
<1>3. Bears(wanted) \subseteq OurItems
  BY DEF Bears
<1> DEFINE todo == run.todo
<1>4. todo \in Seq(Entry) /\ todo # <<>> /\ Head(todo).do = "list"
  BY <1>1 DEF RunRecord, Doing
<1>5. run.verb = "uninstall" /\ Removes(todo)
  <2>1. Installs(todo) => Installing(Head(todo))
    BY <1>4, TailFits
  <2>2. ~Installing(Head(todo))
    BY <1>4 DEF Installing
  <2> QED BY <2>1, <2>2 DEF DeployInv, TodoFits
<1> DEFINE t == Tail(todo)
<1>6. /\ t \in Seq(Entry) /\ Removes(t)
      /\ t # <<>> => Stage(Head(t)) = 1
  <2>1. Stage(Head(todo)) = 0
    BY <1>4 DEF Stage
  <2>2. /\ t \in Seq(Entry) /\ Removes(t)
        /\ t # <<>> => \/ Stage(Head(t)) = Stage(Head(todo)) + 1
                       \/ Stage(Head(t)) = 3 /\ Stage(Head(todo)) = 3
    BY <1>4, <1>5, TailFits
  <2> QED BY <2>1, <2>2
<1>7. /\ run' \in RunRecord /\ run'.verb = "uninstall" /\ run'.todo = t
      /\ run'.result = run.result /\ run'.wrote = run.wrote /\ run'.failed = run.failed
  <2> HIDE DEF todo
  <2>1. run' = [run EXCEPT !.found = Bears(wanted), !.todo = t]
    BY <1>1, <1>2 DEF todo, RunRecord
  <2> HIDE DEF t
  <2> QED BY <1>1, <1>3, <1>5, <1>6, <2>1 DEF RunRecord
<1>8. run.result = "none" /\ ~run.wrote
  BY <1>1 DEF DeployInv, Unwritten, Idle, Doing
<1> HIDE DEF todo, t
<1>9. t # <<>> => Head(t).do \notin {"drop", "create", "undo"}
  BY <1>6 DEF Stage
<1>10. DeployTyped'
  BY <1>1, <1>7 DEF DeployInv, DeployTyped
<1>11. TodoFits' /\ Recorded' /\ RecordsOutlive'
  BY <1>1, <1>6, <1>7 DEF DeployInv, TodoFits, Recorded, RecordsOutlive
<1>12. Unopposed'
  BY <1>1, <1>7, <1>9 DEF DeployInv, Unopposed, Idle, Puts
<1>13. TarAccounted'
  <2>1. "tar" \in rt.files => lost \/ turned \/ rt.marker
    BY <1>1, ReadTar
  <2> QED BY <1>1, <2>1 DEF TarAccounted
<1>14. Unwritten'
  BY <1>1, <1>7, <1>8 DEF Unwritten, Idle
<1>15. Removed'
  BY <1>6, <1>7 DEF Removed, Idle
<1>16. Verified'
  BY <1>7, <1>8, <1>9 DEF Verified, Idle, Doing
<1> QED
  BY <1>1, <1>10, <1>11, <1>12, <1>13, <1>14, <1>15, <1>16 DEF DeployInv, Untouched

\* A command starts with its reads, having written nothing.
LEMMA BeginSteps == DeployInv /\ Begin => DeployInv' /\ Untouched
<1> SUFFICES ASSUME DeployInv, Begin PROVE DeployInv' /\ Untouched
  OBVIOUS
<1>1. /\ Idle /\ run \in RunRecord
      /\ rt' = rt /\ store' = store /\ failures' = failures
      /\ operator' = operator /\ lost' = lost /\ turned' = turned /\ legacy' = legacy
      /\ runs' = runs + 1 /\ runs < MaxRuns
  BY DEF Begin, DeployInv, DeployTyped
<1>2. PICK v \in {"install", "upgrade", "uninstall", "script"}, o \in Shapes, strict \in BOOLEAN :
        run' = [NoRun EXCEPT !.verb = v, !.opts = o, !.strict = strict, !.todo = Opening(v)]
  BY DEF Begin
<1> DEFINE list == Do("list", NoStep)
           read == Do("read", NoStep)
           todo == Opening(v)
<1>3. /\ list \in Entry /\ list.do = "list" /\ Stage(list) = 0 /\ Removing(list)
      /\ read \in Entry /\ read.do = "read" /\ Stage(read) = 1 /\ Removing(read) /\ Installing(read)
  BY DEF Do, NoStep, Step, Entry, AnyStep, Stage, Removing, Installing
<1>4. todo = IF v = "uninstall" THEN <<list, read>> ELSE <<read>>
  <2>1. <<>> \o <<read>> = <<read>> /\ <<list>> \o <<read>> = <<list, read>>
    BY <1>3, OneTwo
  <2>2. todo = (IF v = "uninstall" THEN <<list>> ELSE <<>>) \o <<read>>
    BY DEF Opening
  <2> HIDE DEF todo, list, read
  <2> QED BY <2>1, <2>2
<1> HIDE DEF todo, list, read
<1>5. /\ todo \in Seq(Entry) /\ todo # <<>>
      /\ Head(todo) = IF v = "uninstall" THEN list ELSE read
      /\ IF v = "uninstall" THEN Removes(todo) ELSE Installs(todo)
  <2>1. CASE v = "uninstall"
    <3>1. todo = <<list, read>>
      BY <1>4, <2>1
    <3>2. todo \in Seq(Entry) /\ Len(todo) = 2 /\ todo[1] = list /\ todo[2] = read
      BY <1>3, <3>1, OneTwo
    <3>3. \A n \in 1 .. 2 : n = 1 \/ n = 2
      OBVIOUS
    <3>4. Removes(todo)
      BY <1>3, <3>2, <3>3 DEF Removes
    <3>5. todo # <<>> /\ Head(todo) = list
      <4> HIDE DEF todo
      <4>1. Head(todo) = todo[1]
        BY <3>2
      <4> QED BY <3>2, <4>1
    <3> QED BY <2>1, <3>2, <3>4, <3>5
  <2>2. CASE v # "uninstall"
    <3>1. todo = <<read>>
      BY <1>4, <2>2
    <3>2. todo \in Seq(Entry) /\ Len(todo) = 1 /\ todo[1] = read
      BY <1>3, <3>1, OneTwo
    <3>3. Installs(todo)
      BY <1>3, <3>2 DEF Installs
    <3> QED BY <2>2, <3>2, <3>3
  <2> QED BY <2>1, <2>2
<1>6. /\ run' \in RunRecord /\ run'.verb = v /\ run'.todo = todo /\ run'.result = "none"
      /\ run'.wrote = FALSE
  <2>1. NoRun = [verb |-> "none", opts |-> CHOOSE x \in Shapes : TRUE, strict |-> FALSE,
                 todo |-> <<>>, found |-> {}, wrote |-> FALSE, failed |-> FALSE,
                 result |-> "none"]
    BY DEF NoRun
  <2>2. <<>> \in Seq(Entry) /\ o \in ShapeRecord
    BY DeployAssumption DEF DeployAssumption
  <2>3. NoRun \in RunRecord /\ NoRun.result = "none" /\ NoRun.wrote = FALSE
    BY <2>1, <2>2, NoManifestTyped DEF RunRecord, Verbs, Results
  <2>4. run' = [NoRun EXCEPT !.verb = v, !.opts = o, !.strict = strict, !.todo = todo]
    BY <1>2 DEF todo
  <2>5. v \in Verbs
    BY DEF Verbs
  <2> QED BY <1>5, <2>2, <2>3, <2>4, <2>5 DEF RunRecord
<1>7. Head(todo).do \in {"list", "read"} /\ Stage(Head(todo)) <= 1
  BY <1>3, <1>5
<1>8. DeployTyped'
  <2>1. runs' \in 0 .. MaxRuns
    BY <1>1, DeployAssumption DEF DeployAssumption, DeployInv, DeployTyped
  <2> QED BY <1>1, <1>6, <2>1 DEF DeployInv, DeployTyped
<1>9. TodoFits' /\ RecordsOutlive'
  BY <1>1, <1>5, <1>6 DEF DeployInv, TodoFits, RecordsOutlive
<1>10. Recorded'
  BY <1>3, <1>5, <1>6 DEF Recorded, Idle, Doing
<1>11. Unopposed'
  <2>1. ~Puts(Head(todo), "manifest")
    BY <1>7 DEF Puts
  <2>2. v # "uninstall" => Head(todo).do = "read"
    BY <1>3, <1>5
  <2> QED BY <1>1, <1>5, <1>6, <2>1, <2>2 DEF DeployInv, Unopposed, Idle, Doing
<1>12. TarAccounted'
  BY <1>1 DEF DeployInv, TarAccounted
<1>13. Unwritten'
  BY <1>6 DEF Unwritten
<1>14. Removed'
  BY <1>3, <1>5, <1>6 DEF Removed
<1>15. Verified'
  BY <1>5, <1>6, <1>7 DEF Verified, Idle, Doing
<1> QED
  BY <1>1, <1>8, <1>9, <1>10, <1>11, <1>12, <1>13, <1>14, <1>15 DEF DeployInv, Untouched

\* A read that fails ends a run that has written nothing.
LEMMA ReadFailsSteps == DeployInv /\ ReadFails => DeployInv' /\ Untouched
<1> SUFFICES ASSUME DeployInv, ReadFails PROVE DeployInv' /\ Untouched
  OBVIOUS
<1>1. /\ Doing("read") \/ Doing("list")
      /\ run' = [run EXCEPT !.todo = <<>>, !.result = "refused", !.failed = TRUE]
      /\ UNCHANGED <<rt, store, runs, operator, lost, turned, legacy>>
  BY DEF ReadFails
<1>2. failures' \in 0 .. MaxFailures /\ lost' \in BOOLEAN
  <2>1. failures < MaxFailures /\ failures' = failures + 1 /\ lost' = lost
    BY DEF ReadFails, Fails
  <2> QED BY <2>1, DeployAssumption DEF DeployAssumption, DeployInv, DeployTyped
<1>3. ~run.wrote
  BY <1>1 DEF DeployInv, Unwritten
<1>4. "tar" \in rt.files => lost' \/ turned \/ rt.marker
  BY <1>1, ReadTar
<1>5. "refused" \in Results
  BY DEF Results
<1> QED
  BY <1>1, <1>2, <1>3, <1>4, <1>5, RunEnds

\* A run killed anywhere leaves the router as the last line left it.
LEMMA KilledSteps == DeployInv /\ Killed => DeployInv' /\ Untouched
<1> SUFFICES ASSUME DeployInv, Killed PROVE DeployInv' /\ Untouched
  OBVIOUS
<1>1. /\ run' = [run EXCEPT !.todo = <<>>, !.result = "killed", !.failed = TRUE]
      /\ UNCHANGED <<rt, store, runs, operator, turned, legacy>>
  BY DEF Killed
<1>2. failures' \in 0 .. MaxFailures /\ lost' \in BOOLEAN
  <2>1. failures < MaxFailures /\ failures' = failures + 1
    BY DEF Killed, Fails
  <2>2. lost' = (lost \/ "tar" \in rt.files)
    BY DEF Killed
  <2> QED BY <2>1, <2>2, DeployAssumption DEF DeployAssumption, DeployInv, DeployTyped
<1>3. "tar" \in rt.files => lost' \/ turned \/ rt.marker
  BY DEF Killed
<1>4. "killed" \in Results
  BY DEF Results
<1> QED
  BY <1>1, <1>2, <1>3, <1>4, RunEnds

-----------------------------------------------------------------------------
(* Steps of the router and of the operator.                                 *)

\* The container that is gone may leave its root, and no tag.
LEMMA GoneSteps == DeployInv /\ Gone => DeployInv' /\ Untouched
<1> SUFFICES ASSUME DeployInv, Gone PROVE DeployInv' /\ Untouched
  OBVIOUS
<1>1. /\ rt.box = "removing" /\ rt \in RouterRecord
      /\ store' = store /\ run' = run /\ runs' = runs /\ failures' = failures
      /\ operator' = operator /\ lost' = lost /\ turned' = turned /\ legacy' = legacy
  BY DEF Gone, DeployInv, DeployTyped
<1>2. PICK left \in SUBSET (rt.files \cap {"root"}) :
        rt' = [rt EXCEPT !.box = "none", !.files = (@ \ {"root"}) \cup left]
  BY DEF Gone
<1>3. /\ rt' \in RouterRecord /\ rt'.objs = rt.objs /\ rt'.entries = rt.entries
      /\ rt'.marker = rt.marker /\ rt'.manifest = rt.manifest
      /\ "tar" \in rt'.files => "tar" \in rt.files
  BY <1>1, <1>2 DEF RouterRecord
<1>4. Tagged(rt) /\ rt.entries # "theirs"
  BY <1>1 DEF DeployInv, Unopposed, Tagged
<1>5. DeployTyped' /\ TodoFits'
  BY <1>1, <1>3 DEF DeployInv, DeployTyped, TodoFits
<1>6. RecordsOutlive'
  BY <1>1, <1>3, <1>4 DEF DeployInv, RecordsOutlive
<1>7. Recorded'
  BY <1>1, <1>3 DEF DeployInv, Recorded, Idle, Doing
<1>8. Unopposed'
  BY <1>1, <1>3, <1>4 DEF DeployInv, Unopposed, Idle
<1>9. TarAccounted'
  BY <1>1, <1>3 DEF DeployInv, TarAccounted, Idle, Doing
<1>10. Unwritten'
  BY <1>1 DEF DeployInv, Unwritten, Idle, Doing
<1>11. Removed'
  <2>1. run.verb = "uninstall" /\ ~run.failed /\ ~Idle => ~(Stage(Head(run.todo)) > 2)
    BY <1>1 DEF DeployInv, Removed
  <2>2. ~Idle => Stage(Head(run.todo)) \in 0 .. 8
    BY DEF Stage
  <2>3. ~Idle /\ ~(Stage(Head(run.todo)) > 2) =>
          ~(Stage(Head(run.todo)) > 4) /\ ~(Stage(Head(run.todo)) > 5)
    BY <2>2
  <2> QED BY <1>1, <2>1, <2>3 DEF Removed, Idle
<1>12. Verified'
  BY <1>1, <1>4 DEF DeployInv, Verified, Idle, Doing
<1>13. Foreigns(rt') = Foreigns(rt)
  BY <1>3 DEF Foreigns
<1> QED
  BY <1>1, <1>3, <1>5, <1>6, <1>7, <1>8, <1>9, <1>10, <1>11, <1>12, <1>13 DEF DeployInv, Untouched

\* What the operator does takes no record away; a tar of his is history's.
LEMMA OperatesSteps == DeployInv /\ Operates => DeployInv' /\ Untouched
<1> SUFFICES ASSUME DeployInv, Operates PROVE DeployInv' /\ Untouched
  OBVIOUS
<1>1. /\ rt \in RouterRecord /\ operator < MaxOperator /\ operator' = operator + 1
      /\ store' = store /\ run' = run /\ runs' = runs /\ failures' = failures
      /\ turned' = turned /\ legacy' = legacy
      /\ lost' = (lost \/ rt'.files # rt.files)
  BY DEF Operates, DeployInv, DeployTyped
<1>2. /\ rt' \in RouterRecord /\ rt'.entries = rt.entries /\ rt'.marker = rt.marker
      /\ rt'.box = rt.box /\ rt'.manifest = rt.manifest
      /\ TaggedObjects(rt') \subseteq TaggedObjects(rt)
      /\ "root" \in rt'.files <=> "root" \in rt.files
      /\ "dir" \in rt'.files <=> "dir" \in rt.files
  <2>1. CASE \E s \in Theirs : rt' = [rt EXCEPT !.objs = @ \cup {Foreign(s)}]
    <3>1. PICK s \in Theirs : rt' = [rt EXCEPT !.objs = @ \cup {Foreign(s)}]
      BY <2>1
    <3> DEFINE ob == Foreign(s)
    <3>2. IsStep(s)
      BY DeployAssumption DEF DeployAssumption
    <3>3. ob \in Object /\ ob.tag = "theirs"
      BY <3>2 DEF Foreign, Object, IsStep, Step
    <3>4. rt' = [rt EXCEPT !.objs = @ \cup {ob}]
      BY <3>1
    <3> HIDE DEF ob
    <3>5. /\ rt' \in RouterRecord /\ rt'.entries = rt.entries /\ rt'.marker = rt.marker
          /\ rt'.box = rt.box /\ rt'.manifest = rt.manifest /\ rt'.files = rt.files
          /\ rt'.objs = rt.objs \cup {ob}
      BY <1>1, <3>3, <3>4 DEF RouterRecord
    <3> QED BY <3>3, <3>5 DEF TaggedObjects
  <2>2. CASE \E ob \in rt.objs : rt' = [rt EXCEPT !.objs = @ \ {ob}]
    <3>1. /\ rt' \in RouterRecord /\ rt'.entries = rt.entries /\ rt'.marker = rt.marker
          /\ rt'.box = rt.box /\ rt'.manifest = rt.manifest /\ rt'.files = rt.files
          /\ rt'.objs \subseteq rt.objs
      BY <1>1, <2>2 DEF RouterRecord
    <3> QED BY <3>1 DEF TaggedObjects
  <2>3. CASE rt' = [rt EXCEPT !.files = @ \cup {"tar"}]
    <3>1. /\ rt' \in RouterRecord /\ rt'.entries = rt.entries /\ rt'.marker = rt.marker
          /\ rt'.box = rt.box /\ rt'.manifest = rt.manifest
          /\ rt'.files = rt.files \cup {"tar"} /\ rt'.objs = rt.objs
      BY <1>1, <2>3 DEF RouterRecord
    <3> QED BY <3>1 DEF TaggedObjects
  <2> QED BY <2>1, <2>2, <2>3 DEF Operates
<1>3. Tagged(rt') => Tagged(rt)
  BY <1>2 DEF Tagged
<1>4. DeployTyped'
  <2>1. operator' \in 0 .. MaxOperator
    BY <1>1, DeployAssumption DEF DeployAssumption, DeployInv, DeployTyped
  <2> QED BY <1>1, <1>2, <2>1 DEF DeployInv, DeployTyped
<1>5. TodoFits' /\ RecordsOutlive'
  BY <1>1, <1>2, <1>3 DEF DeployInv, TodoFits, RecordsOutlive
<1>6. Recorded' /\ Unopposed'
  BY <1>1, <1>2 DEF DeployInv, Recorded, Unopposed, Idle, Doing
<1>7. TarAccounted'
  BY <1>1, <1>2 DEF DeployInv, TarAccounted, Idle, Doing
<1>8. Unwritten'
  BY <1>1 DEF DeployInv, Unwritten, Idle, Doing
<1>9. Removed'
  <2>1. DirEmpty(rt') <=> DirEmpty(rt)
    BY <1>2 DEF DirEmpty
  <2>2. Removed
    BY DEF DeployInv
  <2>3. TaggedObjects(rt) = {} => TaggedObjects(rt') = {}
    BY <1>2
  <2> QED BY <1>1, <1>2, <2>1, <2>2, <2>3 DEF Removed, Idle
<1>10. Verified'
  BY <1>1, <1>2, <1>3 DEF DeployInv, Verified, Idle, Doing
<1>11. operator' # operator
  BY <1>1 DEF DeployInv, DeployTyped
<1> QED
  BY <1>1, <1>2, <1>4, <1>5, <1>6, <1>7, <1>8, <1>9, <1>10, <1>11 DEF DeployInv, Untouched

-----------------------------------------------------------------------------
(* Steps of a run that write, one kind at a time.                           *)

\* An upload: the container step that signs for it is next.
LEMMA UploadSteps == DeployInv /\ Upload => DeployInv' /\ Untouched
<1> SUFFICES ASSUME DeployInv, Upload PROVE DeployInv' /\ Untouched
  OBVIOUS
<1> DEFINE todo == run.todo
           t == Tail(todo)
<1>1. /\ rt \in RouterRecord /\ run \in RunRecord /\ todo \in Seq(Entry) /\ todo # <<>>
      /\ Head(todo).do = "upload" /\ lost \in BOOLEAN
      /\ store' = store /\ runs' = runs /\ operator' = operator /\ turned' = turned
      /\ legacy' = legacy
  BY DEF Upload, DeployInv, DeployTyped, RunRecord, Doing
<1>2. run.verb # "uninstall" /\ Installs(todo)
  <2>1. Removes(todo) => Removing(Head(todo))
    BY <1>1, TailFits
  <2>2. ~Removing(Head(todo))
    BY <1>1 DEF Removing
  <2> QED BY <2>1, <2>2 DEF DeployInv, TodoFits
<1>3. rt.manifest.kind = "ours" /\ rt.entries # "theirs"
  <2>1. ~Idle /\ ~Doing("read") /\ ~Puts(Head(todo), "manifest")
    BY <1>1 DEF Idle, Doing, Puts
  <2> QED BY <1>2, <2>1 DEF DeployInv, Recorded, Unopposed
<1>4. /\ rt' \in {rt, [rt EXCEPT !.files = @ \cup {"tar"}]}
  BY DEF Upload
<1>5. /\ rt' \in RouterRecord /\ rt'.objs = rt.objs /\ rt'.entries = rt.entries
      /\ rt'.marker = rt.marker /\ rt'.box = rt.box /\ rt'.manifest = rt.manifest
  BY <1>1, <1>4 DEF RouterRecord
<1>6. RecordsOutlive'
  <2>1. Tagged(rt') <=> Tagged(rt)
    BY <1>5 DEF Tagged, TaggedObjects
  <2> QED BY <1>1, <1>5, <2>1 DEF DeployInv, RecordsOutlive
<1>7. Untouched
  BY <1>1, <1>5 DEF Untouched, Foreigns
<1>8. CASE /\ run' = [run EXCEPT !.todo = Tail(@), !.wrote = TRUE]
           /\ failures' = failures /\ lost' = lost
  <2>1. /\ t \in Seq(Entry) /\ Installs(t) /\ t # <<>> /\ Puts(Head(t), "container")
    BY <1>1, <1>2, TailFits
  <2>2. run' = [run EXCEPT !.todo = t, !.wrote = TRUE]
    BY <1>1, <1>8 DEF RunRecord
  <2> HIDE DEF t, todo
  <2>3. /\ run' \in RunRecord /\ run'.verb = run.verb /\ run'.todo = t /\ run'.result = run.result
    BY <1>1, <2>1, <2>2 DEF RunRecord
  <2>4. DeployTyped' /\ TodoFits'
    BY <1>1, <1>2, <1>5, <1>8, <2>1, <2>3 DEF DeployInv, DeployTyped, TodoFits
  <2>5. Recorded' /\ Unopposed'
    <3>1. ~Puts(Head(t), "manifest")
      BY <2>1 DEF Puts
    <3> QED BY <1>3, <1>5, <2>3, <3>1 DEF Recorded, Unopposed
  <2>6. TarAccounted'
    BY <2>1, <2>3 DEF TarAccounted, Idle
  <2>7. Unwritten'
    <3>1. run.result = "none"
      BY <1>1 DEF DeployInv, Unwritten, Idle, todo
    <3>2. Head(t).do = "create"
      BY <2>1 DEF Puts
    <3> QED BY <2>3, <3>1, <3>2 DEF Unwritten, Doing
  <2>8. Removed' /\ Verified'
    BY <1>2, <2>3 DEF Removed, Verified
  <2> QED BY <1>6, <1>7, <2>4, <2>5, <2>6, <2>7, <2>8 DEF DeployInv
<1>9. CASE /\ Fails
           /\ run' = [run EXCEPT !.todo = <<>>, !.result = "error", !.wrote = TRUE,
                                 !.failed = TRUE]
           /\ lost' = (lost \/ "tar" \in rt'.files)
  <2>1. /\ run' \in RunRecord /\ run'.verb = run.verb /\ run'.todo = <<>> /\ run'.result = "error"
    <3>1. <<>> \in Seq(Entry)
      OBVIOUS
    <3> QED BY <1>1, <1>9, <3>1 DEF RunRecord, Results
  <2>2. failures' \in 0 .. MaxFailures /\ lost' \in BOOLEAN
    BY <1>9, DeployAssumption DEF DeployAssumption, DeployInv, DeployTyped, Fails
  <2>3. DeployTyped'
    BY <1>1, <1>5, <2>1, <2>2 DEF DeployInv, DeployTyped
  <2>4. TodoFits'
    BY <2>1 DEF TodoFits, Installs, Removes
  <2>5. Recorded' /\ Unopposed' /\ Removed'
    BY <1>3, <1>5, <2>1 DEF Recorded, Unopposed, Removed, Idle
  <2>6. TarAccounted'
    BY <1>9 DEF TarAccounted
  <2>7. Unwritten' /\ Verified'
    BY <1>2, <2>1 DEF Unwritten, Verified, Idle, Doing
  <2> QED BY <1>6, <1>7, <2>3, <2>4, <2>5, <2>6, <2>7 DEF DeployInv
<1> QED
  BY <1>8, <1>9 DEF Upload

\* What an uninstall is doing, told by its head; what comes after it.
LEMMA UninstallHead ==
  ASSUME DeployInv, ~Idle, run.verb = "uninstall" \/ Head(run.todo).do \in {"list", "sweep", "verify", "drop"}
  PROVE  /\ run.verb = "uninstall" /\ run.todo \in Seq(Entry) /\ Head(run.todo) \in Entry
         /\ Removing(Head(run.todo)) /\ run.result = "none"
         /\ Tail(run.todo) \in Seq(Entry) /\ Removes(Tail(run.todo))
         /\ Tail(run.todo) # <<>> =>
              \/ Stage(Head(Tail(run.todo))) = Stage(Head(run.todo)) + 1
              \/ Stage(Head(Tail(run.todo))) = 3 /\ Stage(Head(run.todo)) = 3
<1>1. run.todo \in Seq(Entry) /\ run.todo # <<>>
  BY DEF DeployInv, DeployTyped, RunRecord, Idle
<1>2. run.verb = "uninstall" /\ Removes(run.todo)
  <2>1. Installs(run.todo) => Installing(Head(run.todo))
    BY <1>1, TailFits
  <2>2. Head(run.todo).do \in {"list", "sweep", "verify", "drop"} => ~Installing(Head(run.todo))
    BY DEF Installing
  <2> QED BY <2>1, <2>2 DEF DeployInv, TodoFits
<1>3. run.result = "none"
  BY DEF DeployInv, Unwritten
<1> QED
  BY <1>1, <1>2, <1>3, TailFits

\* An uninstall goes on behind its head.
LEMMA UninstallTyped ==
  ASSUME DeployInv, ~Idle, run.verb = "uninstall", Stage(Head(run.todo)) > 0,
         rt' \in RouterRecord, NEW fails \in BOOLEAN,
         run' = [run EXCEPT !.todo = Tail(@), !.wrote = TRUE, !.failed = fails]
         \/ run' = [run EXCEPT !.todo = Tail(@), !.failed = fails],
         store' = store, runs' = runs, failures' \in 0 .. MaxFailures,
         operator' = operator, legacy' = legacy, lost' \in BOOLEAN, turned' \in BOOLEAN
  PROVE  /\ DeployTyped' /\ TodoFits' /\ Recorded' /\ Unwritten'
         /\ run'.verb = "uninstall" /\ run'.todo = Tail(run.todo) /\ run'.failed = fails
         /\ run'.result = "none" /\ run'.found = run.found
         /\ ~Puts(Head(run.todo), "manifest")
         /\ ~Idle' => ~Puts(Head(run'.todo), "manifest")
<1> DEFINE t == Tail(run.todo)
<1>1. /\ run.todo \in Seq(Entry) /\ Removing(Head(run.todo)) /\ run.result = "none"
      /\ t \in Seq(Entry) /\ Removes(t)
      /\ t # <<>> => \/ Stage(Head(t)) = Stage(Head(run.todo)) + 1
                     \/ Stage(Head(t)) = 3 /\ Stage(Head(run.todo)) = 3
  BY UninstallHead
<1>2. run \in RunRecord
  BY DEF DeployInv, DeployTyped
<1>3. \/ run' = [run EXCEPT !.todo = t, !.wrote = TRUE, !.failed = fails]
      \/ run' = [run EXCEPT !.todo = t, !.failed = fails]
  BY <1>2 DEF RunRecord
<1> HIDE DEF t
<1>4. /\ run' \in RunRecord /\ run'.verb = "uninstall" /\ run'.todo = t /\ run'.failed = fails
      /\ run'.result = "none" /\ run'.found = run.found
  BY <1>1, <1>2, <1>3 DEF RunRecord
<1>5. Stage(Head(run.todo)) \in 1 .. 8
  BY DEF Stage
<1>6. t # <<>> => Head(t).do \notin {"list", "read", "create"}
  <2>1. t # <<>> => Stage(Head(t)) \in 2 .. 9
    BY <1>1, <1>5
  <2>2. t # <<>> => t[1] \in Entry /\ Head(t) = t[1] /\ Removing(t[1])
    <3>1. t # <<>> => 1 \in 1 .. Len(t) /\ Head(t) = t[1]
      BY <1>1
    <3> QED BY <1>1, <3>1 DEF Removes
  <2>3. t # <<>> => Head(t).do # "create"
    BY <2>2 DEF Removing
  <2>4. t # <<>> => Head(t).do \notin {"list", "read"}
    BY <2>1 DEF Stage
  <2> QED BY <2>3, <2>4
<1>7. DeployTyped'
  BY <1>4 DEF DeployInv, DeployTyped
<1>8. TodoFits' /\ Recorded'
  BY <1>1, <1>4 DEF TodoFits, Recorded
<1>9. Unwritten'
  BY <1>4, <1>6 DEF Unwritten, Idle, Doing
<1>10. ~Puts(Head(run.todo), "manifest")
  BY <1>1 DEF Puts, Removing
<1> QED
  BY <1>4, <1>6, <1>7, <1>8, <1>9, <1>10 DEF t, Puts, Idle

\* The sweep takes away what is tagged and nothing else.
LEMMA SweepSteps == DeployInv /\ SweepTag => DeployInv' /\ Untouched
<1> SUFFICES ASSUME DeployInv, SweepTag PROVE DeployInv' /\ Untouched
  OBVIOUS
<1>1. /\ rt \in RouterRecord /\ Doing("sweep") /\ ~Idle /\ Head(run.todo).do = "sweep"
      /\ store' = store /\ runs' = runs /\ operator' = operator /\ turned' = turned
      /\ legacy' = legacy /\ lost' = lost /\ lost \in BOOLEAN /\ turned \in BOOLEAN
      /\ failures \in 0 .. MaxFailures
  BY DEF SweepTag, DeployInv, DeployTyped, Doing, Idle
<1>2. /\ run.verb = "uninstall" /\ Stage(Head(run.todo)) = 4
      /\ Tail(run.todo) # <<>> => Stage(Head(Tail(run.todo))) = 5
  <2>1. Stage(Head(run.todo)) = 4
    BY <1>1 DEF Stage
  <2> QED BY <1>1, <2>1, UninstallHead
<1>3. /\ rt' \in RouterRecord /\ rt'.objs \subseteq rt.objs /\ rt'.entries = rt.entries
      /\ rt'.marker = rt.marker /\ rt'.box = rt.box /\ rt'.manifest = rt.manifest
      /\ rt'.files = rt.files
      /\ \A ob \in rt.objs : ob.tag # "ours" => ob \in rt'.objs
      /\ failures' = failures => TaggedObjects(rt') = {}
      /\ failures' \in 0 .. MaxFailures
  <2>1. CASE rt' = [rt EXCEPT !.objs = @ \ TaggedObjects(rt)] /\ failures' = failures
    <3>1. rt' = [rt EXCEPT !.objs = rt.objs \ TaggedObjects(rt)]
      BY <1>1, <2>1 DEF RouterRecord
    <3> QED BY <1>1, <2>1, <3>1 DEF RouterRecord, TaggedObjects
  <2>2. CASE Fails /\ \E some \in SUBSET TaggedObjects(rt) : rt' = [rt EXCEPT !.objs = @ \ some]
    <3>1. PICK some \in SUBSET TaggedObjects(rt) : rt' = [rt EXCEPT !.objs = @ \ some]
      BY <2>2
    <3>2. failures' # failures /\ failures' \in 0 .. MaxFailures
      BY <1>1, <2>2, DeployAssumption DEF DeployAssumption, Fails
    <3> QED BY <1>1, <3>1, <3>2 DEF RouterRecord, TaggedObjects
  <2> QED BY <2>1, <2>2 DEF SweepTag
<1> DEFINE fails == run.failed \/ failures' # failures
<1>4. /\ run' = [run EXCEPT !.todo = Tail(@), !.wrote = TRUE, !.failed = fails]
      /\ fails \in BOOLEAN
  <2>1. run' = [run EXCEPT !.todo = Tail(@), !.wrote = TRUE, !.failed = @ \/ failures' # failures]
    BY DEF SweepTag
  <2> QED BY <2>1 DEF DeployInv, DeployTyped, RunRecord
<1> HIDE DEF fails
<1>5. /\ DeployTyped' /\ TodoFits' /\ Recorded' /\ Unwritten'
      /\ run'.verb = "uninstall" /\ run'.todo = Tail(run.todo) /\ run'.failed = fails
      /\ run'.result = "none" /\ run'.found = run.found
      /\ ~Idle' => ~Puts(Head(run'.todo), "manifest")
  <2>1. Stage(Head(run.todo)) > 0
    BY <1>2
  <2> QED BY <1>1, <1>2, <1>3, <1>4, <2>1, UninstallTyped
<1>6. Tagged(rt') => Tagged(rt)
  BY <1>3 DEF Tagged, TaggedObjects
<1>7. RecordsOutlive'
  BY <1>1, <1>3, <1>6 DEF DeployInv, RecordsOutlive
<1>8. Unopposed'
  BY <1>3, <1>5 DEF DeployInv, Unopposed
<1>9. TarAccounted'
  <2>1. ~Puts(Head(run.todo), "container") /\ ~Doing("undo")
    BY <1>1 DEF Puts, Doing
  <2> QED BY <1>1, <1>3, <2>1 DEF DeployInv, TarAccounted
<1>10. Removed'
  <2>1. SUFFICES ASSUME ~fails, run'.todo # <<>>
                 PROVE  LET stage == Stage(Head(run'.todo))
                        IN  /\ stage > 2 => rt'.box = "none" /\ ~rt'.marker
                            /\ stage > 4 => TaggedObjects(rt') = {}
                            /\ stage > 5 => /\ rt'.manifest.kind # "ours"
                                            /\ ~("dir" \in rt'.files /\ DirEmpty(rt'))
    BY <1>5 DEF Removed, Idle
  <2>2. Stage(Head(run'.todo)) = 5
    BY <1>2, <1>5, <2>1
  <2>3. rt.box = "none" /\ ~rt.marker
    <3>1. ~run.failed /\ Stage(Head(run.todo)) > 2
      BY <1>2, <2>1 DEF fails
    <3> QED BY <1>1, <1>2, <3>1 DEF DeployInv, Removed
  <2>4. TaggedObjects(rt') = {}
    BY <1>3, <2>1 DEF fails
  <2> QED BY <1>3, <2>2, <2>3, <2>4
<1>11. Verified'
  <2>1. run'.todo # <<>> => Head(run'.todo).do # "drop"
    BY <1>2, <1>5 DEF Stage
  <2> QED BY <1>5, <2>1 DEF Verified, Doing
<1>12. Foreigns(rt') = Foreigns(rt)
  BY <1>3 DEF Foreigns
<1> QED
  BY <1>1, <1>3, <1>5, <1>7, <1>8, <1>9, <1>10, <1>11, <1>12 DEF DeployInv, Untouched

\* The line of an entry, by what the entry is.
LEMMA LineCases ==
  ASSUME NEW r, NEW e \in Entry, NEW o, Installing(e) \/ Removing(e),
         e.do \in {"create", "remove", "undo"}
  PROVE  \/ /\ e.do = "create" /\ Puts(e, "manifest") /\ ~Puts(e, "container")
            /\ LineOf(r, e, o) = CreateManifest(r, o)
         \/ /\ e.do = "create" /\ Puts(e, "container") /\ ~Puts(e, "manifest")
            /\ LineOf(r, e, o) = CreateContainer(r, o)
         \/ /\ e.do = "create" /\ ~Puts(e, "manifest") /\ ~Puts(e, "container") /\ IsStep(e.step)
            /\ LineOf(r, e, o) = CreateObject(r, e.step)
         \/ /\ e.do = "remove" /\ Stage(e) = 5
            /\ LineOf(r, e, o) = RemoveManifest(r)
         \/ /\ e.do = "remove" /\ Stage(e) = 2 /\ e.step.step = "container"
            /\ LineOf(r, e, o) = RemoveContainer(r, o)
         \/ /\ e.do = "remove" /\ Stage(e) = 3
            /\ LineOf(r, e, o) = RemoveObject(r, e.step)
         \/ e.do = "undo" /\ LineOf(r, e, o) = UndoUpload(r)
<1>1. CASE e.do = "create"
  <2>1. e.step.step = "manifest" \/ IsStep(e.step)
    BY <1>1 DEF Installing, Removing
  <2>2. CASE e.step.step = "manifest"
    BY <1>1, <2>2 DEF LineOf, Puts
  <2>3. CASE e.step.step = "container"
    BY <1>1, <2>3 DEF LineOf, Puts
  <2>4. CASE e.step.step \notin {"manifest", "container"}
    BY <1>1, <2>1, <2>4 DEF LineOf, Puts
  <2> QED BY <2>2, <2>3, <2>4
<1>2. CASE e.do = "remove"
  BY <1>2 DEF LineOf, Stage
<1>3. CASE e.do = "undo"
  BY <1>3 DEF LineOf
<1> QED
  BY <1>1, <1>2, <1>3

\* What an entry that writes may be, and what the run around it knows.
LEMMA WritesHead ==
  ASSUME DeployInv, Writes
  PROVE  /\ rt \in RouterRecord /\ run \in RunRecord /\ run.opts \in ShapeRecord
         /\ run.todo \in Seq(Entry) /\ run.todo # <<>> /\ Head(run.todo) \in Entry
         /\ Head(run.todo).do \in {"create", "remove", "undo"}
         /\ run.result = "none"
         /\ run.verb = "uninstall" =>
              Removing(Head(run.todo)) /\ Head(run.todo).do = "remove"
         /\ run.verb # "uninstall" =>
              /\ Installing(Head(run.todo)) /\ rt.entries # "theirs"
              /\ Head(run.todo).do = "remove" => Stage(Head(run.todo)) = 2
              /\ ~Puts(Head(run.todo), "manifest") => rt.manifest.kind = "ours"
         /\ Puts(Head(run.todo), "manifest") => rt.manifest.kind # "theirs"
<1>1. /\ rt \in RouterRecord /\ run \in RunRecord /\ run.opts \in ShapeRecord
      /\ run.todo \in Seq(Entry) /\ run.todo # <<>>
      /\ Head(run.todo).do \in {"create", "remove", "undo"}
  BY DEF DeployInv, DeployTyped, RunRecord, Writes, Doing
<1>2. ~Idle /\ ~Doing("read")
  BY <1>1 DEF Idle, Doing
<1>3. /\ Head(run.todo) \in Entry
      /\ Installs(run.todo) => Installing(Head(run.todo))
      /\ Removes(run.todo) => Removing(Head(run.todo))
  BY <1>1, TailFits
<1>4. run.verb = "uninstall" => Removing(Head(run.todo)) /\ Head(run.todo).do = "remove"
  <2>1. run.verb = "uninstall" => Removing(Head(run.todo))
    BY <1>3 DEF DeployInv, TodoFits
  <2> QED BY <1>1, <2>1 DEF Removing
<1>5. run.verb # "uninstall" => Installing(Head(run.todo))
  BY <1>3 DEF DeployInv, TodoFits
<1>6. ASSUME run.verb # "uninstall"
      PROVE  /\ rt.entries # "theirs"
             /\ Head(run.todo).do = "remove" => Stage(Head(run.todo)) = 2
             /\ ~Puts(Head(run.todo), "manifest") => rt.manifest.kind = "ours"
  <2>1. rt.entries # "theirs"
    BY <1>2, <1>6 DEF DeployInv, Unopposed
  <2>2. Head(run.todo).do = "remove" => Stage(Head(run.todo)) = 2
    BY <1>5, <1>6 DEF Installing, Stage
  <2>3. ~Puts(Head(run.todo), "manifest") => rt.manifest.kind = "ours"
    BY <1>2, <1>6 DEF DeployInv, Recorded
  <2> QED BY <2>1, <2>2, <2>3
<1>7. Puts(Head(run.todo), "manifest") => rt.manifest.kind # "theirs"
  BY <1>2 DEF DeployInv, Unopposed
<1>8. run.result = "none"
  BY <1>2 DEF DeployInv, Unwritten
<1> QED
  BY <1>1, <1>3, <1>4, <1>5, <1>6, <1>7, <1>8

\* Wherever the line of an entry stops.
LEMMA LineSafe ==
  ASSUME DeployInv, Writes,
         NEW q \in Reached(LineOf(rt, Head(run.todo), run.opts))
  PROVE  /\ LineKeeps(rt, q)
         /\ Tagged(q) /\ ~legacy => q.manifest.kind = "ours"
         /\ run.verb # "uninstall" /\ rt.manifest.kind = "ours" => q.manifest.kind = "ours"
         /\ q.entries = "theirs" => run.verb = "uninstall" /\ ~q.marker /\ q.box = "none"
         /\ "tar" \in q.files =>
              \/ lost \/ turned \/ q.marker \/ Turned(Head(run.todo))
              \/ Puts(Head(run.todo), "container") \/ Head(run.todo).do = "undo"
<1> DEFINE e == Head(run.todo)
           o == run.opts
<1>1. /\ rt \in RouterRecord /\ o \in ShapeRecord /\ e \in Entry
      /\ e.do \in {"create", "remove", "undo"}
      /\ Installing(e) \/ Removing(e)
      /\ run.verb = "uninstall" => e.do = "remove"
      /\ run.verb # "uninstall" =>
           /\ rt.entries # "theirs" /\ (e.do = "remove" => Stage(e) = 2)
           /\ ~Puts(e, "manifest") => rt.manifest.kind = "ours"
      /\ Puts(e, "manifest") => rt.manifest.kind # "theirs"
  BY WritesHead
<1>2. /\ Tagged(rt) /\ ~legacy => rt.manifest.kind = "ours"
      /\ rt.entries = "theirs" => ~rt.marker /\ rt.box = "none"
      /\ "tar" \in rt.files =>
           \/ lost \/ turned \/ rt.marker \/ Puts(e, "container") \/ e.do = "undo"
  BY DEF DeployInv, RecordsOutlive, Unopposed, TarAccounted, Doing
<1>3. /\ e.do = "create" <=> e.do = "create"
      /\ Puts(e, "manifest") => e.do = "create"
      /\ Puts(e, "container") => e.do = "create"
      /\ Turned(e) <=> e.step.step = "container" /\ o.remote /\ "tar" \in rt.files
  BY DEF Puts, Turned
<1>4. q \in Reached(LineOf(rt, e, o))
  OBVIOUS
<1> HIDE DEF e, o
<1>5. CASE e.do = "create" /\ Puts(e, "manifest") /\ LineOf(rt, e, o) = CreateManifest(rt, o)
  <2>1. /\ LineKeeps(rt, q)
        /\ q.objs = rt.objs /\ q.marker = rt.marker /\ q.box = rt.box /\ q.entries = rt.entries
        /\ rt.manifest.kind = "ours" => q.manifest.kind = "ours"
    BY <1>1, <1>4, <1>5, CreateManifestLine
  <2>2. Tagged(q) <=> Tagged(rt)
    BY <2>1 DEF Tagged, TaggedObjects
  <2>3. "tar" \in q.files => "tar" \in rt.files
    BY <2>1 DEF LineKeeps
  <2>4. q.entries # "theirs"
    BY <1>1, <1>5, <2>1
  <2> QED BY <1>2, <2>1, <2>2, <2>3, <2>4 DEF e, o
<1>6. CASE e.do = "create" /\ Puts(e, "container") /\ LineOf(rt, e, o) = CreateContainer(rt, o)
  <2>1. rt.entries # "theirs" /\ rt.manifest.kind = "ours" /\ run.verb # "uninstall"
    <3>1. ~Puts(e, "manifest")
      BY <1>6 DEF Puts
    <3> QED BY <1>1, <1>6, <3>1
  <2>2. LineKeeps(rt, q) /\ q.manifest = rt.manifest /\ q.entries # "theirs"
    BY <1>1, <1>4, <1>6, <2>1, CreateContainerLine
  <2> QED BY <1>6, <2>1, <2>2 DEF e, o
<1>7. CASE /\ e.do = "create" /\ ~Puts(e, "manifest") /\ ~Puts(e, "container") /\ IsStep(e.step)
           /\ LineOf(rt, e, o) = CreateObject(rt, e.step)
  <2>1. rt.entries # "theirs" /\ rt.manifest.kind = "ours" /\ run.verb # "uninstall"
    BY <1>1, <1>7
  <2>2. /\ LineKeeps(rt, q) /\ q.manifest = rt.manifest /\ q.marker = rt.marker
        /\ q.entries = rt.entries /\ q.files = rt.files
    BY <1>1, <1>4, <1>7, CreateObjectLine
  <2> QED BY <1>2, <1>7, <2>1, <2>2 DEF e, o
<1>8. CASE e.do = "remove" /\ Stage(e) = 5 /\ LineOf(rt, e, o) = RemoveManifest(rt)
  <2>1. run.verb = "uninstall"
    BY <1>1, <1>8
  <2>2. /\ LineKeeps(rt, q)
        /\ q.objs = rt.objs /\ q.entries = rt.entries /\ q.marker = rt.marker /\ q.box = rt.box
        /\ Tagged(rt) => q = rt
    BY <1>1, <1>4, <1>8, NoManifestTyped, RemoveManifestLine
  <2>3. Tagged(q) <=> Tagged(rt)
    BY <2>2 DEF Tagged, TaggedObjects
  <2>4. "tar" \in q.files => "tar" \in rt.files
    BY <2>2 DEF LineKeeps
  <2> QED BY <1>2, <1>3, <1>8, <2>1, <2>2, <2>3, <2>4 DEF e, o
<1>9. CASE /\ e.do = "remove" /\ Stage(e) = 2 /\ e.step.step = "container"
           /\ LineOf(rt, e, o) = RemoveContainer(rt, o)
  <2>1. /\ LineKeeps(rt, q)
        /\ q.manifest = rt.manifest /\ q.objs = rt.objs
        /\ q.marker => rt.marker
        /\ rt.box = "none" => q.box = "none"
        /\ rt.marker /\ ~q.marker /\ "tar" \in q.files => o.remote
    <3>1. rt.entries = "theirs" => ~rt.marker
      BY <1>2
    <3>2. q \in Reached(RemoveContainer(rt, o))
      BY <1>4, <1>9
    <3> QED BY <1>1, <3>1, <3>2, RemoveContainerLine
  <2>2. Tagged(q) => Tagged(rt)
    BY <2>1 DEF Tagged, TaggedObjects
  <2>3. "tar" \in q.files => "tar" \in rt.files
    BY <2>1 DEF LineKeeps
  <2>4. q.entries = "theirs" => rt.entries = "theirs"
    BY <2>1 DEF LineKeeps
  <2>5. "tar" \in q.files => lost \/ turned \/ q.marker \/ Turned(e)
    BY <1>2, <1>3, <1>9, <2>1, <2>3
  <2>6. q.entries = "theirs" => run.verb = "uninstall" /\ ~q.marker /\ q.box = "none"
    BY <1>1, <1>2, <2>1, <2>4
  <2> QED BY <1>2, <2>1, <2>2, <2>5, <2>6 DEF e, o
<1>10. CASE e.do = "remove" /\ Stage(e) = 3 /\ LineOf(rt, e, o) = RemoveObject(rt, e.step)
  <2>1. run.verb = "uninstall"
    BY <1>1, <1>10
  <2>2. /\ LineKeeps(rt, q)
        /\ q.manifest = rt.manifest /\ q.marker = rt.marker /\ q.box = rt.box
        /\ q.entries = rt.entries /\ q.files = rt.files
        /\ TaggedObjects(q) \subseteq TaggedObjects(rt)
    BY <1>1, <1>4, <1>10, RemoveObjectLine
  <2>3. Tagged(q) => Tagged(rt)
    BY <2>2 DEF Tagged
  <2> QED BY <1>2, <1>3, <1>10, <2>1, <2>2, <2>3 DEF e, o
<1>11. CASE e.do = "undo" /\ LineOf(rt, e, o) = UndoUpload(rt)
  <2>1. rt.entries # "theirs" /\ rt.manifest.kind = "ours"
    BY <1>1, <1>3, <1>11
  <2>2. LineKeeps(rt, q) /\ q.entries = rt.entries /\ q.manifest = rt.manifest
    BY <1>1, <1>4, <1>11, UndoUploadLine
  <2> QED BY <1>11, <2>1, <2>2 DEF e, o
<1> QED
  BY <1>1, <1>5, <1>6, <1>7, <1>8, <1>9, <1>10, <1>11, LineCases

\* A run after an entry that wrote, with what it goes on to.
LEMMA WroteRun ==
  ASSUME DeployInv, Writes, NEW td \in Seq(Entry), NEW res \in Results, NEW fails \in BOOLEAN,
         run' = [run EXCEPT !.todo = td, !.wrote = TRUE, !.failed = fails, !.result = res],
         td = Tail(run.todo) \/ (run.verb # "uninstall" /\ td \in {<<>>, <<Do("undo", NoStep)>>}),
         res \in {"none", "installed", "error"}, td # <<>> => res = "none",
         rt' \in Reached(LineOf(rt, Head(run.todo), run.opts)),
         run.verb # "uninstall" /\ td # <<>> => rt'.manifest.kind = "ours",
         store' = store, runs' = runs, failures' \in 0 .. MaxFailures, operator' = operator,
         legacy' = legacy, lost' \in BOOLEAN, turned' \in BOOLEAN
  PROVE  /\ DeployTyped' /\ TodoFits' /\ RecordsOutlive' /\ Recorded' /\ Unopposed'
         /\ Unwritten' /\ Verified' /\ Untouched
         /\ run'.todo = td /\ run'.verb = run.verb /\ run'.failed = fails
<1> DEFINE e == Head(run.todo)
           undo == Do("undo", NoStep)
<1>1. /\ run \in RunRecord /\ run.todo \in Seq(Entry) /\ run.todo # <<>>
      /\ e.do \in {"create", "remove", "undo"}
      /\ run.verb = "uninstall" => Removing(e) /\ e.do = "remove"
  BY WritesHead
<1>2. /\ LineKeeps(rt, rt') /\ (Tagged(rt') /\ ~legacy => rt'.manifest.kind = "ours")
      /\ rt'.entries = "theirs" => run.verb = "uninstall" /\ ~rt'.marker /\ rt'.box = "none"
  BY LineSafe
<1>3. /\ run' \in RunRecord /\ run'.todo = td /\ run'.verb = run.verb /\ run'.failed = fails
      /\ run'.result = res /\ run'.found = run.found
  BY <1>1 DEF RunRecord
<1>4. /\ undo \in Entry /\ Installing(undo) /\ undo.do = "undo"
  BY DEF Do, NoStep, Step, Entry, AnyStep, Installing
<1>5. ASSUME td = <<undo>>
      PROVE  Installs(td) /\ Head(td) = undo
  <2>1. td \in Seq(Entry) /\ Len(td) = 1 /\ td[1] = undo
    BY <1>4, <1>5, OneTwo
  <2>2. Installs(td)
    BY <1>4, <2>1 DEF Installs
  <2> QED BY <2>1, <2>2
<1> HIDE DEF undo
<1>6. IF run.verb = "uninstall" THEN Removes(td) ELSE Installs(td)
  <2>1. CASE td = Tail(run.todo)
    BY <1>1, <2>1, TailFits DEF DeployInv, TodoFits
  <2>2. CASE run.verb # "uninstall" /\ td = <<>>
    BY <2>2 DEF Installs
  <2>3. CASE run.verb # "uninstall" /\ td = <<undo>>
    BY <1>5, <2>3
  <2> QED BY <2>1, <2>2, <2>3 DEF undo
<1>7. ASSUME td # <<>>
      PROVE  /\ Head(td).do \notin {"list", "read", "drop"} /\ ~Puts(Head(td), "manifest")
  <2>1. td \in Seq(Entry) /\ 1 \in 1 .. Len(td) /\ Head(td) = td[1]
    BY <1>7
  <2>2. CASE run.verb = "uninstall"
    <3>1. td = Tail(run.todo)
      BY <2>2
    <3>2. Removing(Head(td))
      BY <1>6, <2>1, <2>2 DEF Removes
    <3>3. \/ Stage(Head(td)) = Stage(e) + 1
          \/ Stage(Head(td)) = 3 /\ Stage(e) = 3
      BY <1>1, <1>7, <2>2, <3>1, TailFits DEF DeployInv, TodoFits
    <3>4. Stage(e) \in {2, 3, 5}
      BY <1>1, <2>2 DEF Stage
    <3>5. Stage(Head(td)) \in {3, 4, 6}
      BY <3>3, <3>4
    <3>6. Head(td).do \notin {"list", "read", "drop"}
      BY <3>5 DEF Stage
    <3>7. ~Puts(Head(td), "manifest")
      BY <3>2 DEF Removing, Puts
    <3> QED BY <3>6, <3>7
  <2>3. CASE run.verb # "uninstall"
    <3>1. Installing(Head(td))
      BY <1>6, <2>1, <2>3 DEF Installs
    <3>2. CASE td = Tail(run.todo)
      <4>1. Installs(run.todo)
        BY <2>3 DEF DeployInv, TodoFits
      <4>2. Head(td).do # "read" /\ ~Puts(Head(td), "manifest")
        BY <1>1, <1>7, <3>2, <4>1, TailFits
      <4> QED BY <3>1, <4>2 DEF Installing
    <3>3. CASE td = <<undo>>
      BY <1>4, <1>5, <3>3 DEF Puts
    <3> QED BY <1>7, <2>3, <3>2, <3>3 DEF undo
  <2> QED BY <2>2, <2>3
<1>8. DeployTyped'
  BY <1>2, <1>3 DEF LineKeeps, DeployInv, DeployTyped
<1>9. TodoFits'
  BY <1>3, <1>6 DEF TodoFits
<1>10. RecordsOutlive'
  BY <1>2 DEF LineKeeps, DeployInv, RecordsOutlive
<1>11. Recorded'
  BY <1>3 DEF Recorded, Idle
<1>12. Unopposed'
  BY <1>2, <1>3, <1>7 DEF Unopposed, Idle
<1>13. Unwritten'
  BY <1>3, <1>7 DEF Unwritten, Idle, Doing
<1>14. Verified'
  BY <1>3, <1>7 DEF Verified, Idle, Doing
<1>15. Untouched
  BY <1>2 DEF LineKeeps, Untouched
<1> QED
  BY <1>3, <1>8, <1>9, <1>10, <1>11, <1>12, <1>13, <1>14, <1>15

\* What an uninstall's line has done when it reached its end, and that it
\* does when nothing has failed before it.
LEMMA LineDone ==
  ASSUME DeployInv, Writes, run.verb = "uninstall", ~run.failed
  PROVE  LET e == Head(run.todo)
             q == Last(LineOf(rt, e, run.opts).steps)
         IN  /\ LineOf(rt, e, run.opts).ok
             /\ Stage(e) \in {2, 3, 5}
             /\ q.box = "none" /\ ~q.marker
             /\ Stage(e) = 5 => /\ TaggedObjects(q) = {} /\ q.manifest.kind # "ours"
                                /\ ~("dir" \in q.files /\ DirEmpty(q))
<1> DEFINE e == Head(run.todo)
           o == run.opts
           q == Last(LineOf(rt, e, o).steps)
<1>1. /\ rt \in RouterRecord /\ o \in ShapeRecord /\ e \in Entry
      /\ e.do = "remove" /\ Removing(e) /\ ~Idle
  BY WritesHead DEF Idle
<1>2. /\ Stage(e) > 2 => rt.box = "none" /\ ~rt.marker
      /\ Stage(e) > 4 => TaggedObjects(rt) = {}
  BY <1>1 DEF DeployInv, Removed
<1>3. q \in Reached(LineOf(rt, e, o))
  BY DEF Reached
<1> HIDE DEF e, o
<1>4. CASE Stage(e) = 5 /\ LineOf(rt, e, o) = RemoveManifest(rt)
  <2>1. ~Tagged(rt)
    BY <1>2, <1>4 DEF Tagged
  <2>2. RemoveManifest(rt).ok
    BY <2>1 DEF RemoveManifest, Line
  <2>3. q \in Reached(RemoveManifest(rt)) /\ q = Last(RemoveManifest(rt).steps)
    BY <1>3, <1>4
  <2> HIDE DEF q
  <2>4. /\ q.objs = rt.objs /\ q.marker = rt.marker /\ q.box = rt.box
        /\ q.manifest.kind # "ours" /\ ~("dir" \in q.files /\ DirEmpty(q))
    BY <1>1, <2>1, <2>3, NoManifestTyped, RemoveManifestLine
  <2>5. TaggedObjects(q) = TaggedObjects(rt)
    BY <2>4 DEF TaggedObjects
  <2> QED BY <1>2, <1>4, <2>2, <2>4, <2>5 DEF q, e, o
<1>5. CASE Stage(e) = 2 /\ LineOf(rt, e, o) = RemoveContainer(rt, o)
  <2>1. RemoveContainer(rt, o).ok
    BY DEF RemoveContainer
  <2>2. q \in Reached(RemoveContainer(rt, o)) /\ q = Last(RemoveContainer(rt, o).steps)
    BY <1>3, <1>5
  <2> HIDE DEF q
  <2>3. q.box = "none" /\ ~q.marker
    BY <1>1, <2>2, RemoveContainerLine
  <2> QED BY <1>5, <2>1, <2>3 DEF q, e, o
<1>6. CASE Stage(e) = 3 /\ LineOf(rt, e, o) = RemoveObject(rt, e.step)
  <2>1. RemoveObject(rt, e.step).ok
    BY DEF RemoveObject, Line
  <2>2. q \in Reached(RemoveObject(rt, e.step))
    BY <1>3, <1>6
  <2> HIDE DEF q
  <2>3. q.marker = rt.marker /\ q.box = rt.box
    BY <1>1, <2>2, RemoveObjectLine
  <2> QED BY <1>2, <1>6, <2>1, <2>3 DEF q, e, o
<1> QED
  BY <1>1, <1>4, <1>5, <1>6, LineCases DEF e, o, q

\* Only the removal of the container goes on past a wait that ran out.
LEMMA SlowLine ==
  ASSUME DeployInv, Writes, LineOf(rt, Head(run.todo), run.opts).slow # {}
  PROVE  Head(run.todo).do = "remove"
<1> DEFINE e == Head(run.todo)
           o == run.opts
<1>1. e \in Entry /\ e.do \in {"create", "remove", "undo"} /\ (Installing(e) \/ Removing(e))
  BY WritesHead
<1>2. LineOf(rt, e, o).slow # {}
  OBVIOUS
<1> HIDE DEF e, o
<1>3. /\ CreateManifest(rt, o).slow = {} /\ CreateContainer(rt, o).slow = {}
      /\ CreateObject(rt, e.step).slow = {} /\ UndoUpload(rt).slow = {}
  <2>1. CreateManifest(rt, o).slow = {} /\ CreateObject(rt, e.step).slow = {} /\ UndoUpload(rt).slow = {}
    BY DEF CreateManifest, CreateObject, UndoUpload, Line
  <2>2. CreateContainer(rt, o).slow = {}
    BY DEF CreateContainer, Line
  <2> QED BY <2>1, <2>2
<1>4. e.do = "remove"
  BY <1>1, <1>2, <1>3, LineCases
<1> QED
  BY <1>4 DEF e

\* A line that runs to its end leaves what the next entry counts on.
LEMMA SucceedsSteps == DeployInv /\ Succeeds => DeployInv' /\ Untouched
<1> SUFFICES ASSUME DeployInv, Succeeds PROVE DeployInv' /\ Untouched
  OBVIOUS
<1> DEFINE e == Head(run.todo)
           o == run.opts
           line == LineOf(rt, e, o)
           td == Tail(run.todo)
           fails == run.failed \/ failures' # failures
           res == IF Len(run.todo) > 1 THEN run.result
                  ELSE IF e.do = "undo" THEN "error" ELSE "installed"
           left == e.do = "undo" /\ "tar" \in rt'.files /\ rt.box # "none" /\ ~rt.marker
<1>1. /\ Writes
      /\ \/ line.ok /\ rt' = Last(line.steps) /\ failures' = failures
         \/ Fails /\ rt' \in line.slow
      /\ run' = [run EXCEPT !.todo = Tail(@), !.wrote = TRUE,
                            !.failed = @ \/ failures' # failures,
                            !.result = IF Len(run.todo) > 1 THEN @
                                       ELSE IF e.do = "undo" THEN "error" ELSE "installed"]
      /\ turned' = (turned \/ Turned(e))
      /\ lost' = (lost \/ left)
      /\ store' = store /\ runs' = runs /\ operator' = operator /\ legacy' = legacy
  BY DEF Succeeds
<1>2. /\ rt \in RouterRecord /\ run \in RunRecord /\ o \in ShapeRecord
      /\ run.todo \in Seq(Entry) /\ run.todo # <<>> /\ e \in Entry
      /\ e.do \in {"create", "remove", "undo"} /\ run.result = "none"
      /\ run.verb = "uninstall" => Removing(e) /\ e.do = "remove"
      /\ run.verb # "uninstall" => /\ Installing(e) /\ rt.entries # "theirs"
                                   /\ ~Puts(e, "manifest") => rt.manifest.kind = "ours"
      /\ Puts(e, "manifest") => rt.manifest.kind # "theirs"
  BY <1>1, WritesHead
<1>3. /\ td \in Seq(Entry) /\ (td # <<>> <=> Len(run.todo) > 1)
  <2>1. td \in Seq(Entry) /\ Len(td) = Len(run.todo) - 1 /\ Len(run.todo) \in Nat
    BY <1>2, TailShape
  <2> HIDE DEF td
  <2>2. td # <<>> <=> Len(td) > 0
    BY <2>1
  <2> QED BY <2>1, <2>2
<1>4. rt' \in Reached(line) /\ failures' \in 0 .. MaxFailures
  <2>1. CASE line.ok /\ rt' = Last(line.steps) /\ failures' = failures
    BY <2>1 DEF Reached, DeployInv, DeployTyped
  <2>2. CASE Fails /\ rt' \in line.slow
    BY <2>2, DeployAssumption DEF DeployAssumption, Reached, Fails, DeployInv, DeployTyped
  <2> QED BY <1>1, <2>1, <2>2
<1>5. e.do # "remove" => rt' = Last(line.steps)
  BY <1>1, SlowLine
<1>6. run' = [run EXCEPT !.todo = td, !.wrote = TRUE, !.failed = fails, !.result = res]
  BY <1>1, <1>2 DEF RunRecord
<1>7. /\ res \in Results /\ res \in {"none", "installed", "error"} /\ (td # <<>> => res = "none")
      /\ fails \in BOOLEAN /\ lost' \in BOOLEAN /\ turned' \in BOOLEAN
  <2>1. res \in {"none", "installed", "error"} /\ (td # <<>> => res = "none")
    BY <1>2, <1>3
  <2>2. res \in Results
    BY <2>1 DEF Results
  <2>3. run.failed \in BOOLEAN /\ lost \in BOOLEAN /\ turned \in BOOLEAN
    BY DEF DeployInv, DeployTyped, RunRecord
  <2> QED BY <1>1, <2>1, <2>2, <2>3
<1> HIDE DEF res, fails, left
<1>8. /\ LineKeeps(rt, rt')
      /\ run.verb # "uninstall" /\ rt.manifest.kind = "ours" => rt'.manifest.kind = "ours"
      /\ "tar" \in rt'.files =>
           lost \/ turned \/ rt'.marker \/ Turned(e) \/ Puts(e, "container") \/ e.do = "undo"
  BY <1>1, <1>4, LineSafe
<1> HIDE DEF e, o, td
<1>9. run.verb # "uninstall" => rt'.manifest.kind = "ours"
  <2>1. SUFFICES ASSUME run.verb # "uninstall", Puts(e, "manifest") PROVE rt'.manifest.kind = "ours"
    BY <1>2, <1>8
  <2>2. line = CreateManifest(rt, o) /\ e.do = "create"
    BY <1>2, <2>1, LineCases DEF Puts
  <2>3. rt' = Last(CreateManifest(rt, o).steps) /\ rt' \in Reached(CreateManifest(rt, o))
    BY <1>4, <1>5, <2>2
  <2> QED BY <1>2, <2>1, <2>3, CreateManifestLine
<1>10. /\ DeployTyped' /\ TodoFits' /\ RecordsOutlive' /\ Recorded' /\ Unopposed'
       /\ Unwritten' /\ Verified' /\ Untouched
       /\ run'.todo = td /\ run'.verb = run.verb /\ run'.failed = fails
  BY <1>1, <1>3, <1>4, <1>6, <1>7, <1>9, WroteRun DEF e, o, td
<1>11. TarAccounted'
  <2>1. ASSUME "tar" \in rt'.files, Puts(e, "container") PROVE rt'.marker
    <3>1. line = CreateContainer(rt, o) /\ e.do = "create"
      BY <1>2, <2>1, LineCases DEF Puts
    <3>2. rt' = Last(CreateContainer(rt, o).steps) /\ rt' \in Reached(CreateContainer(rt, o))
      BY <1>4, <1>5, <3>1
    <3>3. rt.entries # "theirs"
      BY <1>2, <3>1
    <3> QED BY <1>2, <3>2, <3>3, CreateContainerLine
  <2>2. ASSUME "tar" \in rt'.files, e.do = "undo" PROVE rt'.marker \/ lost'
    <3>1. line = UndoUpload(rt)
      BY <1>2, <2>2, LineCases
    <3>2. rt' = Last(UndoUpload(rt).steps) /\ rt' \in Reached(UndoUpload(rt))
      BY <1>4, <1>5, <2>2, <3>1
    <3>3. rt'.marker = rt.marker /\ rt.box # "none"
      BY <1>2, <2>2, <3>2, UndoUploadLine
    <3> QED BY <1>1, <2>2, <3>3 DEF left
  <2> QED BY <1>1, <1>8, <2>1, <2>2 DEF TarAccounted
<1>12. Removed'
  <2>1. SUFFICES ASSUME run.verb = "uninstall", ~fails, td # <<>>
                 PROVE  LET stage == Stage(Head(td))
                        IN  /\ stage > 2 => rt'.box = "none" /\ ~rt'.marker
                            /\ stage > 4 => TaggedObjects(rt') = {}
                            /\ stage > 5 => /\ rt'.manifest.kind # "ours"
                                            /\ ~("dir" \in rt'.files /\ DirEmpty(rt'))
    BY <1>10 DEF Removed, Idle
  <2>2. ~run.failed /\ failures' = failures
    BY <2>1 DEF fails
  <2>3. rt' = Last(line.steps)
    <3>1. ~Fails
      BY <2>2 DEF Fails, DeployInv, DeployTyped
    <3> QED BY <1>1, <3>1
  <2>4. /\ Stage(e) \in {2, 3, 5} /\ rt'.box = "none" /\ ~rt'.marker
        /\ Stage(e) = 5 => /\ TaggedObjects(rt') = {} /\ rt'.manifest.kind # "ours"
                           /\ ~("dir" \in rt'.files /\ DirEmpty(rt'))
    BY <1>1, <2>1, <2>2, <2>3, LineDone DEF e, o
  <2>5. \/ Stage(Head(td)) = Stage(e) + 1
        \/ Stage(Head(td)) = 3 /\ Stage(e) = 3
    BY <1>2, <2>1, TailFits DEF DeployInv, TodoFits, td, e
  <2>6. Stage(Head(td)) \in {3, 4, 6} /\ (Stage(Head(td)) = 6 => Stage(e) = 5)
    BY <2>4, <2>5
  <2> QED BY <2>4, <2>6
<1> QED
  BY <1>10, <1>11, <1>12 DEF DeployInv

\* A line cut short anywhere keeps every record, and an upload is undone or
\* history's.
LEMMA BreaksSteps == DeployInv /\ Breaks => DeployInv' /\ Untouched
<1> SUFFICES ASSUME DeployInv, Breaks PROVE DeployInv' /\ Untouched
  OBVIOUS
<1> DEFINE e == Head(run.todo)
           o == run.opts
           line == LineOf(rt, e, o)
           td == AfterFailure(e)
           fails == run.failed \/ failures' # failures
           res == IF td = <<>> THEN "error" ELSE run.result
<1>1. /\ Writes
      /\ \/ ~line.ok /\ rt' = Last(line.steps) /\ failures' = failures
         \/ Fails /\ rt' \in Range(line.steps)
      /\ run' = [run EXCEPT !.todo = td, !.wrote = TRUE,
                            !.failed = @ \/ failures' # failures,
                            !.result = IF td = <<>> THEN "error" ELSE @]
      /\ turned' = (turned \/ Turned(e))
      /\ lost' = (lost \/ ("tar" \in rt'.files /\ td = <<>>))
      /\ store' = store /\ runs' = runs /\ operator' = operator /\ legacy' = legacy
  BY DEF Breaks
<1>2. /\ rt \in RouterRecord /\ run \in RunRecord /\ o \in ShapeRecord
      /\ run.todo \in Seq(Entry) /\ run.todo # <<>> /\ e \in Entry
      /\ run.result = "none"
      /\ run.verb = "uninstall" => Removing(e) /\ e.do = "remove"
      /\ run.verb # "uninstall" => (~Puts(e, "manifest") => rt.manifest.kind = "ours")
  BY <1>1, WritesHead
<1> DEFINE undo == Do("undo", NoStep)
<1>3. /\ run.verb = "uninstall" => td = Tail(run.todo)
      /\ run.verb # "uninstall" =>
           \/ td = <<>>
           \/ td = <<undo>> /\ Puts(e, "container")
      /\ undo \in Entry /\ undo.do = "undo"
  <2>1. undo \in Entry /\ undo.do = "undo"
    BY DEF Do, NoStep, Step, Entry, AnyStep
  <2> HIDE DEF undo
  <2>2. AfterFailure(e) = IF run.verb = "uninstall" THEN Tail(run.todo)
                          ELSE IF e.do = "create" /\ e.step.step = "container" /\ ~run.opts.remote
                                  /\ run.verb # "script"
                          THEN <<undo>> ELSE <<>>
    BY DEF AfterFailure, undo
  <2> QED BY <2>1, <2>2 DEF Puts
<1>4. td \in Seq(Entry)
  <2>1. Tail(run.todo) \in Seq(Entry)
    BY <1>2, TailFits
  <2>2. <<>> \in Seq(Entry) /\ <<undo>> \in Seq(Entry)
    <3> HIDE DEF undo
    <3> QED BY <1>3, OneTwo
  <2> HIDE DEF td, undo
  <2> QED BY <1>3, <2>1, <2>2
<1>5. rt' \in Reached(line) /\ failures' \in 0 .. MaxFailures
  <2>1. CASE ~line.ok /\ rt' = Last(line.steps) /\ failures' = failures
    BY <2>1 DEF Reached, DeployInv, DeployTyped
  <2>2. CASE Fails /\ rt' \in Range(line.steps)
    BY <2>2, DeployAssumption DEF DeployAssumption, Reached, Fails, DeployInv, DeployTyped
  <2> QED BY <1>1, <2>1, <2>2
<1> HIDE DEF td
<1>6. run' = [run EXCEPT !.todo = td, !.wrote = TRUE, !.failed = fails, !.result = res]
  BY <1>1, <1>2 DEF RunRecord
<1>7. /\ res \in Results /\ res \in {"none", "installed", "error"} /\ (td # <<>> => res = "none")
      /\ fails \in BOOLEAN /\ lost' \in BOOLEAN /\ turned' \in BOOLEAN
  <2>1. res \in {"none", "installed", "error"} /\ (td # <<>> => res = "none")
    BY <1>2
  <2>2. res \in Results
    BY <2>1 DEF Results
  <2>3. run.failed \in BOOLEAN /\ lost \in BOOLEAN /\ turned \in BOOLEAN
    BY DEF DeployInv, DeployTyped, RunRecord
  <2> QED BY <1>1, <2>1, <2>2, <2>3
<1> HIDE DEF res, fails
<1>8. /\ run.verb # "uninstall" /\ rt.manifest.kind = "ours" => rt'.manifest.kind = "ours"
      /\ "tar" \in rt'.files =>
           lost \/ turned \/ rt'.marker \/ Turned(e) \/ Puts(e, "container") \/ e.do = "undo"
  BY <1>1, <1>5, LineSafe
<1> HIDE DEF e, o
<1>9. run.verb # "uninstall" /\ td # <<>> => rt'.manifest.kind = "ours"
  <2>1. Puts(e, "container") => ~Puts(e, "manifest")
    BY DEF Puts
  <2> QED BY <1>2, <1>3, <1>8, <2>1
<1>10. td = Tail(run.todo) \/ (run.verb # "uninstall" /\ td \in {<<>>, <<undo>>})
  <2> HIDE DEF undo
  <2> QED BY <1>3
<1>11. /\ DeployTyped' /\ TodoFits' /\ RecordsOutlive' /\ Recorded' /\ Unopposed'
       /\ Unwritten' /\ Verified' /\ Untouched
       /\ run'.todo = td /\ run'.verb = run.verb /\ run'.failed = fails
  BY <1>1, <1>4, <1>5, <1>6, <1>7, <1>9, <1>10, WroteRun DEF e, o
<1>12. TarAccounted'
  <2>1. CASE td = <<>>
    BY <1>1, <2>1 DEF TarAccounted
  <2>2. CASE td = <<undo>>
    <3>1. td # <<>> /\ Head(td) = undo
      <4> HIDE DEF undo
      <4> QED BY <1>4, <2>2, OneTwo
    <3> HIDE DEF undo
    <3>2. ~Idle' /\ Doing("undo")'
      BY <1>3, <1>11, <3>1 DEF Idle, Doing
    <3> QED BY <3>2 DEF TarAccounted
  <2>3. CASE run.verb = "uninstall"
    <3>1. ~Puts(e, "container") /\ e.do # "undo"
      BY <1>2, <2>3 DEF Puts
    <3> QED BY <1>1, <1>8, <3>1 DEF TarAccounted
  <2> QED BY <1>10, <1>3, <2>1, <2>2, <2>3
<1>13. Removed'
  <2>1. ASSUME run.verb = "uninstall", ~fails PROVE FALSE
    <3>1. ~run.failed /\ failures' = failures
      BY <2>1 DEF fails
    <3>2. line.ok
      BY <1>1, <2>1, <3>1, LineDone DEF e, o
    <3>3. ~Fails
      BY <3>1 DEF Fails, DeployInv, DeployTyped
    <3> QED BY <1>1, <3>2, <3>3
  <2> QED BY <1>11, <2>1 DEF Removed
<1> QED
  BY <1>11, <1>12, <1>13 DEF DeployInv

-----------------------------------------------------------------------------
(* Steps that end an uninstall.                                             *)

\* What a count of nothing says of the router, and what is left of it when a
\* router with nothing of ours is still not clean.
LEMMA CleanMeans ==
  ASSUME DeployInv, NEW o \in ShapeRecord
  PROVE  /\ Clean(rt, o) =>
              /\ ~Tagged(rt) /\ rt.entries # "ours" /\ rt.manifest.kind # "ours"
              /\ "root" \notin rt.files
         /\ (/\ rt.box = "none" /\ ~rt.marker /\ TaggedObjects(rt) = {}
             /\ rt.manifest.kind # "ours" /\ ~("dir" \in rt.files /\ DirEmpty(rt))
             /\ ~Clean(rt, o))
              => "root" \in rt.files
<1>1. ManifestStep \in Range(Plan(o)) /\ ContainerStep(o) \in Range(Plan(o))
  BY PlanShape
<1>2. ManifestStep.step = "manifest" /\ ContainerStep(o).step = "container"
  BY DEF ManifestStep, ContainerStep, Step
<1>3. /\ Owned(rt, o, ManifestStep) <=> rt.manifest.kind = "ours"
      /\ Owned(rt, o, ContainerStep(o)) <=> rt.box # "none" \/ rt.marker
  BY <1>2 DEF Owned
<1>4. rt.entries = "ours" => rt.marker
  BY DEF DeployInv, RecordsOutlive
<1>5. ASSUME Clean(rt, o)
      PROVE  /\ ~Tagged(rt) /\ rt.entries # "ours" /\ rt.manifest.kind # "ours"
             /\ "root" \notin rt.files
  <2>1. /\ rt.manifest.kind # "ours" /\ rt.box = "none" /\ ~rt.marker
        /\ TaggedObjects(rt) = {} /\ ~("root" \in rt.files /\ rt.box = "none")
    BY <1>1, <1>3, <1>5 DEF Clean
  <2> QED BY <1>4, <2>1 DEF Tagged
<1>6. ASSUME rt.box = "none", ~rt.marker, TaggedObjects(rt) = {}, rt.manifest.kind # "ours",
             ~("dir" \in rt.files /\ DirEmpty(rt)), ~Clean(rt, o)
      PROVE  "root" \in rt.files
  <2>1. ASSUME NEW s PROVE ~Owned(rt, o, s)
    <3>1. Ours(s) \notin rt.objs
      BY <1>6 DEF TaggedObjects, Ours
    <3> QED BY <1>6, <3>1 DEF Owned
  <2> QED BY <1>6, <2>1 DEF Clean
<1> QED
  BY <1>5, <1>6

\* The count lets the stores be dropped only when nothing of ours is left.
LEMMA VerifySteps == DeployInv /\ Verify => DeployInv' /\ Untouched
<1> SUFFICES ASSUME DeployInv, Verify PROVE DeployInv' /\ Untouched
  OBVIOUS
<1>1. /\ rt \in RouterRecord /\ run \in RunRecord /\ run.failed \in BOOLEAN
      /\ Doing("verify") /\ ~Idle /\ Head(run.todo).do = "verify"
      /\ rt' = rt /\ store' = store /\ runs' = runs /\ operator' = operator /\ turned' = turned
      /\ legacy' = legacy /\ lost' = lost /\ lost \in BOOLEAN /\ turned \in BOOLEAN
      /\ failures \in 0 .. MaxFailures
  BY DEF Verify, DeployInv, DeployTyped, Doing, Idle, RunRecord
<1>2. /\ run.verb = "uninstall" /\ Stage(Head(run.todo)) = 6 /\ run.opts \in ShapeRecord
      /\ Tail(run.todo) # <<>> => Stage(Head(Tail(run.todo))) = 7
  <2>1. Stage(Head(run.todo)) = 6
    BY <1>1 DEF Stage
  <2> QED BY <1>1, <2>1, UninstallHead DEF RunRecord
<1>3. "tar" \in rt.files => lost \/ turned \/ rt.marker
  <2>1. ~Puts(Head(run.todo), "container") /\ ~Doing("undo")
    BY <1>1 DEF Puts, Doing
  <2> QED BY <2>1 DEF DeployInv, TarAccounted
<1>4. ~run.failed => /\ rt.box = "none" /\ ~rt.marker /\ TaggedObjects(rt) = {}
                     /\ rt.manifest.kind # "ours" /\ ~("dir" \in rt.files /\ DirEmpty(rt))
  BY <1>1, <1>2 DEF DeployInv, Removed
<1>5. CASE Clean(rt, run.opts) /\ GoOn(Tail(run.todo)) /\ failures' = failures
  <2>1. /\ ~Tagged(rt) /\ rt.entries # "ours" /\ rt.manifest.kind # "ours"
        /\ "root" \notin rt.files
    BY <1>2, <1>5, CleanMeans
  <2>2. run' = [run EXCEPT !.todo = Tail(@), !.failed = run.failed]
    BY <1>1, <1>5 DEF GoOn, RunRecord
  <2>3. /\ DeployTyped' /\ TodoFits' /\ Recorded' /\ Unwritten'
        /\ run'.verb = "uninstall" /\ run'.todo = Tail(run.todo) /\ run'.failed = run.failed
        /\ run'.result = "none" /\ run'.found = run.found
        /\ ~Idle' => ~Puts(Head(run'.todo), "manifest")
    <3>1. Stage(Head(run.todo)) > 0
      BY <1>2
    <3> QED BY <1>1, <1>2, <1>5, <2>2, <3>1, UninstallTyped
  <2>4. RecordsOutlive'
    BY <1>1 DEF DeployInv, RecordsOutlive
  <2>5. Unopposed'
    BY <1>1, <2>3 DEF DeployInv, Unopposed
  <2>6. TarAccounted'
    BY <1>1, <1>3 DEF TarAccounted
  <2>7. Removed'
    BY <1>1, <1>4, <2>3 DEF Removed, Idle
  <2>8. Verified'
    BY <1>1, <2>1, <2>3 DEF Verified
  <2> QED BY <1>1, <2>3, <2>4, <2>5, <2>6, <2>7, <2>8 DEF DeployInv, Untouched
<1>6. CASE ~Clean(rt, run.opts) /\ End("dirty") /\ failures' = failures
  <2>1. run' = [run EXCEPT !.todo = <<>>, !.result = "dirty", !.failed = run.failed]
    BY <1>1, <1>6 DEF End, RunRecord
  <2>2. run.failed \/ (rt.manifest.kind # "ours" /\ "root" \in rt.files /\ rt.box = "none")
    BY <1>2, <1>4, <1>6, CleanMeans
  <2>3. "dirty" \in Results /\ "dirty" # "refused" /\ "dirty" # "clean"
    BY DEF Results
  <2>4. failures' \in 0 .. MaxFailures /\ lost' \in BOOLEAN
    BY <1>1, <1>6
  <2>5. UNCHANGED <<rt, store, runs, operator, turned, legacy>>
    BY <1>1
  <2> QED BY <1>1, <1>3, <2>1, <2>2, <2>3, <2>4, <2>5, RunEnds
<1>7. CASE Fails /\ run' = [run EXCEPT !.todo = <<>>, !.result = "dirty", !.failed = TRUE]
  <2>1. failures' \in 0 .. MaxFailures /\ lost' \in BOOLEAN
    BY <1>1, <1>7, DeployAssumption DEF DeployAssumption, Fails
  <2>2. "dirty" \in Results /\ "dirty" # "refused" /\ "dirty" # "clean"
    BY DEF Results
  <2>3. UNCHANGED <<rt, store, runs, operator, turned, legacy>>
    BY <1>1
  <2> QED BY <1>1, <1>3, <1>7, <2>1, <2>2, <2>3, RunEnds
<1> QED
  BY <1>5, <1>6, <1>7 DEF Verify

\* The stores are dropped behind a router that was found clean.
LEMMA CarryOutSteps == DeployInv /\ CarryOut => DeployInv' /\ Untouched
<1> SUFFICES ASSUME DeployInv, CarryOut PROVE DeployInv' /\ Untouched
  OBVIOUS
<1>1. /\ run \in RunRecord /\ run.failed \in BOOLEAN /\ store \subseteq Items
      /\ run.found \subseteq OurItems
      /\ Doing("drop") /\ ~Idle /\ Head(run.todo).do = "drop"
      /\ rt' = rt /\ runs' = runs /\ operator' = operator /\ turned' = turned
      /\ legacy' = legacy /\ lost' = lost /\ failures \in 0 .. MaxFailures
  BY DEF CarryOut, DeployInv, DeployTyped, Doing, Idle, RunRecord
<1>2. run.verb = "uninstall"
  BY <1>1, UninstallHead
<1>3. PICK kept \in SUBSET run.found :
        /\ IF kept = {} THEN failures' = failures ELSE Fails
        /\ store' = store \ (run.found \ kept)
        /\ run' = [run EXCEPT !.todo = <<>>, !.failed = @ \/ kept # {},
                              !.result = IF kept = {} THEN "clean" ELSE "partial"]
  BY DEF CarryOut
<1>4. /\ run' \in RunRecord /\ run'.verb = run.verb /\ run'.todo = <<>>
      /\ run'.result = (IF kept = {} THEN "clean" ELSE "partial") /\ run'.found = run.found
  <2>1. {"clean", "partial"} \subseteq Results /\ <<>> \in Seq(Entry)
    BY DEF Results
  <2> QED BY <1>1, <1>3, <2>1 DEF RunRecord
<1>5. failures' \in 0 .. MaxFailures /\ store' \subseteq Items
  <2>1. CASE kept = {}
    BY <1>1, <1>3, <2>1
  <2>2. CASE kept # {}
    BY <1>1, <1>3, <2>2, DeployAssumption DEF DeployAssumption, Fails
  <2> QED BY <2>1, <2>2
<1>6. /\ ~Tagged(rt) /\ rt.entries # "ours" /\ rt.manifest.kind # "ours"
      /\ "root" \notin rt.files
  BY <1>1, <1>2 DEF DeployInv, Verified
<1>7. DeployTyped'
  BY <1>1, <1>4, <1>5 DEF DeployInv, DeployTyped
<1>8. TodoFits'
  BY <1>4 DEF TodoFits, Installs, Removes
<1>9. RecordsOutlive'
  BY <1>1 DEF DeployInv, RecordsOutlive
<1>10. Recorded' /\ Removed'
  BY <1>4 DEF Recorded, Removed, Idle
<1>11. Unopposed'
  BY <1>1, <1>4 DEF DeployInv, Unopposed, Idle
<1>12. TarAccounted'
  <2>1. ~Puts(Head(run.todo), "container") /\ ~Doing("undo")
    BY <1>1 DEF Puts, Doing
  <2> QED BY <1>1, <2>1 DEF DeployInv, TarAccounted
<1>13. Unwritten'
  BY <1>4 DEF Unwritten, Idle, Doing
<1>14. Verified'
  <2>1. kept = {} => store' \cap run'.found = {}
    BY <1>3, <1>4
  <2> QED BY <1>1, <1>4, <1>6, <2>1 DEF Verified, Tagged, TaggedObjects
<1>15. store' \ OurItems = store \ OurItems
  BY <1>1, <1>3
<1> QED
  BY <1>1, <1>7, <1>8, <1>9, <1>10, <1>11, <1>12, <1>13, <1>14, <1>15 DEF DeployInv, Untouched

-----------------------------------------------------------------------------
(* Every step.                                                              *)

\* Every step keeps the invariant and touches nothing that is not ours.
LEMMA DeploySteps == DeployInv /\ [DeployNext]_deployVars => DeployInv' /\ Untouched
<1> SUFFICES ASSUME DeployInv, [DeployNext]_deployVars PROVE DeployInv' /\ Untouched
  OBVIOUS
<1>1. CASE UNCHANGED deployVars
  <2>1. /\ rt' = rt /\ store' = store /\ run' = run /\ runs' = runs /\ failures' = failures
        /\ operator' = operator /\ lost' = lost /\ turned' = turned /\ legacy' = legacy
    BY <1>1 DEF deployVars
  <2>2. DeployTyped' /\ TodoFits' /\ RecordsOutlive'
    BY <2>1 DEF DeployInv, DeployTyped, TodoFits, RecordsOutlive
  <2>3. Recorded' /\ Unopposed' /\ TarAccounted'
    BY <2>1 DEF DeployInv, Recorded, Unopposed, TarAccounted, Idle, Doing
  <2>4. Unwritten' /\ Removed' /\ Verified'
    BY <2>1 DEF DeployInv, Unwritten, Removed, Verified, Idle, Doing
  <2> QED BY <2>1, <2>2, <2>3, <2>4 DEF DeployInv, Untouched
<1>2. CASE DeployNext
  BY <1>2, BeginSteps, ReadInstallSteps, ReadScriptSteps, ReadUpgradeSteps,
     ReadUninstallSteps, ListSteps, ReadFailsSteps, UploadSteps, SucceedsSteps,
     BreaksSteps, SweepSteps, VerifySteps, CarryOutSteps, KilledSteps, GoneSteps,
     OperatesSteps DEF DeployNext
<1> QED
  BY <1>1, <1>2

\* The invariant holds of every state of every run.
LEMMA DeployAlways == DeploySpec => []DeployInv
<1>1. DeployInit => DeployInv
  BY DeployStarts
<1>2. DeployInv /\ [DeployNext]_deployVars => DeployInv'
  BY DeploySteps
<1> QED
  BY <1>1, <1>2, PTL DEF DeploySpec

\* Whatever is done to the router, by a run that fails or is killed anywhere on
\* a line, by RouterOS or by the operator, the variables hold what the router
\* and a run can hold: what uninstall listed in the stores bears this
\* project's names, and an object has the step and the tag of a plan's.
THEOREM DeployTypes == DeploySpec => []DeployTypeOK
<1>1. DeployInv => DeployTypeOK
  <2>1. Object \subseteq [step : Names, id : Seq(STRING), tag : {"ours", "theirs"}]
    BY DEF Object
  <2> QED BY <2>1 DEF DeployInv, DeployTyped, DeployTypeOK, RouterRecord, ManifestRecord,
                      RunRecord, Results
<1> QED
  BY <1>1, DeployAlways, PTL

\* For every set of shapes, however often and wherever the console lines of
\* createStep and removeStep are cut short, no record is gone before what it
\* records: our envlist entries are signed by the marker, and while anything
\* carries the tag the manifest is there.
THEOREM RecordsOutliveHolds == DeploySpec => []RecordsOutlive
<1>1. DeployInv => RecordsOutlive
  BY DEF DeployInv
<1> QED
  BY <1>1, DeployAlways, PTL

\* What a run is refused for is found by its reads alone: Install, UpgradeRead
\* and UninstallShape have written nothing when they refuse; and stateOf never
\* reads as foreign, for any options, what an earlier run left of its own.
THEOREM RefusalsRightHolds == DeploySpec => []RefusalsRight
<1>1. DeployInv => RefusedWritesNothing
  BY DEF DeployInv, Unwritten, RefusedWritesNothing
<1>2. DeployInv => RerunNotRefused
  <2>1. SUFFICES ASSUME DeployInv, Idle, rt.entries # "theirs", rt.manifest.kind # "theirs",
                        \A ob \in rt.objs : ob.tag = "ours",
                        lost \/ turned => "tar" \notin rt.files,
                        NEW o \in Shapes, NEW s \in Range(Plan(o))
                 PROVE  StateOf(rt, o, s) # "foreign"
    BY DEF RerunNotRefused
  <2>2. /\ rt \in RouterRecord /\ o \in ShapeRecord
        /\ rt.entries = "ours" => rt.marker
        /\ rt.entries \in {"none", "ours"}
    BY <2>1, DeployAssumption DEF DeployAssumption, DeployInv, DeployTyped, RouterRecord,
                                  RecordsOutlive
  <2>3. Foreign(s) \notin rt.objs
    BY <2>1 DEF Foreign
  <2>4. "tar" \in rt.files => rt.marker
    BY <2>1 DEF DeployInv, TarAccounted, Idle
  <2>5. CASE s.step = "manifest"
    <3>1. rt.manifest.kind \in {"none", "ours"}
      BY <2>1, <2>2 DEF RouterRecord, ManifestRecord
    <3>2. Check(rt, o, s) => Owned(rt, o, s)
      BY <2>5, <3>1 DEF Check, Owned
    <3> QED BY <2>5, <3>2 DEF StateOf
  <2>6. CASE s.step = "container"
    <3>1. Check(rt, o, s) => Owned(rt, o, s)
      BY <2>2, <2>3, <2>4, <2>6 DEF Check, Owned
    <3> QED BY <2>6, <3>1 DEF StateOf
  <2>7. CASE s.step \notin {"manifest", "container"}
    <3>1. Check(rt, o, s) => Present(rt, o, s)
      BY <2>3, <2>7 DEF Check, Present
    <3> QED BY <3>1 DEF StateOf
  <2> QED BY <2>5, <2>6, <2>7
<1>3. DeployInv => RefusalsRight
  BY <1>1, <1>2 DEF RefusalsRight
<1> QED
  BY <1>3, DeployAlways, PTL

\* What verifyReport counts is the truth of the router at the end of an
\* uninstall, however the lines before it went: clean is said of nothing that
\* is still tagged, signed, recorded or rooted and of stores that hold none of
\* what was listed, and is not said without cause.
THEOREM UninstallTruthfulHolds == DeploySpec => []UninstallTruthful
<1>1. DeployInv => UninstallTruthful
  <2>1. SUFFICES ASSUME DeployInv, Idle, run.verb = "uninstall"
                 PROVE  /\ run.result = "clean" =>
                             /\ ~Tagged(rt) /\ rt.entries # "ours"
                             /\ rt.manifest.kind # "ours" /\ "root" \notin rt.files
                             /\ store \cap run.found = {}
                             /\ "tar" \in rt.files => lost \/ turned
                        /\ run.result = "dirty" =>
                             run.failed \/ (rt.manifest.kind # "ours" /\ "root" \in rt.files)
    BY DEF UninstallTruthful
  <2>2. "tar" \in rt.files => lost \/ turned \/ rt.marker
    BY <2>1 DEF DeployInv, TarAccounted
  <2>3. Tagged(rt) \/ ~rt.marker
    BY DEF Tagged
  <2> QED BY <2>1, <2>2, <2>3 DEF DeployInv, Verified
<1> QED
  BY <1>1, DeployAlways, PTL

\* No step of a run changes an object, an envlist, a manifest or a store item
\* that is not this project's, for any shapes and whatever the operator made:
\* every find of the console lines selects by the exact tag, the marker or the
\* tag line, and the removals of the stores by the project's names.
THEOREM ForeignUntouchedHolds == DeploySpec => ForeignUntouched
<1>1. DeployInv /\ [DeployNext]_deployVars =>
        [/\ operator' = operator =>
              {ob \in rt'.objs : ob.tag = "theirs"} = {ob \in rt.objs : ob.tag = "theirs"}
         /\ rt.entries = "theirs" => rt'.entries = "theirs"
         /\ rt.manifest.kind = "theirs" => rt'.manifest = rt.manifest
         /\ store \ OurItems = store' \ OurItems]_deployVars
  BY DeploySteps DEF Untouched, Foreigns
<1> QED
  BY <1>1, DeployAlways, PTL DEF DeploySpec, ForeignUntouched
=============================================================================
