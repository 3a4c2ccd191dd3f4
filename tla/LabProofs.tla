------------------------------ MODULE LabProofs ------------------------------
(***************************************************************************)
(* Proofs about Lab for every value of its constants: any drivers, any     *)
(* state directories and versions, any number of runs and of faults.       *)
(* LabInv is the inductive invariant: what is left of a run's steps (Along)*)
(* tells how far it is; whoever is past its guards has the lock (Control); *)
(* every file is an inode of its own and only a base is over nothing       *)
(* (World); and in one state directory, where one driver at a time is past *)
(* its guards, the snapshot there is is an exact one (Snapshots), the disk *)
(* being provisioned has what the steps behind put there (Provisions) and  *)
(* a reset that met no fault has left behind what its next step wants      *)
(* (Resets).                                                               *)
(***************************************************************************)
EXTENDS Lab, DataLemmas
-----------------------------------------------------------------------------
(* What is left of a run.                                                  *)

Ops == {"state", "lock", "ros", "clean", "provision", "live", "access", "routes", "off",
        "gone", "running", "use", "session", "done", "base", "grow", "remove", "wipe",
        "layer", "start", "empty", "setup", "ssh", "package", "mode", "quit", "power",
        "back", "confirmed", "takekey", "shutdown", "rm", "rename"}
LabStep == [op : Ops, disk : Disks \cup {"none"}]
Plain(o) == On(o, "none")
Ours(o) == On(o, "provision")

\* The disk a step is about.
Suits(x) ==
  /\ x.op \in {"wipe", "layer", "start"} => x.disk \in {"run", "provision"}
  /\ x.op \in {"base", "grow", "empty", "setup", "ssh", "package", "takekey",
               "shutdown", "rm", "rename"} => x.disk = "provision"
  /\ x.op \in {"remove", "mode", "confirmed", "quit", "power", "back"} =>
       x.disk \in {"none", "provision"}
  /\ x.op \in {"state", "lock", "ros", "clean", "provision", "live", "access", "routes",
               "off", "gone", "running", "use", "session", "done"} => x.disk = "none"

\* The step y may come after the step x in a run of the verb v.
Finals(v) == IF v \in {"provision", "reprovision"} THEN {Plain("done")} ELSE {}
Follows(v, x, y) ==
  /\ x.op = "state" => y = Plain("lock")
  /\ x.op = "lock" => /\ y \in {Plain("session"), Plain("off"), Plain("ros")}
                      /\ v = "reset" => y = Plain("ros")
  /\ x.op = "ros" => IF v = "reset" THEN y = Plain("clean")
                     ELSE y \in {Plain("provision"), Plain("running"), Plain("mode")}
  /\ x.op = "clean" => y = Plain("remove")
  /\ x.op = "provision" => y \in {Plain("live")} \cup Finals(v)
  /\ x.op = "live" => y = On("start", "run")
  /\ x.op = "access" => y = Plain("routes")
  /\ x.op = "off" => y = Plain("gone")
  /\ x.op = "running" => y \in {Plain("quit"), Plain("use")}
  /\ x.op \in {"routes", "gone", "use", "session"} => y = Plain("done")
  /\ x.op = "done" => y = Plain("session")
  /\ x.op \in {"base", "grow"} => y = Ours("remove")
  /\ x.op = "remove" => y = On("wipe", IF x.disk = "none" THEN "run" ELSE "provision")
  /\ x.op = "wipe" => y = On("layer", x.disk)
  /\ x.op = "layer" =>
       IF x.disk = "provision" THEN y = Ours("start")
       ELSE y \in {Plain("provision"), Plain("live"), On("start", "run")} \cup Finals(v)
  /\ x.op = "start" => y = IF x.disk = "run" THEN Plain("access") ELSE Ours("empty")
  /\ x.op = "empty" => y = Ours("setup")
  /\ x.op = "setup" => y = Ours("ssh")
  /\ x.op = "ssh" => y = Ours("package")
  /\ x.op = "package" => y = Ours("mode")
  /\ x.op \in {"mode", "confirmed"} =>
       y = IF x.disk = "provision" THEN Ours("takekey") ELSE Plain("done")
  /\ x.op = "quit" => y = On("power", x.disk)
  /\ x.op = "power" => y = On("back", x.disk)
  /\ x.op = "back" => \/ y = On("confirmed", x.disk)
                      \/ x.disk = "none" /\ y = Plain("done")
  /\ x.op = "takekey" => y = Ours("shutdown")
  /\ x.op = "shutdown" => y = Ours("rm")
  /\ x.op = "rm" => y = Ours("rename")
  /\ x.op = "rename" => y = On("wipe", "run")

\* Each step may come after the one before it; the command `lock' was given
\* is only followed by the end.
Links(v, t) ==
  /\ \A n \in 1 .. Len(t) : Suits(t[n]) /\ (t[n].op = "session" => Len(t) <= n + 1)
  /\ \A n \in 1 .. (Len(t) - 1) : Follows(v, t[n], t[n + 1])

\* And it ends as every run does.
Along(v, t) ==
  Links(v, t) /\ (t # <<>> => t[Len(t)] \in {Plain("done"), Plain("session")})

\* Steps that go from x to y.
Chain(v, a, x, y) ==
  /\ a \in Seq(LabStep) /\ a # <<>> /\ Links(v, a)
  /\ \A n \in 1 .. Len(a) : a[n].op # "session"
  /\ a[1] = x /\ a[Len(a)] = y

\* Steps put before others.
LEMMA LinksConcat ==
  ASSUME NEW v, NEW x, NEW y, NEW a, Chain(v, a, x, y),
         NEW t \in Seq(LabStep), Links(v, t),
         t # <<>> => Follows(v, y, t[1])
  PROVE  /\ a \o t \in Seq(LabStep) /\ a \o t # <<>> /\ Links(v, a \o t)
         /\ (a \o t)[1] = x /\ Head(a \o t) = x
         /\ t # <<>> => (a \o t)[Len(a \o t)] = t[Len(t)]
         /\ Len(a \o t) = Len(a) + Len(t)
<1> DEFINE w == a \o t
<1>1. /\ a \in Seq(LabStep) /\ Len(a) \in Nat \ {0} /\ Len(t) \in Nat
      /\ a[1] = x /\ a[Len(a)] = y
  BY DEF Chain
<1>2. /\ w \in Seq(LabStep) /\ Len(w) = Len(a) + Len(t)
      /\ \A i \in 1 .. Len(a) : w[i] = a[i]
      /\ \A i \in (Len(a) + 1) .. (Len(a) + Len(t)) : w[i] = t[i - Len(a)]
  BY <1>1, ConcatShape
<1> HIDE DEF w
<1>3. ASSUME NEW n \in 1 .. Len(w)
      PROVE  Suits(w[n]) /\ (w[n].op = "session" => Len(w) <= n + 1)
  <2>1. CASE n <= Len(a)
    BY <2>1, <1>1, <1>2 DEF Chain, Links
  <2>2. CASE n > Len(a)
    <3>1. n - Len(a) \in 1 .. Len(t) /\ w[n] = t[n - Len(a)]
      BY <2>2, <1>1, <1>2
    <3> QED BY <3>1, <1>1, <1>2 DEF Links
  <2> QED BY <2>1, <2>2, <1>1
<1>4. ASSUME NEW n \in 1 .. (Len(w) - 1) PROVE Follows(v, w[n], w[n + 1])
  <2>1. CASE n < Len(a)
    <3>1. w[n] = a[n] /\ w[n + 1] = a[n + 1] /\ n \in 1 .. (Len(a) - 1)
      BY <2>1, <1>1, <1>2
    <3> QED BY <3>1 DEF Chain, Links
  <2>2. CASE n = Len(a)
    <3>1. w[n] = y /\ w[n + 1] = t[1] /\ t # <<>>
      BY <2>2, <1>1, <1>2
    <3> QED BY <3>1
  <2>3. CASE n > Len(a)
    <3>1. /\ w[n] = t[n - Len(a)] /\ w[n + 1] = t[n - Len(a) + 1]
          /\ n - Len(a) \in 1 .. (Len(t) - 1)
      BY <2>3, <1>1, <1>2
    <3> QED BY <3>1 DEF Links
  <2> QED BY <2>1, <2>2, <2>3, <1>1
<1>5. Links(v, w)
  BY <1>3, <1>4 DEF Links
<1>6. w # <<>> /\ w[1] = x /\ Head(w) = x
  BY <1>1, <1>2
<1>7. t # <<>> => w[Len(w)] = t[Len(t)]
  BY <1>1, <1>2
<1> QED BY <1>2, <1>5, <1>6, <1>7 DEF w

\* Two runs of steps, one after the other.
LEMMA ChainConcat ==
  ASSUME NEW v, NEW x, NEW y, NEW z, NEW u, NEW a, NEW b,
         Chain(v, a, x, y), Chain(v, b, z, u), Follows(v, y, z)
  PROVE  Chain(v, a \o b, x, u)
<1>1. b \in Seq(LabStep) /\ Links(v, b) /\ b # <<>> /\ b[1] = z
  BY DEF Chain
<1>2. /\ a \o b \in Seq(LabStep) /\ a \o b # <<>> /\ Links(v, a \o b)
      /\ (a \o b)[1] = x /\ (a \o b)[Len(a \o b)] = b[Len(b)]
  BY <1>1, LinksConcat
<1>3. a \in Seq(LabStep) /\ Len(a) \in Nat /\ Len(b) \in Nat
  BY <1>1 DEF Chain
<1>4. /\ Len(a \o b) = Len(a) + Len(b)
      /\ \A i \in 1 .. Len(a) : (a \o b)[i] = a[i]
      /\ \A i \in (Len(a) + 1) .. (Len(a) + Len(b)) : (a \o b)[i] = b[i - Len(a)]
  BY <1>1, <1>3, ConcatShape
<1>5. ASSUME NEW n \in 1 .. Len(a \o b) PROVE (a \o b)[n].op # "session"
  <2>1. CASE n <= Len(a)
    BY <2>1, <1>3, <1>4 DEF Chain
  <2>2. CASE n > Len(a)
    <3>1. n - Len(a) \in 1 .. Len(b) /\ (a \o b)[n] = b[n - Len(a)]
      BY <2>2, <1>3, <1>4
    <3> QED BY <3>1 DEF Chain
  <2> QED BY <2>1, <2>2, <1>3
<1> QED BY <1>2, <1>5 DEF Chain

\* What is left after a step.
LEMMA AlongTail ==
  ASSUME NEW v, NEW t \in Seq(LabStep), t # <<>>, Along(v, t)
  PROVE  /\ Tail(t) \in Seq(LabStep) /\ Along(v, Tail(t))
         /\ Suits(Head(t)) /\ Head(t) = t[1] /\ Head(t) \in LabStep
         /\ Tail(t) = <<>> => Head(t) \in {Plain("done"), Plain("session")}
         /\ Tail(t) # <<>> => /\ Follows(v, Head(t), Head(Tail(t)))
                              /\ Suits(Head(Tail(t)))
                              /\ Head(Tail(t)) = Tail(t)[1]
                              /\ Head(Tail(t)) \in LabStep
<1> DEFINE w == Tail(t)
<1>1. /\ w \in Seq(LabStep) /\ Len(w) = Len(t) - 1 /\ Len(t) \in Nat \ {0}
      /\ Head(t) = t[1] /\ t[1] \in LabStep
      /\ \A i \in 1 .. (Len(t) - 1) : w[i] = t[i + 1]
  BY TailShape
<1> HIDE DEF w
<1>2. Links(v, t) /\ t[Len(t)] \in {Plain("done"), Plain("session")}
  BY DEF Along
<1>3. \A n \in 1 .. Len(w) : Suits(w[n]) /\ (w[n].op = "session" => Len(w) <= n + 1)
  BY <1>1, <1>2 DEF Links
<1>4. \A n \in 1 .. (Len(w) - 1) : Follows(v, w[n], w[n + 1])
  BY <1>1, <1>2 DEF Links
<1>5. w # <<>> => w[Len(w)] \in {Plain("done"), Plain("session")}
  BY <1>1, <1>2
<1>6. Along(v, w)
  BY <1>3, <1>4, <1>5 DEF Along, Links
<1>7. Suits(Head(t))
  BY <1>1, <1>2 DEF Links
<1>8. w = <<>> => Head(t) \in {Plain("done"), Plain("session")}
  <2>1. w = <<>> => Len(t) = 1
    BY <1>1
  <2> QED BY <2>1, <1>1, <1>2
<1>9. w # <<>> => /\ Follows(v, Head(t), Head(w)) /\ Suits(Head(w))
                  /\ Head(w) = w[1] /\ Head(w) \in LabStep
  <2> SUFFICES ASSUME w # <<>> PROVE
        /\ Follows(v, Head(t), Head(w)) /\ Suits(Head(w))
        /\ Head(w) = w[1] /\ Head(w) \in LabStep
    OBVIOUS
  <2>1. Head(w) = w[1] /\ w[1] = t[2] /\ 1 \in 1 .. (Len(t) - 1) /\ Head(w) \in LabStep
    BY <1>1
  <2>2. Follows(v, t[1], t[1 + 1])
    BY <2>1, <1>2 DEF Links
  <2> QED BY <2>1, <2>2, <1>1, <1>3
<1> QED BY <1>1, <1>6, <1>7, <1>8, <1>9 DEF w

\* Steps written one by one.
LEMMA Typed ==
  ASSUME NEW o \in Ops, NEW k \in {"none", "run", "provision"}
  PROVE  On(o, k) \in LabStep /\ On(o, k).op = o /\ On(o, k).disk = k
  BY DEF On, LabStep, Disks

LEMMA OneChain ==
  ASSUME NEW v, NEW x \in LabStep, Suits(x), x.op # "session"
  PROVE  Chain(v, <<x>>, x, x)
<1> DEFINE a == <<x>>
<1>1. a \in Seq(LabStep) /\ a # <<>> /\ Len(a) = 1 /\ a[1] = x
  OBVIOUS
<1> HIDE DEF a
<1>2. \A n \in 1 .. 1 : n = 1
  OBVIOUS
<1>3. Links(v, a)
  BY <1>1, <1>2 DEF Links
<1>4. Chain(v, a, x, x)
  BY <1>1, <1>2, <1>3 DEF Chain
<1> QED BY <1>4 DEF a

LEMMA PairChain ==
  ASSUME NEW v, NEW x \in LabStep, NEW y \in LabStep,
         Suits(x), Suits(y), Follows(v, x, y), x.op # "session", y.op # "session"
  PROVE  Chain(v, <<x, y>>, x, y)
<1> DEFINE a == <<x, y>>
<1>1. a \in Seq(LabStep) /\ a # <<>> /\ Len(a) = 2 /\ a[1] = x /\ a[2] = y
  OBVIOUS
<1> HIDE DEF a
<1>2. (\A n \in 1 .. 2 : n = 1 \/ n = 2) /\ \A n \in 1 .. 1 : n = 1
  OBVIOUS
<1>3. Links(v, a)
  BY <1>1, <1>2 DEF Links
<1>4. Chain(v, a, x, y)
  BY <1>1, <1>2, <1>3 DEF Chain
<1> QED BY <1>4 DEF a

LEMMA TripleChain ==
  ASSUME NEW v, NEW x \in LabStep, NEW y \in LabStep, NEW z \in LabStep,
         Suits(x), Suits(y), Suits(z), Follows(v, x, y), Follows(v, y, z),
         x.op # "session", y.op # "session", z.op # "session"
  PROVE  Chain(v, <<x, y, z>>, x, z)
<1> DEFINE a == <<x, y, z>>
<1>1. a \in Seq(LabStep) /\ a # <<>> /\ Len(a) = 3 /\ a[1] = x /\ a[2] = y /\ a[3] = z
  OBVIOUS
<1> HIDE DEF a
<1>2. (\A n \in 1 .. 3 : n = 1 \/ n = 2 \/ n = 3) /\ \A n \in 1 .. 2 : n = 1 \/ n = 2
  OBVIOUS
<1>3. Links(v, a)
  BY <1>1, <1>2 DEF Links
<1>4. Chain(v, a, x, z)
  BY <1>1, <1>2, <1>3 DEF Chain
<1> QED BY <1>4 DEF a

\* The runs of steps the verbs are made of.
LEMMA GuardsChain ==
  ASSUME NEW v \in Verbs
  PROVE  LET last == IF v = "lock" \/ v = "down" THEN Plain("lock") ELSE Plain("ros")
             first == IF v = "lock" THEN Plain("lock") ELSE Plain("state")
         IN Chain(v, Guards(v), first, last)
<1>1. CASE v = "lock"
  <2>1. Guards(v) = <<Plain("lock")>>
    BY <1>1 DEF Guards, Steps, StepsOn, On, Plain
  <2>2. Plain("lock") \in LabStep
    BY Typed DEF Ops, Plain
  <2>3. Suits(Plain("lock")) /\ Plain("lock").op # "session"
    BY DEF Suits, On, Plain
  <2> QED BY <1>1, <2>1, <2>2, <2>3, OneChain
<1>2. CASE v = "down"
  <2>1. Guards(v) = <<Plain("state"), Plain("lock")>>
    BY <1>2 DEF Guards, Steps, StepsOn, On, Plain
  <2>2. Plain("state") \in LabStep /\ Plain("lock") \in LabStep
    BY Typed DEF Ops, Plain
  <2>3. /\ Suits(Plain("state")) /\ Plain("state").op # "session"
        /\ Suits(Plain("lock")) /\ Plain("lock").op # "session"
        /\ Follows(v, Plain("state"), Plain("lock"))
    BY DEF Suits, Follows, On, Plain
  <2> QED BY <1>2, <2>1, <2>2, <2>3, PairChain
<1>3. CASE v # "lock" /\ v # "down"
  <2>1. Guards(v) = <<Plain("state"), Plain("lock"), Plain("ros")>>
    BY <1>3 DEF Guards, Steps, StepsOn, On, Plain
  <2>2. Plain("state") \in LabStep /\ Plain("lock") \in LabStep /\ Plain("ros") \in LabStep
    BY Typed DEF Ops, Plain
  <2>3. /\ Suits(Plain("state")) /\ Plain("state").op # "session"
        /\ Suits(Plain("lock")) /\ Plain("lock").op # "session"
        /\ Suits(Plain("ros")) /\ Plain("ros").op # "session"
        /\ Follows(v, Plain("state"), Plain("lock"))
        /\ Follows(v, Plain("lock"), Plain("ros"))
    BY DEF Suits, Follows, On, Plain
  <2> QED BY <1>3, <2>1, <2>2, <2>3, TripleChain
<1> QED BY <1>1, <1>2, <1>3

LEMMA OverlayChain ==
  ASSUME NEW v, NEW k \in {"run", "provision"}
  PROVE  Chain(v, Overlay(k), On("wipe", k), On("layer", k))
<1>1. Overlay(k) = <<On("wipe", k), On("layer", k)>>
  BY DEF Overlay, StepsOn, On
<1>2. On("wipe", k) \in LabStep /\ On("layer", k) \in LabStep
  BY Typed DEF Ops, Plain, Ours
<1>3. /\ Suits(On("wipe", k)) /\ On("wipe", k).op # "session"
      /\ Suits(On("layer", k)) /\ On("layer", k).op # "session"
      /\ Follows(v, On("wipe", k), On("layer", k))
  BY DEF Suits, Follows, On, Plain, Ours
<1> QED BY <1>1, <1>2, <1>3, PairChain

LEMMA CutChain ==
  ASSUME NEW v, NEW k \in {"none", "provision"}
  PROVE  Chain(v, Cut(k), On("quit", k), On("back", k))
<1>1. Cut(k) = <<On("quit", k), On("power", k), On("back", k)>>
  BY DEF Cut, StepsOn, On
<1>2. On("quit", k) \in LabStep /\ On("power", k) \in LabStep /\ On("back", k) \in LabStep
  BY Typed DEF Ops, Plain, Ours
<1>3. /\ Suits(On("quit", k)) /\ On("quit", k).op # "session"
      /\ Suits(On("power", k)) /\ On("power", k).op # "session"
      /\ Suits(On("back", k)) /\ On("back", k).op # "session"
      /\ Follows(v, On("quit", k), On("power", k))
      /\ Follows(v, On("power", k), On("back", k))
  BY DEF Suits, Follows, On, Plain, Ours
<1> QED BY <1>1, <1>2, <1>3, TripleChain

LEMMA UpChain ==
  ASSUME NEW v
  PROVE  Chain(v, UpSteps, Plain("provision"), Plain("routes"))
<1> DEFINE a == Steps(<<"provision", "live">>)
           b == StepsOn("run", <<"start">>)
           c == Steps(<<"access", "routes">>)
<1>1. a = <<Plain("provision"), Plain("live")>>
  BY DEF Steps, StepsOn, On, Plain
<1>2. b = <<On("start", "run")>>
  BY DEF StepsOn, On
<1>3. c = <<Plain("access"), Plain("routes")>>
  BY DEF Steps, StepsOn, On, Plain
<1> HIDE DEF a, b, c
<1>4. Chain(v, a, Plain("provision"), Plain("live"))
  <2>1. Plain("provision") \in LabStep /\ Plain("live") \in LabStep
    BY Typed DEF Ops, Plain, Ours
  <2>2. /\ Suits(Plain("provision")) /\ Plain("provision").op # "session"
        /\ Suits(Plain("live")) /\ Plain("live").op # "session"
        /\ Follows(v, Plain("provision"), Plain("live"))
    BY DEF Suits, Follows, On, Plain, Ours
  <2> QED BY <1>1, <2>1, <2>2, PairChain
<1>5. Chain(v, b, On("start", "run"), On("start", "run"))
  <2>1. On("start", "run") \in LabStep
    BY Typed DEF Ops, Plain, Ours
  <2>2. /\ Suits(On("start", "run")) /\ On("start", "run").op # "session"
    BY DEF Suits, Follows, On, Plain, Ours
  <2> QED BY <1>2, <2>1, <2>2, OneChain
<1>6. Chain(v, c, Plain("access"), Plain("routes"))
  <2>1. Plain("access") \in LabStep /\ Plain("routes") \in LabStep
    BY Typed DEF Ops, Plain, Ours
  <2>2. /\ Suits(Plain("access")) /\ Plain("access").op # "session"
        /\ Suits(Plain("routes")) /\ Plain("routes").op # "session"
        /\ Follows(v, Plain("access"), Plain("routes"))
    BY DEF Suits, Follows, On, Plain, Ours
  <2> QED BY <1>3, <2>1, <2>2, PairChain
<1>7. Follows(v, Plain("live"), On("start", "run"))
  BY DEF Follows, On, Plain
<1>8. Follows(v, On("start", "run"), Plain("access"))
  BY DEF Follows, On, Plain
<1>9. Chain(v, a \o b, Plain("provision"), On("start", "run"))
  BY <1>4, <1>5, <1>7, ChainConcat
<1>10. Chain(v, (a \o b) \o c, Plain("provision"), Plain("routes"))
  BY <1>6, <1>8, <1>9, ChainConcat
<1> QED BY <1>10 DEF UpSteps, a, b, c

LEMMA ProvisioningChain ==
  ASSUME NEW v
  PROVE  Chain(v, Provisioning, Ours("base"), On("layer", "run"))
<1> DEFINE a == StepsOn("provision",
          <<"base", "remove", "wipe", "layer", "start", "empty", "setup", "ssh",
            "package", "mode", "takekey", "shutdown", "rm", "rename">>)
<1>1. a = <<Ours("base"), Ours("remove"), Ours("wipe"), Ours("layer"), Ours("start"),
            Ours("empty"), Ours("setup"), Ours("ssh"), Ours("package"), Ours("mode"),
            Ours("takekey"), Ours("shutdown"), Ours("rm"), Ours("rename")>>
  BY DEF StepsOn, On, Ours
<1> HIDE DEF a
<1>2. Chain(v, a, Ours("base"), Ours("rename"))
  <2>1. Len(a) = 14 /\ a # <<>>
    BY <1>1
  <2>2. /\ a[1] = Ours("base")
        /\ a[2] = Ours("remove")
        /\ a[3] = Ours("wipe")
        /\ a[4] = Ours("layer")
        /\ a[5] = Ours("start")
        /\ a[6] = Ours("empty")
        /\ a[7] = Ours("setup")
        /\ a[8] = Ours("ssh")
        /\ a[9] = Ours("package")
        /\ a[10] = Ours("mode")
        /\ a[11] = Ours("takekey")
        /\ a[12] = Ours("shutdown")
        /\ a[13] = Ours("rm")
        /\ a[14] = Ours("rename")
    BY <1>1
  <2>3. a \in Seq(LabStep)
    <3>1. \A o \in Ops : Ours(o) \in LabStep
      BY Typed DEF Ours
    <3>2. /\ Ours("base") \in LabStep
          /\ Ours("remove") \in LabStep
          /\ Ours("wipe") \in LabStep
          /\ Ours("layer") \in LabStep
          /\ Ours("start") \in LabStep
          /\ Ours("empty") \in LabStep
          /\ Ours("setup") \in LabStep
          /\ Ours("ssh") \in LabStep
          /\ Ours("package") \in LabStep
          /\ Ours("mode") \in LabStep
          /\ Ours("takekey") \in LabStep
          /\ Ours("shutdown") \in LabStep
          /\ Ours("rm") \in LabStep
          /\ Ours("rename") \in LabStep
      BY <3>1 DEF Ops
    <3> QED BY <1>1, <3>2
  <2>4. \A n \in 1 .. 14 : \/ n = 1 \/ n = 2 \/ n = 3 \/ n = 4 \/ n = 5 \/ n = 6 \/ n = 7
                           \/ n = 8 \/ n = 9 \/ n = 10 \/ n = 11 \/ n = 12 \/ n = 13
                           \/ n = 14
    OBVIOUS
  <2>5. ASSUME NEW n \in 1 .. 14 PROVE Suits(a[n]) /\ a[n].op # "session"
    BY <2>2, <2>4 DEF Suits, Ours, On
  <2>6. ASSUME NEW n \in 1 .. 13 PROVE Follows(v, a[n], a[n + 1])
    <3>1. /\ Follows(v, Ours("base"), Ours("remove"))
          /\ Follows(v, Ours("remove"), Ours("wipe"))
          /\ Follows(v, Ours("wipe"), Ours("layer"))
          /\ Follows(v, Ours("layer"), Ours("start"))
          /\ Follows(v, Ours("start"), Ours("empty"))
          /\ Follows(v, Ours("empty"), Ours("setup"))
          /\ Follows(v, Ours("setup"), Ours("ssh"))
          /\ Follows(v, Ours("ssh"), Ours("package"))
          /\ Follows(v, Ours("package"), Ours("mode"))
          /\ Follows(v, Ours("mode"), Ours("takekey"))
          /\ Follows(v, Ours("takekey"), Ours("shutdown"))
          /\ Follows(v, Ours("shutdown"), Ours("rm"))
          /\ Follows(v, Ours("rm"), Ours("rename"))
      BY DEF Follows, Ours, On
    <3> QED BY <2>2, <2>4, <3>1
  <2>7. Links(v, a)
    BY <2>1, <2>5, <2>6 DEF Links
  <2> QED BY <2>1, <2>2, <2>3, <2>5, <2>7 DEF Chain
<1>3. Chain(v, Overlay("run"), On("wipe", "run"), On("layer", "run"))
  BY OverlayChain
<1>4. Follows(v, Ours("rename"), On("wipe", "run"))
  BY DEF Follows, On, Ours
<1>5. Chain(v, a \o Overlay("run"), Ours("base"), On("layer", "run"))
  BY <1>2, <1>3, <1>4, ChainConcat
<1> QED BY <1>5 DEF Provisioning, a

\* What device mode's change takes, once asked for.
LEMMA ModeChain ==
  ASSUME NEW v, NEW k \in {"none", "provision"}
  PROVE  Chain(v, Cut(k) \o StepsOn(k, <<"confirmed">>), On("quit", k), On("confirmed", k))
<1>1. StepsOn(k, <<"confirmed">>) = <<On("confirmed", k)>>
  BY DEF StepsOn, On
<1>2. Chain(v, StepsOn(k, <<"confirmed">>), On("confirmed", k), On("confirmed", k))
  <2>1. On("confirmed", k) \in LabStep
    BY Typed DEF Ops, Plain, Ours
  <2>2. /\ Suits(On("confirmed", k)) /\ On("confirmed", k).op # "session"
    BY DEF Suits, Follows, On, Plain, Ours
  <2> QED BY <1>1, <2>1, <2>2, OneChain
<1>3. Follows(v, On("back", k), On("confirmed", k))
  BY DEF Follows, On
<1> QED BY <1>2, <1>3, CutChain, ChainConcat

\* What a verb does once it is past its guards.
LEMMA ScriptChain ==
  ASSUME NEW v \in Verbs, v # "lock"
  PROVE  \E x, y :
           /\ Chain(v, Script[v], x, y) /\ Follows(v, y, Plain("done"))
           /\ IF v = "down" THEN x = Plain("off") ELSE
              IF v = "reset" THEN x = Plain("clean")
              ELSE x \in {Plain("provision"), Plain("running"), Plain("mode")}
<1>0. v \in {"up", "down", "reset", "powercycle", "provision", "reprovision", "cli", "device_mode"}
  BY DEF Verbs, Script
<1>1. CASE v = "up"
  <2>1. Script[v] = UpSteps
    BY <1>1 DEF Script
  <2>2. Follows(v, Plain("routes"), Plain("done"))
    BY DEF Follows, On, Plain
  <2> QED BY <1>1, <2>1, <2>2, UpChain
<1>2. CASE v = "down"
  <2>1. Script[v] = Steps(<<"off", "gone">>)
    BY <1>2 DEF Script
  <2>2. Script[v] = <<Plain("off"), Plain("gone")>>
    BY <2>1 DEF Steps, StepsOn, On, Plain
  <2>3. Follows(v, Plain("gone"), Plain("done"))
    BY DEF Follows, On, Plain
  <2>4. Chain(v, Script[v], Plain("off"), Plain("gone"))
    <3>1. Plain("off") \in LabStep /\ Plain("gone") \in LabStep
      BY Typed DEF Ops, Plain, Ours
    <3>2. /\ Suits(Plain("off")) /\ Plain("off").op # "session"
          /\ Suits(Plain("gone")) /\ Plain("gone").op # "session"
          /\ Follows(v, Plain("off"), Plain("gone"))
      BY DEF Suits, Follows, On, Plain, Ours
    <3> QED BY <2>2, <3>1, <3>2, PairChain
  <2> QED BY <1>2, <2>3, <2>4
<1>3. CASE v = "reset"
  <2> DEFINE a == Steps(<<"clean", "remove">>)
  <2>1. Script[v] = a \o Overlay("run") \o UpSteps
    BY <1>3 DEF Script
  <2>2. a = <<Plain("clean"), Plain("remove")>>
    BY DEF Steps, StepsOn, On, Plain
  <2> HIDE DEF a
  <2>3. Chain(v, a, Plain("clean"), Plain("remove"))
    <3>1. Plain("clean") \in LabStep /\ Plain("remove") \in LabStep
      BY Typed DEF Ops, Plain, Ours
    <3>2. /\ Suits(Plain("clean")) /\ Plain("clean").op # "session"
          /\ Suits(Plain("remove")) /\ Plain("remove").op # "session"
          /\ Follows(v, Plain("clean"), Plain("remove"))
      BY DEF Suits, Follows, On, Plain, Ours
    <3> QED BY <2>2, <3>1, <3>2, PairChain
  <2>4. /\ Follows(v, Plain("remove"), On("wipe", "run"))
        /\ Follows(v, On("layer", "run"), Plain("provision"))
        /\ Follows(v, Plain("routes"), Plain("done"))
    BY DEF Follows, On, Plain
  <2>5. Chain(v, a \o Overlay("run"), Plain("clean"), On("layer", "run"))
    BY <2>3, <2>4, OverlayChain, ChainConcat
  <2>6. Chain(v, (a \o Overlay("run")) \o UpSteps, Plain("clean"), Plain("routes"))
    BY <2>4, <2>5, UpChain, ChainConcat
  <2> QED BY <1>3, <2>1, <2>4, <2>6
<1>4. CASE v = "powercycle"
  <2> DEFINE a == Steps(<<"running">>)
  <2>1. Script[v] = a \o Cut("none")
    BY <1>4 DEF Script
  <2>2. a = <<Plain("running")>>
    BY DEF Steps, StepsOn, On, Plain
  <2> HIDE DEF a
  <2>3. Chain(v, a, Plain("running"), Plain("running"))
    <3>1. Plain("running") \in LabStep
      BY Typed DEF Ops, Plain, Ours
    <3>2. /\ Suits(Plain("running")) /\ Plain("running").op # "session"
      BY DEF Suits, Follows, On, Plain, Ours
    <3> QED BY <2>2, <3>1, <3>2, OneChain
  <2>4. /\ Follows(v, Plain("running"), On("quit", "none"))
        /\ Follows(v, On("back", "none"), Plain("done"))
    BY DEF Follows, On, Plain
  <2>5. Chain(v, a \o Cut("none"), Plain("running"), On("back", "none"))
    BY <2>3, <2>4, CutChain, ChainConcat
  <2> QED BY <1>4, <2>1, <2>4, <2>5
<1>5. CASE v \in {"provision", "reprovision"}
  <2>1. Script[v] = Steps(<<"provision">>)
    BY <1>5 DEF Script
  <2>2. Script[v] = <<Plain("provision")>>
    BY <2>1 DEF Steps, StepsOn, On, Plain
  <2>3. Follows(v, Plain("provision"), Plain("done"))
    BY <1>5 DEF Follows, Finals, On, Plain
  <2>4. Chain(v, Script[v], Plain("provision"), Plain("provision"))
    <3>1. Plain("provision") \in LabStep
      BY Typed DEF Ops, Plain, Ours
    <3>2. /\ Suits(Plain("provision")) /\ Plain("provision").op # "session"
      BY DEF Suits, Follows, On, Plain, Ours
    <3> QED BY <2>2, <3>1, <3>2, OneChain
  <2> QED BY <1>5, <2>3, <2>4
<1>6. CASE v = "cli"
  <2>1. Script[v] = Steps(<<"running", "use">>)
    BY <1>6 DEF Script
  <2>2. Script[v] = <<Plain("running"), Plain("use")>>
    BY <2>1 DEF Steps, StepsOn, On, Plain
  <2>3. Follows(v, Plain("use"), Plain("done"))
    BY DEF Follows, On, Plain
  <2>4. Chain(v, Script[v], Plain("running"), Plain("use"))
    <3>1. Plain("running") \in LabStep /\ Plain("use") \in LabStep
      BY Typed DEF Ops, Plain, Ours
    <3>2. /\ Suits(Plain("running")) /\ Plain("running").op # "session"
          /\ Suits(Plain("use")) /\ Plain("use").op # "session"
          /\ Follows(v, Plain("running"), Plain("use"))
      BY DEF Suits, Follows, On, Plain, Ours
    <3> QED BY <2>2, <3>1, <3>2, PairChain
  <2> QED BY <1>6, <2>3, <2>4
<1>7. CASE v = "device_mode"
  <2>1. Script[v] = Steps(<<"mode">>)
    BY <1>7 DEF Script
  <2>2. Script[v] = <<Plain("mode")>>
    BY <2>1 DEF Steps, StepsOn, On, Plain
  <2>3. Follows(v, Plain("mode"), Plain("done"))
    BY DEF Follows, On, Plain
  <2>4. Chain(v, Script[v], Plain("mode"), Plain("mode"))
    <3>1. Plain("mode") \in LabStep
      BY Typed DEF Ops, Plain, Ours
    <3>2. /\ Suits(Plain("mode")) /\ Plain("mode").op # "session"
      BY DEF Suits, Follows, On, Plain, Ours
    <3> QED BY <2>2, <3>1, <3>2, OneChain
  <2> QED BY <1>7, <2>3, <2>4
<1> QED BY <1>0, <1>1, <1>2, <1>3, <1>4, <1>5, <1>6, <1>7
-----------------------------------------------------------------------------
(* Who drives.                                                             *)

\* Past its guards, or under the lock of a session.
Inside(d) == todo[d] # <<>> /\ (inherits[d] \/ Head(todo[d]).op \notin {"state", "lock"})

\* The drivers, their locks and what is left of their runs.
Control ==
  /\ home \in [Drivers -> Homes]
  /\ lock \in [States -> Drivers \cup {None}]
  /\ \A s \in States : lock[s] # None => Dir(lock[s]) = s /\ todo[lock[s]] # <<>>
  /\ inherits \in [Drivers -> BOOLEAN] /\ verb \in [Drivers -> Verbs \cup {"none"}]
  /\ failed \in [Drivers -> BOOLEAN] /\ calm \in [Drivers -> BOOLEAN]
  /\ turned \in BOOLEAN /\ runs \in 0 .. MaxRuns /\ faults \in 0 .. MaxFaults
  /\ todo \in [Drivers -> Seq(LabStep)]
  /\ \A d \in Drivers : Along(verb[d], todo[d])
  /\ \A d \in Drivers : inherits[d] => todo[d] # <<>>
  /\ ~turned => \A d \in Drivers : Inside(d) => lock[Dir(d)] = d

\* What a step of a driver leaves as it is.
Others(d) ==
  /\ home' = home /\ (~turned' => ~turned)
  /\ \A e \in Drivers : e # d =>
       /\ todo'[e] = todo[e] /\ inherits'[e] = inherits[e] /\ verb'[e] = verb[e]
       /\ calm'[e] = calm[e] /\ failed'[e] = failed[e]

\* Flags and counters of a step that are what such are.
Counted ==
  /\ turned' \in BOOLEAN /\ (~turned' => ~turned)
  /\ runs' \in 0 .. MaxRuns /\ faults' \in 0 .. MaxFaults
  /\ failed' \in [Drivers -> BOOLEAN] /\ calm' \in [Drivers -> BOOLEAN]

LEMMA Directory == Control => \A d \in Drivers : Dir(d) \in States /\ home[d] \in Homes
  BY DEF Control, Dir, States

\* A run goes on with other steps.
LEMMA GotoControl ==
  ASSUME Control, NEW d \in Drivers, NEW steps \in Seq(LabStep), Goto(d, steps),
         Along(verb[d], steps), home' = home, verb' = verb, Counted,
         \/ steps = <<>>
         \/ Inside(d)
         \/ ~inherits[d] /\ Head(steps).op \in {"state", "lock"}
  PROVE  /\ Control' /\ todo'[d] = steps
         /\ \A e \in Drivers : e # d => todo'[e] = todo[e] /\ inherits'[e] = inherits[e]
<1>1. /\ todo' = [todo EXCEPT ![d] = steps]
      /\ lock' = IF steps = <<>> /\ lock[Dir(d)] = d
                 THEN [lock EXCEPT ![Dir(d)] = None] ELSE lock
      /\ inherits' = [inherits EXCEPT ![d] = @ /\ steps # <<>>]
  BY DEF Goto
<1>2. /\ todo' \in [Drivers -> Seq(LabStep)] /\ todo'[d] = steps
      /\ \A e \in Drivers : e # d => todo'[e] = todo[e]
  BY <1>1 DEF Control
<1>3. /\ inherits' \in [Drivers -> BOOLEAN]
      /\ inherits'[d] = (inherits[d] /\ steps # <<>>)
      /\ \A e \in Drivers : e # d => inherits'[e] = inherits[e]
  <2>1. inherits[d] \in BOOLEAN /\ (inherits[d] /\ steps # <<>>) \in BOOLEAN
    BY DEF Control
  <2> QED BY <1>1, <2>1 DEF Control
<1>4. /\ lock' \in [States -> Drivers \cup {None}]
      /\ \A s \in States : lock'[s] # None => lock'[s] = lock[s] /\ (lock'[s] = d => steps # <<>>)
      /\ \A e \in Drivers : lock[Dir(e)] = e /\ (e = d => steps # <<>>) => lock'[Dir(e)] = e
  <2>1. lock \in [States -> Drivers \cup {None}] /\ Dir(d) \in States
    BY Directory DEF Control
  <2>2. \A s \in States : lock[s] = d => s = Dir(d)
    BY LabAssumption DEF Control, LabAssumption
  <2>3. \A e \in Drivers : Dir(e) \in States
    BY Directory
  <2> QED BY <1>1, <2>1, <2>2, <2>3
<1>5. \A e \in Drivers : Dir(e)' = Dir(e)
  BY DEF Dir
<1>6. ASSUME NEW s \in States, lock'[s] # None
      PROVE  home'[lock'[s]].state = s /\ todo'[lock'[s]] # <<>>
  <2>1. lock'[s] = lock[s] /\ lock[s] # None /\ lock[s] \in Drivers
    BY <1>4, <1>6 DEF Control
  <2>2. Dir(lock[s]) = s /\ todo[lock[s]] # <<>>
    BY <2>1 DEF Control
  <2> QED BY <1>2, <1>4, <1>6, <2>1, <2>2 DEF Dir
<1>7. \A e \in Drivers : Along(verb'[e], todo'[e])
  BY <1>2 DEF Control
<1>8. \A e \in Drivers : inherits'[e] => todo'[e] # <<>>
  BY <1>2, <1>3 DEF Control
<1>9. ASSUME ~turned', NEW e \in Drivers, Inside(e)' PROVE lock'[Dir(e)'] = e
  <2>1. ~turned
    BY <1>9 DEF Counted
  <2>2. CASE e # d
    <3>1. Inside(e)
      BY <1>2, <1>3, <1>9, <2>2 DEF Inside
    <3>2. lock[Dir(e)] = e
      BY <2>1, <3>1 DEF Control
    <3> QED BY <1>4, <1>5, <2>2, <3>2
  <2>3. CASE e = d
    <3>1. steps # <<>> /\ Inside(d)
      BY <1>2, <1>3, <1>9, <2>3 DEF Inside
    <3>2. lock[Dir(d)] = d
      BY <2>1, <3>1 DEF Control
    <3> QED BY <1>4, <1>5, <2>3, <3>1, <3>2
  <2> QED BY <2>2, <2>3
<1>10. Control'
  <2>1. home' \in [Drivers -> Homes] /\ verb' \in [Drivers -> Verbs \cup {"none"}]
    BY DEF Control
  <2>2. \A s \in States : lock'[s] # None => home'[lock'[s]].state = s /\ todo'[lock'[s]] # <<>>
    BY <1>6
  <2>3. ~turned' => \A e \in Drivers : Inside(e)' => lock'[Dir(e)'] = e
    BY <1>9
  <2> QED BY <1>2, <1>3, <1>4, <1>7, <1>8, <2>1, <2>2, <2>3 DEF Control, Counted, Dir
<1> QED BY <1>2, <1>3, <1>10

\* The next step of a run.
LEMMA NextControl ==
  ASSUME Control, NEW d \in Drivers, todo[d] # <<>>, Next1(d),
         home' = home, verb' = verb, Counted,
         Inside(d) \/ Head(todo[d]).op = "state"
  PROVE  /\ Control' /\ todo'[d] = Tail(todo[d])
         /\ \A e \in Drivers : e # d => todo'[e] = todo[e] /\ inherits'[e] = inherits[e]
         /\ Suits(Head(todo[d]))
         /\ todo'[d] # <<>> => /\ Follows(verb[d], Head(todo[d]), Head(todo'[d]))
                               /\ Suits(Head(todo'[d]))
                               /\ Head(todo'[d]) \in LabStep
<1>1. todo[d] \in Seq(LabStep) /\ Along(verb[d], todo[d]) /\ inherits[d] \in BOOLEAN
  BY DEF Control
<1> DEFINE t == Tail(todo[d])
<1>2. /\ t \in Seq(LabStep) /\ Along(verb[d], t)
      /\ Suits(Head(todo[d])) /\ Head(todo[d]) \in LabStep
      /\ t # <<>> => /\ Follows(verb[d], Head(todo[d]), Head(t))
                     /\ Suits(Head(t)) /\ Head(t) \in LabStep
  BY <1>1, AlongTail
<1>3. Goto(d, t)
  BY DEF Next1
<1>4. t = <<>> \/ Inside(d) \/ (~inherits[d] /\ Head(t).op \in {"state", "lock"})
  <2>1. CASE Head(todo[d]).op = "state" /\ t # <<>> /\ ~inherits[d]
    BY <1>2, <2>1 DEF Follows, Plain, On
  <2>2. CASE Head(todo[d]).op = "state" /\ inherits[d]
    BY <2>2 DEF Inside
  <2> QED BY <1>1, <2>1, <2>2
<1> HIDE DEF t
<1>5. /\ Control' /\ todo'[d] = t
      /\ \A e \in Drivers : e # d => todo'[e] = todo[e] /\ inherits'[e] = inherits[e]
  BY <1>2, <1>3, <1>4, GotoControl
<1> QED BY <1>2, <1>5 DEF t

\* A run goes on with steps put before those it had left.
LEMMA ThenControl ==
  ASSUME Control, NEW d \in Drivers, todo[d] # <<>>,
         NEW steps, NEW x, NEW y, Chain(verb[d], steps, x, y), Then(d, steps),
         Tail(todo[d]) # <<>> => Follows(verb[d], y, Head(Tail(todo[d]))),
         Tail(todo[d]) # <<>>,
         home' = home, verb' = verb, Counted, Inside(d)
  PROVE  /\ Control' /\ todo'[d] # <<>> /\ Head(todo'[d]) = x
         /\ \A e \in Drivers : e # d => todo'[e] = todo[e] /\ inherits'[e] = inherits[e]
<1>1. todo[d] \in Seq(LabStep) /\ Along(verb[d], todo[d])
  BY DEF Control
<1> DEFINE t == Tail(todo[d])
<1>2. t \in Seq(LabStep) /\ Along(verb[d], t) /\ t # <<>> /\ Head(t) = t[1]
  BY <1>1, AlongTail
<1>3. Links(verb[d], t) /\ t[Len(t)] \in {Plain("done"), Plain("session")}
      /\ Follows(verb[d], y, t[1])
  BY <1>2 DEF Along
<1>4. Goto(d, steps \o t)
  BY DEF Then
<1> HIDE DEF t
<1>5. /\ steps \o t \in Seq(LabStep) /\ steps \o t # <<>> /\ Links(verb[d], steps \o t)
      /\ Head(steps \o t) = x /\ (steps \o t)[Len(steps \o t)] = t[Len(t)]
  BY <1>2, <1>3, LinksConcat
<1> DEFINE w == steps \o t
<1> HIDE DEF w
<1>6. w \in Seq(LabStep) /\ w # <<>> /\ Along(verb[d], w) /\ Head(w) = x /\ Goto(d, w)
  BY <1>3, <1>4, <1>5 DEF Along, w
<1>7. /\ Control' /\ todo'[d] = w
      /\ \A e \in Drivers : e # d => todo'[e] = todo[e] /\ inherits'[e] = inherits[e]
  BY <1>6, GotoControl
<1> QED BY <1>6, <1>7

\* A run that ends with an error.
LEMMA FailControl ==
  ASSUME Control, NEW d \in Drivers, todo[d] # <<>>, NEW fault \in BOOLEAN, Fail(d, fault),
         home' = home, verb' = verb,
         turned' \in BOOLEAN, ~turned' => ~turned,
         runs' \in 0 .. MaxRuns, faults' \in 0 .. MaxFaults
  PROVE  /\ Control' /\ Others(d) /\ failed'[d] = TRUE /\ calm'[d] = (calm[d] /\ ~fault)
         /\ todo'[d] # <<>> => Head(todo'[d]) = Plain("session") /\ Inside(d)
<1>1. /\ failed' = [failed EXCEPT ![d] = TRUE]
      /\ calm' = [calm EXCEPT ![d] = @ /\ ~fault]
  BY DEF Fail
<1>2. /\ failed' \in [Drivers -> BOOLEAN] /\ failed'[d] = TRUE
      /\ \A e \in Drivers : e # d => failed'[e] = failed[e]
  BY <1>1 DEF Control
<1>3. /\ calm' \in [Drivers -> BOOLEAN] /\ calm'[d] = (calm[d] /\ ~fault)
      /\ \A e \in Drivers : e # d => calm'[e] = calm[e]
  <2>1. calm[d] \in BOOLEAN /\ (calm[d] /\ ~fault) \in BOOLEAN
    BY DEF Control
  <2> QED BY <1>1, <2>1 DEF Control
<1>4. Counted
  BY <1>2, <1>3 DEF Counted
<1> DEFINE steps == IF inherits[d] THEN Steps(<<"session">>) ELSE <<>>
<1>5. Steps(<<"session">>) = <<Plain("session")>>
  BY DEF Steps, StepsOn, On, Plain
<1>6. Plain("session") \in LabStep /\ Plain("session").op = "session"
  BY Typed DEF Ops, Plain
<1>7. <<Plain("session")>> \in Seq(LabStep) /\ Along(verb[d], <<Plain("session")>>)
  <2> DEFINE a == <<Plain("session")>>
  <2>1. a \in Seq(LabStep) /\ Len(a) = 1 /\ a[1] = Plain("session")
    BY <1>6
  <2>2. Suits(Plain("session"))
    BY DEF Suits, Plain, On
  <2> HIDE DEF a
  <2>3. \A n \in 1 .. 1 : n = 1
    OBVIOUS
  <2>4. Along(verb[d], a)
    BY <2>1, <2>2, <2>3 DEF Along, Links
  <2> QED BY <2>1, <2>4 DEF a
<1>8. /\ steps \in Seq(LabStep) /\ Along(verb[d], steps) /\ inherits[d] \in BOOLEAN
      /\ steps # <<>> => inherits[d] /\ Head(steps) = Plain("session")
  <2>1. Along(verb[d], <<>>) /\ <<>> \in Seq(LabStep)
    BY DEF Along, Links
  <2>2. Head(<<Plain("session")>>) = Plain("session")
    BY <1>6
  <2> QED BY <1>5, <1>7, <2>1, <2>2 DEF Control
<1>9. Goto(d, steps)
  BY DEF Fail
<1> HIDE DEF steps
<1>10. steps # <<>> => Inside(d)
  BY <1>8 DEF Inside
<1>11. /\ Control' /\ todo'[d] = steps
       /\ \A e \in Drivers : e # d => todo'[e] = todo[e] /\ inherits'[e] = inherits[e]
  BY <1>4, <1>8, <1>9, <1>10, GotoControl
<1> QED BY <1>2, <1>3, <1>8, <1>10, <1>11 DEF Others
-----------------------------------------------------------------------------
(* The disks and the container.                                            *)

Creds == States \cup {None}
InodeRecord == [over : Nat, set : SUBSET Things, key : Creds, password : Creds]
BoxRecord == [state : {"absent", "created", "exited", "running"}, home : Homes,
              disk : {"run", "provision"}, id : Nat, asked : BOOLEAN]

\* Each layer is over an older disk, each file a disk of its own; a base, and
\* it alone, is over nothing and has no credential, and no machine runs on it.
World ==
  /\ inodes \in Seq(InodeRecord) /\ \A i \in 1 .. Len(inodes) : inodes[i].over < i
  /\ names \in [Homes -> [Disks -> 0 .. Len(inodes)]]
  /\ box \in BoxRecord /\ box.id <= Len(inodes)
  /\ box.state = "running" => box.id # 0
  /\ \A h, g \in Homes, k, j \in Disks :
       names[h][k] # 0 /\ names[h][k] = names[g][j] => h = g /\ k = j
  /\ \A h \in Homes, k \in Disks :
       names[h][k] # 0 => (k = "base" <=> inodes[names[h][k]].over = 0)
  /\ box.id # 0 => inodes[box.id].over # 0
  /\ \A i \in 1 .. Len(inodes) :
       inodes[i].over = 0 => inodes[i].key = None /\ inodes[i].password = None

\* The snapshot of h boots, has no credential, and has what provisioning
\* puts on the base it is over, which is still there; no machine writes to it.
Exact(h) ==
  LET c == names[h]["clean"]
  IN  /\ names[h]["base"] # 0 /\ box.id # c
      /\ inodes[c].key = None /\ inodes[c].password = None
      /\ "torn" \notin inodes[c].set
      /\ inodes[inodes[c].over].over = 0
      /\ inodes[c].set = inodes[inodes[c].over].set \cup Provisioned

Snapshots ==
  \A h \in Homes : names[h]["clean"] # 0 => Exact(h)

\* A file that is there.
LEMMA FileThere ==
  ASSUME World, NEW h \in Homes, NEW k \in Disks, names[h][k] # 0
  PROVE  LET i == names[h][k]
         IN /\ i \in 1 .. Len(inodes) /\ inodes[i] \in InodeRecord
            /\ k # "base" => inodes[i].over \in 1 .. Len(inodes)
            /\ inodes[i].over < i
<1> DEFINE i == names[h][k]
<1>1. i \in 1 .. Len(inodes) /\ Len(inodes) \in Nat
  BY DEF World
<1>2. inodes[i] \in InodeRecord /\ inodes[i].over < i
  BY <1>1 DEF World
<1>3. k # "base" => inodes[i].over # 0
  BY DEF World
<1> HIDE DEF i
<1>4. inodes[i].over \in Nat
  BY <1>2 DEF InodeRecord
<1>5. k # "base" => inodes[i].over \in 1 .. Len(inodes)
  BY <1>1, <1>2, <1>3, <1>4
<1> QED BY <1>1, <1>2, <1>5 DEF i

\* A file goes: no snapshot loses its base.
LEMMA NameGone ==
  ASSUME World, NEW h \in Homes, NEW k \in Disks,
         names' = [names EXCEPT ![h][k] = 0], UNCHANGED <<inodes, box>>
  PROVE  /\ World'
         /\ Snapshots /\ (k = "base" => names[h]["clean"] = 0) => Snapshots'
         /\ \A g \in Homes, j \in Disks :
              names'[g][j] = IF g = h /\ j = k THEN 0 ELSE names[g][j]
<1>1. /\ names' \in [Homes -> [Disks -> 0 .. Len(inodes)]]
      /\ \A g \in Homes, j \in Disks :
           names'[g][j] = IF g = h /\ j = k THEN 0 ELSE names[g][j]
  BY DEF World
<1>2. World'
  BY <1>1 DEF World
<1>3. Snapshots /\ (k = "base" => names[h]["clean"] = 0) => Snapshots'
  BY <1>1 DEF Snapshots, Exact, Disks
<1> QED BY <1>1, <1>2, <1>3

\* A new disk under a name.
LEMMA NewDisk ==
  ASSUME World, NEW h \in Homes, NEW k \in Disks, NEW r \in InodeRecord,
         r.over \in 0 .. Len(inodes), k = "base" <=> r.over = 0,
         r.over = 0 => r.key = None /\ r.password = None,
         inodes' = Append(inodes, r), names' = [names EXCEPT ![h][k] = Len(inodes')],
         box' = box
  PROVE  /\ World'
         /\ Snapshots /\ k # "clean" => Snapshots'
         /\ Len(inodes') = Len(inodes) + 1
         /\ inodes'[Len(inodes')] = r
         /\ \A i \in 1 .. Len(inodes) : inodes'[i] = inodes[i]
         /\ \A g \in Homes, j \in Disks :
              names'[g][j] = IF g = h /\ j = k THEN Len(inodes') ELSE names[g][j]
<1>0. inodes \in Seq(InodeRecord) /\ Len(inodes) \in Nat
  BY DEF World
<1>1. /\ inodes' \in Seq(InodeRecord) /\ Len(inodes') = Len(inodes) + 1
      /\ inodes'[Len(inodes) + 1] = r
      /\ \A i \in 1 .. Len(inodes) : inodes'[i] = inodes[i]
  BY <1>0, AppendShape
<1>2. /\ names' \in [Homes -> [Disks -> 0 .. Len(inodes')]]
      /\ \A g \in Homes, j \in Disks :
           names'[g][j] = IF g = h /\ j = k THEN Len(inodes') ELSE names[g][j]
  BY <1>0, <1>1 DEF World
<1>3. /\ \A g \in Homes, j \in Disks : names[g][j] \in 0 .. Len(inodes)
      /\ box.id \in 0 .. Len(inodes)
  BY DEF World, BoxRecord
<1>4. World'
  <2>1. ASSUME NEW i \in 1 .. Len(inodes') PROVE inodes'[i].over < i
    <3>1. CASE i = Len(inodes) + 1
      BY <3>1, <1>0, <1>1
    <3>2. CASE i # Len(inodes) + 1
      <4>1. i \in 1 .. Len(inodes) /\ inodes'[i] = inodes[i]
        BY <3>2, <1>0, <1>1
      <4> QED BY <4>1 DEF World
    <3> QED BY <3>1, <3>2
  <2>2. box' \in BoxRecord /\ box'.id <= Len(inodes')
    BY <1>0, <1>1, <1>3 DEF World
  <2>3. box'.state = "running" => box'.id # 0
    BY DEF World
  <2>4. ASSUME NEW a \in Homes, NEW b \in Homes, NEW i \in Disks, NEW j \in Disks,
               names'[a][i] # 0, names'[a][i] = names'[b][j]
        PROVE  a = b /\ i = j
    BY <1>0, <1>1, <1>2, <1>3, <2>4 DEF World
  <2>5. ASSUME NEW a \in Homes, NEW j \in Disks, names'[a][j] # 0
        PROVE  j = "base" <=> inodes'[names'[a][j]].over = 0
    <3>1. CASE a = h /\ j = k
      BY <3>1, <1>1, <1>2
    <3>2. CASE ~(a = h /\ j = k)
      BY <3>2, <1>0, <1>1, <1>2, <1>3, <2>5 DEF World
    <3> QED BY <3>1, <3>2
  <2>6. box'.id # 0 => inodes'[box'.id].over # 0
    BY <1>0, <1>1, <1>3 DEF World
  <2>7. \A i \in 1 .. Len(inodes') :
          inodes'[i].over = 0 => inodes'[i].key = None /\ inodes'[i].password = None
    <3>1. \A i \in 1 .. Len(inodes') : i = Len(inodes) + 1 \/ i \in 1 .. Len(inodes)
      BY <1>0, <1>1
    <3>2. \A i \in 1 .. Len(inodes) :
            inodes'[i].over = 0 => inodes'[i].key = None /\ inodes'[i].password = None
      BY <1>1 DEF World
    <3> QED BY <3>1, <3>2, <1>1
  <2>8. \A a, b \in Homes, i, j \in Disks :
          names'[a][i] # 0 /\ names'[a][i] = names'[b][j] => a = b /\ i = j
    BY <2>4
  <2>9. \A a \in Homes, j \in Disks :
          names'[a][j] # 0 => (j = "base" <=> inodes'[names'[a][j]].over = 0)
    BY <2>5
  <2>10. \A i \in 1 .. Len(inodes') : inodes'[i].over < i
    BY <2>1
  <2>11. inodes' \in Seq(InodeRecord) /\ names' \in [Homes -> [Disks -> 0 .. Len(inodes')]]
    BY <1>1, <1>2
  <2> HIDE DEF InodeRecord, BoxRecord
  <2> QED BY <2>2, <2>3, <2>6, <2>7, <2>8, <2>9, <2>10, <2>11 DEF World
<1>5. ASSUME Snapshots, k # "clean", NEW g \in Homes, names'[g]["clean"] # 0
      PROVE  Exact(g)'
  <2> DEFINE c == names[g]["clean"]
  <2>1. "clean" \in Disks /\ "base" \in Disks
    BY DEF Disks
  <2>2. names'[g]["clean"] = c /\ c # 0
    BY <1>2, <1>5, <2>1
  <2>3. Exact(g)
    BY <1>5, <2>2 DEF Snapshots
  <2>4. c \in 1 .. Len(inodes) /\ inodes[c].over \in 1 .. Len(inodes)
    BY <2>1, <2>2, FileThere
  <2>5. inodes'[c] = inodes[c] /\ inodes'[inodes[c].over] = inodes[inodes[c].over]
    BY <1>1, <2>4
  <2>6. names'[g]["base"] # 0
    BY <1>0, <1>1, <1>2, <2>1, <2>3 DEF Exact
  <2>7. box'.id # c
    BY <2>3 DEF Exact
  <2> QED BY <2>2, <2>3, <2>5, <2>6, <2>7 DEF Exact
<1> QED BY <1>1, <1>2, <1>4, <1>5 DEF Snapshots

\* A disk's content changes, its layering does not.
LEMMA DiskSet ==
  ASSUME World, NEW i \in 1 .. Len(inodes), NEW r \in InodeRecord,
         r.over = inodes[i].over, r.over = 0 => r.key = None /\ r.password = None,
         inodes' = [inodes EXCEPT ![i] = r], names' = names, box' = box
  PROVE  /\ World'
         /\ Len(inodes') = Len(inodes) /\ inodes'[i] = r
         /\ \A j \in 1 .. Len(inodes) : j # i => inodes'[j] = inodes[j]
<1>1. /\ inodes' \in Seq(InodeRecord) /\ Len(inodes') = Len(inodes) /\ inodes'[i] = r
      /\ \A j \in 1 .. Len(inodes) : j # i => inodes'[j] = inodes[j]
  BY DEF World
<1>2. \A j \in 1 .. Len(inodes) : inodes'[j].over = inodes[j].over
  BY <1>1
<1>3. /\ \A g \in Homes, j \in Disks : names[g][j] \in 0 .. Len(inodes)
      /\ box.id \in 0 .. Len(inodes) /\ Len(inodes) \in Nat
  BY DEF World, BoxRecord
<1>4. World'
  BY <1>1, <1>2, <1>3 DEF World
<1> QED BY <1>1, <1>4

\* The machine writes to the disk it has, and the container changes: it has
\* no disk, the one it had, or the one of the name it was made with.
LEMMA MachineSet ==
  ASSUME World, inodes' \in Seq(InodeRecord), Len(inodes') = Len(inodes),
         \A j \in 1 .. Len(inodes) :
           /\ inodes'[j].over = inodes[j].over
           /\ j # box.id => inodes'[j] = inodes[j],
         names' = names, box' \in BoxRecord,
         \/ box'.id = 0 /\ box'.state # "running"
         \/ box'.id = box.id /\ (box'.state = "running" => box.id # 0)
         \/ box'.id = names[box'.home][box'.disk] /\ (box'.state = "running" => box'.id # 0)
  PROVE  World' /\ (Snapshots => Snapshots')
<1>1. \/ box'.id = 0
      \/ box'.id = box.id
      \/ /\ box'.home \in Homes /\ box'.disk \in {"run", "provision"}
         /\ box'.id = names[box'.home][box'.disk]
  BY DEF BoxRecord
<1>2. box'.id <= Len(inodes) /\ (box'.id # 0 => inodes[box'.id].over # 0)
  BY <1>1 DEF World, Disks
<1>3. /\ \A g \in Homes, j \in Disks : names[g][j] \in 0 .. Len(inodes)
      /\ box.id \in 0 .. Len(inodes) /\ box'.id \in 0 .. Len(inodes) /\ Len(inodes) \in Nat
  BY <1>2 DEF World, BoxRecord
<1>4. World'
  <2>1. \A i \in 1 .. Len(inodes) : inodes[i].over = 0 => i # box.id
    BY <1>3 DEF World
  <2>2. \A i \in 1 .. Len(inodes') :
          /\ inodes'[i].over < i
          /\ inodes'[i].over = 0 => inodes'[i].key = None /\ inodes'[i].password = None
    BY <2>1 DEF World
  <2>3. \A h \in Homes, k \in Disks :
          names'[h][k] # 0 => (k = "base" <=> inodes'[names'[h][k]].over = 0)
    BY <1>3 DEF World
  <2>4. box'.id # 0 => inodes'[box'.id].over # 0
    BY <1>2, <1>3
  <2>5. box'.state = "running" => box'.id # 0
    OBVIOUS
  <2>6. /\ names' \in [Homes -> [Disks -> 0 .. Len(inodes')]]
        /\ \A h, g \in Homes, k, j \in Disks :
             names'[h][k] # 0 /\ names'[h][k] = names'[g][j] => h = g /\ k = j
    BY DEF World
  <2> QED BY <1>2, <2>2, <2>3, <2>4, <2>5, <2>6 DEF World
<1>5. ASSUME Snapshots, NEW h \in Homes, names'[h]["clean"] # 0 PROVE Exact(h)'
  <2> DEFINE c == names[h]["clean"]
  <2>1. Exact(h) /\ c # 0 /\ "clean" \in Disks
    BY <1>5 DEF Snapshots, Disks
  <2>2. c \in 1 .. Len(inodes) /\ inodes[c].over \in 1 .. Len(inodes)
    BY <2>1, FileThere
  <2>3. box'.id # c
    BY <1>1, <2>1 DEF World, Disks, Exact
  <2>4. c # box.id /\ inodes[c].over # box.id
    <3>1. inodes[inodes[c].over].over = 0 /\ c # box.id
      BY <2>1 DEF Exact
    <3> QED BY <2>2, <3>1 DEF World
  <2>5. inodes'[c] = inodes[c] /\ inodes'[inodes[c].over] = inodes[inodes[c].over]
    BY <2>2, <2>4
  <2> QED BY <2>1, <2>3, <2>5 DEF Exact
<1> QED BY <1>4, <1>5 DEF Snapshots
-----------------------------------------------------------------------------
(* What a run past its guards has done.                                    *)

\* How far the provisioning is whose next step is o.
Stage(o) ==
  CASE o = "base" -> 1 [] o = "grow" -> 2 [] o = "remove" -> 3 [] o = "wipe" -> 4
    [] o = "layer" -> 5 [] o = "start" -> 6 [] o = "empty" -> 7 [] o = "setup" -> 8
    [] o = "ssh" -> 9 [] o = "package" -> 10 [] o = "mode" -> 11 [] o = "quit" -> 12
    [] o = "power" -> 13 [] o = "back" -> 14 [] o = "confirmed" -> 15
    [] o = "takekey" -> 16 [] o = "shutdown" -> 17 [] o = "rm" -> 18
    [] o = "rename" -> 19 [] OTHER -> 0

\* The disk being provisioned is over a base, and beside what the base has
\* only what provisioning puts there; its password is never set.
Layered(d) ==
  LET p == File(d, "provision")
      under == inodes[inodes[p].over]
  IN  /\ p # 0 /\ File(d, "base") # 0 /\ under.over = 0
      /\ under.set \subseteq inodes[p].set
      /\ inodes[p].set \subseteq under.set \cup Provisioned
      /\ inodes[p].password = None

\* It is the one of the container there is.
Boxed(d) ==
  /\ box.state \in {"exited", "running"} /\ box.home = home[d]
  /\ box.disk = "provision" /\ box.id = File(d, "provision")

Provisions(d, o) ==
  LET p == inodes[File(d, "provision")]
      s == Stage(o)
  IN  /\ s = 2 => File(d, "base") = Len(inodes) /\ File(d, "base") # 0 /\ File(d, "clean") = 0
      /\ s \in {4, 5, 6, 19} => box = Absent
      /\ s \in 7 .. 18 => Boxed(d)
      /\ s \in 6 .. 19 => Layered(d)
      /\ s \in 8 .. 19 => "torn" \notin p.set
      /\ s \in 9 .. 19 => "name" \in p.set
      /\ s \in 11 .. 19 => "package" \in p.set
      /\ s \in 16 .. 19 => "mode" \in p.set
      /\ s \in 17 .. 19 => p.key = None

\* The live layer is new, over the snapshot there is.
Fresh(d) ==
  LET r == inodes[File(d, "run")]
      c == File(d, "clean")
  IN  /\ File(d, "run") # 0 /\ r.over = c /\ r.set = inodes[c].set
      /\ r.key = None /\ r.password = None

\* What a reset that met no fault of its own has left for its next step.
Resets(d, o) ==
  /\ o \in {"state", "lock", "ros", "clean", "remove", "wipe", "layer", "provision",
            "live", "start", "access", "routes", "done", "session"}
  /\ o \notin {"state", "lock", "ros", "clean"} => File(d, "clean") # 0
  /\ o \in {"wipe", "layer", "provision", "live", "start"} => box = Absent
  /\ o \in {"provision", "live", "start", "access"} => Fresh(d)
  /\ o = "access" => /\ box.state = "running" /\ box.home = home[d] /\ box.disk = "run"
                     /\ box.id = File(d, "run")
  /\ o \in {"routes", "done", "session"} => Restored(d)

\* What holds before the next step of d.
Heads(d) ==
  LET h == Head(todo[d])
  IN  /\ h.disk = "provision" => Provisions(d, h.op)
      /\ verb[d] = "reset" /\ calm[d] => h.disk # "provision" /\ Resets(d, h.op)

Driving == OneLab => \A d \in Drivers : Inside(d) => Heads(d)
Unfailed == OneLab => \A d \in Drivers : verb[d] = "reset" /\ calm[d] => ~failed[d]

LabInv == Control /\ World /\ (OneLab => Snapshots) /\ Driving /\ Unfailed
-----------------------------------------------------------------------------
(* Steps, put together.                                                    *)

LEMMA SameLab ==
  ASSUME NEW d \in Drivers, Others(d)
  PROVE  OneLab' => OneLab
  BY DEF Others, OneLab, Dir

\* A driver past its guards is alone there: whatever it did to the disks and
\* the container, only its own next step is asked about.
LEMMA AloneKeeps ==
  ASSUME LabInv, NEW d \in Drivers, Inside(d), Others(d), Control', World',
         OneLab' => Snapshots',
         OneLab' /\ todo'[d] # <<>> => Heads(d)',
         OneLab' /\ verb'[d] = "reset" /\ calm'[d] => ~failed'[d]
  PROVE  LabInv'
<1>1. ASSUME OneLab', NEW e \in Drivers, Inside(e)' PROVE Heads(e)'
  <2>1. CASE e = d
    BY <1>1, <2>1 DEF Inside
  <2>2. CASE e # d
    <3>1. Inside(e)
      BY <1>1, <2>2 DEF Inside, Others
    <3>2. OneLab
      BY <1>1, SameLab
    <3>3. lock[Dir(e)] = e /\ lock[Dir(d)] = d
      BY <3>1, <3>2 DEF LabInv, Control, OneLab
    <3> QED BY <2>2, <3>2, <3>3 DEF OneLab
  <2> QED BY <2>1, <2>2
<1>2. ASSUME OneLab', NEW e \in Drivers, verb'[e] = "reset", calm'[e] PROVE ~failed'[e]
  <2>1. CASE e = d
    BY <1>2, <2>1
  <2>2. CASE e # d
    BY <1>2, <2>2, SameLab DEF LabInv, Unfailed, Others
  <2> QED BY <2>1, <2>2
<1> QED BY <1>1, <1>2 DEF LabInv, Driving, Unfailed

\* What holds before a step is about the disks and the container.
LEMMA HeadsStay ==
  ASSUME NEW e, UNCHANGED <<inodes, names, box, home>>,
         todo'[e] = todo[e], verb'[e] = verb[e], calm'[e] = calm[e]
  PROVE  Heads(e)' <=> Heads(e)
<1>1. (Layered(e)' <=> Layered(e)) /\ (Boxed(e)' <=> Boxed(e)) /\ (Fresh(e)' <=> Fresh(e))
  BY DEF Layered, Boxed, Fresh, File
<1>2. Restored(e)' <=> Restored(e)
  BY DEF Restored, File, Guest, Dir
<1> DEFINE o == Head(todo[e]).op
<1> HIDE DEF o
<1>3. Provisions(e, o)' <=> Provisions(e, o)
  <2>1. o' = o
    BY DEF o
  <2>2. Absent' = Absent
    BY DEF Absent
  <2> QED BY <1>1, <2>1, <2>2 DEF Provisions, File
<1>4. Resets(e, o)' <=> Resets(e, o)
  <2>1. o' = o
    BY DEF o
  <2>2. Absent' = Absent
    BY DEF Absent
  <2> QED BY <1>1, <1>2, <2>1, <2>2 DEF Resets, File
<1> QED BY <1>3, <1>4 DEF Heads, o

\* A step that touches neither disks nor container.
LEMMA LookKeeps ==
  ASSUME LabInv, NEW d \in Drivers, Others(d), Control', UNCHANGED <<inodes, names, box>>,
         OneLab' /\ Inside(d)' => Heads(d)',
         OneLab' /\ verb'[d] = "reset" /\ calm'[d] => ~failed'[d]
  PROVE  LabInv'
<1>1. ASSUME OneLab', NEW e \in Drivers, Inside(e)' PROVE Heads(e)'
  <2>1. CASE e = d
    BY <1>1, <2>1
  <2>2. CASE e # d
    <3>1. Inside(e)
      BY <1>1, <2>2 DEF Inside, Others
    <3>2. Heads(e)
      BY <1>1, <3>1, SameLab DEF LabInv, Driving
    <3>3. /\ todo'[e] = todo[e] /\ verb'[e] = verb[e] /\ calm'[e] = calm[e] /\ home' = home
      BY <2>2 DEF Others
    <3> QED BY <3>2, <3>3, HeadsStay
  <2> QED BY <2>1, <2>2
<1>2. ASSUME OneLab', NEW e \in Drivers, verb'[e] = "reset", calm'[e] PROVE ~failed'[e]
  <2>1. CASE e = d
    BY <1>2, <2>1
  <2>2. CASE e # d
    BY <1>2, <2>2, SameLab DEF LabInv, Unfailed, Others
  <2> QED BY <2>1, <2>2
<1>3. World' /\ (Snapshots => Snapshots')
  <2>1. World'
    BY DEF LabInv, World
  <2>2. Snapshots => Snapshots'
    BY DEF Snapshots, Exact
  <2> QED BY <2>1, <2>2
<1>4. OneLab' => Snapshots'
  BY <1>3, SameLab DEF LabInv
<1> QED BY <1>1, <1>2, <1>3, <1>4 DEF LabInv, Driving, Unfailed

\* What is known of a step past the guards, and of the one after it.
LEMMA StepFacts ==
  ASSUME LabInv, NEW d \in Drivers, Inside(d), Next1(d),
         UNCHANGED <<failed, calm>>, Quiet
  PROVE  /\ Control' /\ Others(d) /\ UNCHANGED <<home, verb, calm, failed>>
         /\ OneLab' <=> OneLab
         /\ Suits(Head(todo[d])) /\ (OneLab => Heads(d))
         /\ todo'[d] # <<>> => /\ Follows(verb[d], Head(todo[d]), Head(todo'[d]))
                               /\ Suits(Head(todo'[d])) /\ Head(todo'[d]) \in LabStep
         /\ OneLab' /\ verb'[d] = "reset" /\ calm'[d] => ~failed'[d]
<1>1. Counted
  BY DEF LabInv, Control, Counted, Quiet, bounds
<1>2. todo[d] # <<>> /\ home' = home /\ verb' = verb /\ turned' = turned /\ Control
  BY DEF Inside, Quiet, bounds, LabInv
<1>3. /\ Control' /\ Suits(Head(todo[d]))
      /\ \A e \in Drivers : e # d => todo'[e] = todo[e] /\ inherits'[e] = inherits[e]
      /\ todo'[d] # <<>> => /\ Follows(verb[d], Head(todo[d]), Head(todo'[d]))
                            /\ Suits(Head(todo'[d])) /\ Head(todo'[d]) \in LabStep
  BY <1>1, <1>2, NextControl
<1>4. Others(d)
  BY <1>2, <1>3 DEF Others
<1>5. OneLab' <=> OneLab
  BY <1>2 DEF OneLab, Dir
<1>6. OneLab => Heads(d)
  BY DEF LabInv, Driving
<1>7. OneLab' /\ verb'[d] = "reset" /\ calm'[d] => ~failed'[d]
  BY <1>2, <1>5 DEF LabInv, Unfailed
<1> QED BY <1>2, <1>3, <1>4, <1>5, <1>6, <1>7

\* A step that fails while nothing changed, or while the driver was past its
\* guards; a calm reset does not fail.
LEMMA FailKeeps ==
  ASSUME LabInv, NEW d \in Drivers, todo[d] # <<>>, NEW fault \in BOOLEAN, Fail(d, fault),
         home' = home, verb' = verb, turned' = turned,
         runs' \in 0 .. MaxRuns, faults' \in 0 .. MaxFaults,
         \/ UNCHANGED <<inodes, names, box>>
         \/ Inside(d) /\ World' /\ (OneLab => Snapshots'),
         fault \/ ~(OneLab /\ verb[d] = "reset" /\ calm[d])
  PROVE  LabInv'
<1>1. turned' \in BOOLEAN /\ Control
  BY DEF LabInv, Control
<1>2. /\ Control' /\ Others(d) /\ failed'[d] = TRUE /\ calm'[d] = (calm[d] /\ ~fault)
      /\ todo'[d] # <<>> => Head(todo'[d]) = Plain("session") /\ Inside(d)
  BY <1>1, FailControl
<1>3. OneLab' => OneLab
  BY <1>2, SameLab
<1>4. OneLab' => ~(verb'[d] = "reset" /\ calm'[d])
  BY <1>2, <1>3
<1>5. OneLab' /\ todo'[d] # <<>> => Heads(d)'
  <2>1. Plain("session").disk # "provision"
    BY DEF Plain, On
  <2> QED BY <1>2, <1>4, <2>1 DEF Heads
<1>6. CASE UNCHANGED <<inodes, names, box>>
  <2>1. Inside(d)' => todo'[d] # <<>>
    BY DEF Inside
  <2> QED BY <1>2, <1>4, <1>5, <1>6, <2>1, LookKeeps
<1>7. CASE Inside(d) /\ World' /\ (OneLab => Snapshots')
  BY <1>2, <1>3, <1>4, <1>5, <1>7, AloneKeeps
<1> QED BY <1>6, <1>7

\* A step whose disk is "none" or "run" and whose verb is not a calm reset
\* tells nothing.
LEMMA StepInside ==
  ASSUME NEW d \in Drivers, NEW o, At(d, o), o \notin {"state", "lock"}
  PROVE  Inside(d) /\ todo[d] # <<>> /\ Head(todo[d]).op = o
  BY DEF At, Inside
-----------------------------------------------------------------------------
(* Each action keeps the invariant: the runs and their locks.              *)

\* What a session has left may come after a run of any verb.
LEMMA SessionLinks ==
  ASSUME Control, NEW d \in Drivers, NEW v, todo[d] = <<>> \/ At(d, "session")
  PROVE  /\ todo[d] \in Seq(LabStep) /\ Links(v, todo[d])
         /\ todo[d] # <<>> => /\ todo[d][1] = Plain("session")
                              /\ todo[d][Len(todo[d])] \in {Plain("done"), Plain("session")}
<1> DEFINE t == todo[d]
<1>1. t \in Seq(LabStep) /\ Along(verb[d], t)
  BY DEF Control
<1>2. t # <<>> => Head(t).op = "session"
  BY DEF At
<1> HIDE DEF t
<1>3. CASE t = <<>>
  BY <1>1, <1>3 DEF Links, t
<1>4. CASE t # <<>>
  <2>1. Head(t) = t[1] /\ Len(t) \in Nat \ {0} /\ t[1] \in LabStep
    BY <1>1, <1>4, TailShape
  <2>2. t[1].op = "session" /\ Suits(t[1]) /\ Len(t) <= 2
    BY <1>1, <1>2, <1>4, <2>1 DEF Along, Links
  <2>3. t[1] = Plain("session")
    BY <2>1, <2>2 DEF LabStep, Suits, Plain, On
  <2>4. t[Len(t)] \in {Plain("done"), Plain("session")}
    BY <1>1, <1>4 DEF Along
  <2>5. CASE Len(t) = 1
    BY <1>1, <1>4, <2>3, <2>4, <2>5 DEF Along, Links, t
  <2>6. CASE Len(t) = 2
    <3>1. Follows(verb[d], t[1], t[2])
      BY <1>1, <2>6 DEF Along, Links
    <3>2. t[2] = Plain("done")
      BY <2>2, <3>1 DEF Follows
    <3>3. Follows(v, t[1], t[2])
      BY <2>3, <3>2 DEF Follows, Plain, On
    <3>4. \A n \in 1 .. (Len(t) - 1) : n = 1
      BY <2>6
    <3>5. \A n \in 1 .. (Len(t) - 1) : Follows(v, t[n], t[n + 1])
      BY <3>3, <3>4
    <3>6. Links(v, t)
      BY <1>1, <3>5 DEF Along, Links
    <3> QED BY <1>1, <2>3, <2>4, <3>6 DEF t
  <2>7. Len(t) = 1 \/ Len(t) = 2
    <3>1. Len(t) \in Nat /\ Len(t) # 0 /\ Len(t) <= 2
      BY <2>1, <2>2
    <3>2. \A n \in Nat : n # 0 /\ n <= 2 => n = 1 \/ n = 2
      OBVIOUS
    <3> QED BY <3>1, <3>2
  <2> QED BY <2>5, <2>6, <2>7
<1> QED BY <1>3, <1>4

\* A run of a verb, put before what a session has left.
LEMMA VerbAlong ==
  ASSUME Control, NEW d \in Drivers, NEW v \in Verbs,
         todo[d] = <<>> \/ At(d, "session"), v = "lock" => todo[d] = <<>>
  PROVE  LET w == Guards(v) \o Script[v] \o Steps(<<"done">>) \o todo[d]
         IN /\ w \in Seq(LabStep) /\ w # <<>> /\ Along(v, w)
            /\ Head(w) \in {Plain("state"), Plain("lock")}
<1>1. /\ todo[d] \in Seq(LabStep) /\ Links(v, todo[d])
      /\ todo[d] # <<>> => /\ todo[d][1] = Plain("session")
                           /\ todo[d][Len(todo[d])] \in {Plain("done"), Plain("session")}
  BY SessionLinks
<1> DEFINE e == Steps(<<"done">>)
           a == Guards(v)
           b == Script[v]
           t == todo[d]
<1>2. e = <<Plain("done")>>
  BY DEF Steps, StepsOn, On, Plain
<1>3. Plain("done") \in LabStep /\ Suits(Plain("done")) /\ Plain("done").op # "session"
  <2>1. Plain("done") \in LabStep
    BY Typed DEF Ops, Plain
  <2> QED BY <2>1 DEF Suits, Plain, On
<1>4. CASE v # "lock"
  <2> DEFINE last == IF v = "down" THEN Plain("lock") ELSE Plain("ros")
  <2>1. Chain(v, a, Plain("state"), last)
    BY <1>4, GuardsChain
  <2>2. PICK x, y : /\ Chain(v, b, x, y) /\ Follows(v, y, Plain("done"))
                    /\ IF v = "down" THEN x = Plain("off") ELSE
                       IF v = "reset" THEN x = Plain("clean")
                       ELSE x \in {Plain("provision"), Plain("running"), Plain("mode")}
    BY <1>4, ScriptChain
  <2>3. Follows(v, last, x)
    BY <2>2 DEF Follows, Plain, On
  <2>4. Chain(v, e, Plain("done"), Plain("done"))
    BY <1>2, <1>3, OneChain
  <2> HIDE DEF a, b, e, t, last
  <2>5. Chain(v, a \o b, Plain("state"), y)
    BY <2>1, <2>2, <2>3, ChainConcat
  <2>6. Chain(v, (a \o b) \o e, Plain("state"), Plain("done"))
    BY <2>2, <2>4, <2>5, ChainConcat
  <2>7. t # <<>> => Follows(v, Plain("done"), t[1])
    BY <1>1 DEF Follows, Plain, On, t
  <2> DEFINE u == (a \o b) \o e
             w == u \o t
  <2> HIDE DEF u
  <2>8. Chain(v, u, Plain("state"), Plain("done")) /\ t \in Seq(LabStep) /\ Links(v, t)
    BY <1>1, <2>6 DEF u, t
  <2>9. /\ w \in Seq(LabStep) /\ w # <<>> /\ Links(v, w) /\ Head(w) = Plain("state")
        /\ t # <<>> => w[Len(w)] = t[Len(t)]
        /\ Len(w) = Len(u) + Len(t)
    BY <2>7, <2>8, LinksConcat
  <2>10. t = <<>> => w[Len(w)] = Plain("done")
    <3>1. u \in Seq(LabStep) /\ u # <<>> /\ u[Len(u)] = Plain("done")
      BY <2>8 DEF Chain
    <3>2. t = <<>> => w = u
      BY <3>1
    <3> QED BY <3>1, <3>2
  <2>11. Along(v, w)
    BY <1>1, <2>9, <2>10 DEF Along, t
  <2> QED BY <2>9, <2>11 DEF w, u, a, b, e, t
<1>5. CASE v = "lock"
  <2>1. Chain(v, a, Plain("lock"), Plain("lock"))
    BY <1>5, GuardsChain
  <2>2. b = Steps(<<"session">>)
    BY <1>5 DEF Script
  <2>3. b = <<Plain("session")>>
    BY <2>2 DEF Steps, StepsOn, On, Plain
  <2>4. t = <<>>
    BY <1>5
  <2> DEFINE f == b \o e
  <2>5. Plain("session") \in LabStep /\ Suits(Plain("session")) /\ Plain("session").op = "session"
    <3>1. Plain("session") \in LabStep
      BY Typed DEF Ops, Plain
    <3> QED BY <3>1 DEF Suits, Plain, On
  <2>6. a = <<Plain("lock")>>
    BY <1>5 DEF Guards, Steps, StepsOn, On, Plain
  <2>7. Plain("lock") \in LabStep /\ Suits(Plain("lock")) /\ Plain("lock").op = "lock"
    <3>1. Plain("lock") \in LabStep
      BY Typed DEF Ops, Plain
    <3> QED BY <3>1 DEF Suits, Plain, On
  <2> HIDE DEF a, b, e, t
  <2>8. /\ a \in Seq(LabStep) /\ Len(a) = 1 /\ a[1] = Plain("lock")
        /\ b \in Seq(LabStep) /\ Len(b) = 1 /\ b[1] = Plain("session")
        /\ e \in Seq(LabStep) /\ Len(e) = 1 /\ e[1] = Plain("done")
    BY <1>2, <1>3, <2>3, <2>5, <2>6, <2>7
  <2> DEFINE u == a \o b
             w == u \o e
  <2>9. u \in Seq(LabStep) /\ Len(u) = 2 /\ u[1] = Plain("lock") /\ u[2] = Plain("session")
    <3>1. /\ u \in Seq(LabStep) /\ Len(u) = Len(a) + Len(b)
          /\ \A i \in 1 .. Len(a) : u[i] = a[i]
          /\ \A i \in (Len(a) + 1) .. (Len(a) + Len(b)) : u[i] = b[i - Len(a)]
      BY <2>8, ConcatShape
    <3>2. 1 \in 1 .. Len(a) /\ 2 \in (Len(a) + 1) .. (Len(a) + Len(b)) /\ 2 - Len(a) = 1
      BY <2>8
    <3> QED BY <2>8, <3>1, <3>2
  <2> HIDE DEF u
  <2>10. /\ w \in Seq(LabStep) /\ Len(w) = 3 /\ w[1] = Plain("lock")
         /\ w[2] = Plain("session") /\ w[3] = Plain("done")
    <3>1. /\ w \in Seq(LabStep) /\ Len(w) = Len(u) + Len(e)
          /\ \A i \in 1 .. Len(u) : w[i] = u[i]
          /\ \A i \in (Len(u) + 1) .. (Len(u) + Len(e)) : w[i] = e[i - Len(u)]
      BY <2>8, <2>9, ConcatShape
    <3>2. /\ 1 \in 1 .. Len(u) /\ 2 \in 1 .. Len(u)
          /\ 3 \in (Len(u) + 1) .. (Len(u) + Len(e)) /\ 3 - Len(u) = 1
      BY <2>8, <2>9
    <3> QED BY <2>8, <2>9, <3>1, <3>2
  <2> HIDE DEF w
  <2>11. Follows(v, Plain("lock"), Plain("session")) /\ Follows(v, Plain("session"), Plain("done"))
    BY <1>5 DEF Follows, Plain, On
  <2>12. (\A n \in 1 .. 3 : n = 1 \/ n = 2 \/ n = 3) /\ \A n \in 1 .. 2 : n = 1 \/ n = 2
    OBVIOUS
  <2>13. Links(v, w)
    BY <1>3, <2>5, <2>7, <2>10, <2>11, <2>12 DEF Links
  <2>14. Along(v, w)
    BY <2>10, <2>13 DEF Along
  <2>15. Head(w) = Plain("lock") /\ w # <<>> /\ w \o t = w
    BY <2>4, <2>10
  <2>16. w \o t = a \o b \o e \o t
    BY DEF w, u
  <2> QED BY <2>10, <2>14, <2>15, <2>16 DEF a, b, e, t
<1> QED BY <1>4, <1>5

LEMMA BeginKeeps ==
  ASSUME LabInv, NEW d \in Drivers, Begin(d) PROVE LabInv'
<1>1. PICK v \in Verbs :
        /\ v = "lock" => todo[d] = <<>>
        /\ verb' = [verb EXCEPT ![d] = v]
        /\ todo' = [todo EXCEPT ![d] =
             Guards(v) \o Script[v] \o Steps(<<"done">>) \o todo[d]]
  BY DEF Begin
<1>2. /\ inherits' = [inherits EXCEPT ![d] = todo[d] # <<>>]
      /\ failed' = [failed EXCEPT ![d] = FALSE]
      /\ calm' = [calm EXCEPT ![d] = TRUE]
      /\ UNCHANGED <<home, inodes, names, box, lock, turned, faults>>
      /\ runs < MaxRuns /\ runs' = runs + 1
      /\ todo[d] = <<>> \/ At(d, "session")
  BY DEF Begin
<1>3. Control
  BY DEF LabInv
<1> DEFINE w == Guards(v) \o Script[v] \o Steps(<<"done">>) \o todo[d]
<1>4. /\ w \in Seq(LabStep) /\ w # <<>> /\ Along(v, w)
      /\ Head(w) \in {Plain("state"), Plain("lock")}
  BY <1>1, <1>2, <1>3, VerbAlong
<1>5. todo' = [todo EXCEPT ![d] = w]
  BY <1>1
<1> HIDE DEF w
<1>6. /\ todo' \in [Drivers -> Seq(LabStep)] /\ todo'[d] = w
      /\ verb' \in [Drivers -> Verbs \cup {"none"}] /\ verb'[d] = v
      /\ \A e \in Drivers : e # d => todo'[e] = todo[e] /\ verb'[e] = verb[e]
  BY <1>1, <1>3, <1>4, <1>5 DEF Control
<1>7. /\ inherits' \in [Drivers -> BOOLEAN] /\ inherits'[d] = (todo[d] # <<>>)
      /\ \A e \in Drivers : e # d => inherits'[e] = inherits[e]
  <2>1. (todo[d] # <<>>) \in BOOLEAN
    OBVIOUS
  <2> QED BY <1>2, <1>3, <2>1 DEF Control
<1>8. /\ failed' \in [Drivers -> BOOLEAN] /\ failed'[d] = FALSE
      /\ calm' \in [Drivers -> BOOLEAN]
      /\ \A e \in Drivers : e # d => failed'[e] = failed[e] /\ calm'[e] = calm[e]
  BY <1>2, <1>3 DEF Control
<1>9. Others(d)
  BY <1>2, <1>6, <1>7, <1>8 DEF Others
<1>10. Head(w).op \in {"state", "lock"} /\ Head(w).disk = "none"
  BY <1>4 DEF Plain, On
<1>11. todo[d] # <<>> => Inside(d)
  BY <1>2, StepInside
<1>12. ASSUME NEW s \in States, lock'[s] # None
       PROVE  home'[lock'[s]].state = s /\ todo'[lock'[s]] # <<>>
  <2>1. lock[s] \in Drivers /\ Dir(lock[s]) = s /\ todo[lock[s]] # <<>>
    BY <1>2, <1>3, <1>12 DEF Control
  <2> QED BY <1>2, <1>4, <1>6, <2>1 DEF Dir
<1>13. ASSUME ~turned', NEW e \in Drivers, Inside(e)' PROVE lock'[home'[e].state] = e
  <2>1. Inside(e)
    BY <1>4, <1>6, <1>7, <1>10, <1>11, <1>13 DEF Inside
  <2> QED BY <1>2, <1>3, <1>13, <2>1 DEF Control, Dir
<1>14. Control'
  <2>1. \A e \in Drivers : Along(verb'[e], todo'[e])
    BY <1>3, <1>4, <1>6 DEF Control
  <2>2. \A e \in Drivers : inherits'[e] => todo'[e] # <<>>
    BY <1>3, <1>4, <1>6, <1>7 DEF Control
  <2>3. /\ home' \in [Drivers -> Homes] /\ lock' \in [States -> Drivers \cup {None}]
        /\ turned' \in BOOLEAN /\ faults' \in 0 .. MaxFaults
    BY <1>2, <1>3 DEF Control
  <2>4. runs' \in 0 .. MaxRuns
    BY <1>2, <1>3, LabAssumption DEF Control, LabAssumption
  <2>5. \A s \in States : lock'[s] # None => home'[lock'[s]].state = s /\ todo'[lock'[s]] # <<>>
    BY <1>12
  <2>6. ~turned' => \A e \in Drivers : Inside(e)' => lock'[home'[e].state] = e
    BY <1>13
  <2> QED BY <1>6, <1>7, <1>8, <2>1, <2>2, <2>3, <2>4, <2>5, <2>6 DEF Control, Dir
<1>15. Heads(d)'
  BY <1>6, <1>10 DEF Heads, Resets
<1> QED BY <1>2, <1>8, <1>9, <1>14, <1>15, LookKeeps

LEMMA QuietFail ==
  ASSUME LabInv, NEW d \in Drivers, todo[d] # <<>>, NEW fault \in BOOLEAN, Fail(d, fault), Quiet,
         \/ UNCHANGED <<inodes, names, box>>
         \/ Inside(d) /\ World' /\ (OneLab => Snapshots'),
         fault \/ ~(OneLab /\ verb[d] = "reset" /\ calm[d])
  PROVE  LabInv'
<1>1. /\ home' = home /\ verb' = verb /\ turned' = turned
      /\ runs' \in 0 .. MaxRuns /\ faults' \in 0 .. MaxFaults
  BY DEF Quiet, bounds, LabInv, Control
<1> QED BY <1>1, FailKeeps

LEMMA GuardStateKeeps ==
  ASSUME LabInv, NEW d \in Drivers, GuardState(d) PROVE LabInv'
<1>1. /\ todo[d] # <<>> /\ Head(todo[d]).op = "state" /\ Quiet
      /\ UNCHANGED <<inodes, names, box>>
  BY DEF GuardState, At, NoDisks
<1>2. CASE Fail(d, TRUE)
  BY <1>1, <1>2, QuietFail
<1>3. CASE Next1(d) /\ UNCHANGED <<failed, calm>>
  <2>1. /\ home' = home /\ verb' = verb /\ turned' = turned /\ Control /\ Counted
    BY <1>1, <1>3 DEF LabInv, Control, Counted, Quiet, bounds
  <2>2. /\ Control'
        /\ \A e \in Drivers : e # d => todo'[e] = todo[e] /\ inherits'[e] = inherits[e]
        /\ todo'[d] # <<>> => Follows(verb[d], Head(todo[d]), Head(todo'[d]))
    BY <1>1, <1>3, <2>1, NextControl
  <2>3. Others(d)
    BY <1>3, <2>1, <2>2 DEF Others
  <2>4. todo'[d] # <<>> => Head(todo'[d]) = Plain("lock")
    BY <1>1, <2>2 DEF Follows
  <2>5. Inside(d)' => Heads(d)'
    BY <2>4 DEF Inside, Heads, Resets, Plain, On
  <2>6. OneLab' /\ verb'[d] = "reset" /\ calm'[d] => ~failed'[d]
    BY <1>3, <2>1, <2>3, SameLab DEF LabInv, Unfailed
  <2> QED BY <1>1, <2>2, <2>3, <2>5, <2>6, LookKeeps
<1> QED BY <1>2, <1>3 DEF GuardState

LEMMA TakeLockKeeps ==
  ASSUME LabInv, NEW d \in Drivers, TakeLock(d) PROVE LabInv'
<1>1. /\ todo[d] # <<>> /\ Head(todo[d]).op = "lock" /\ Quiet
      /\ UNCHANGED <<inodes, names, box, inherits, failed, calm>>
      /\ inherits[d] \/ lock[Dir(d)] = None
      /\ todo' = [todo EXCEPT ![d] = Tail(@)]
      /\ lock' = IF inherits[d] THEN lock ELSE [lock EXCEPT ![Dir(d)] = d]
  BY DEF TakeLock, At, NoDisks
<1>2. Control /\ home' = home /\ verb' = verb /\ turned' = turned /\ runs' = runs /\ faults' = faults
  BY <1>1 DEF LabInv, Quiet, bounds
<1> DEFINE t == Tail(todo[d])
<1>3. todo[d] \in Seq(LabStep) /\ Along(verb[d], todo[d]) /\ inherits[d] \in BOOLEAN
  BY <1>2 DEF Control
<1>4. /\ t \in Seq(LabStep) /\ Along(verb[d], t) /\ t # <<>>
      /\ Follows(verb[d], Head(todo[d]), Head(t))
  <2>1. Head(todo[d]) \notin {Plain("done"), Plain("session")}
    BY <1>1 DEF Plain, On
  <2> QED BY <1>1, <1>3, <2>1, AlongTail
<1>5. /\ Head(t) \in {Plain("session"), Plain("off"), Plain("ros")}
      /\ verb[d] = "reset" => Head(t) = Plain("ros")
  BY <1>1, <1>4 DEF Follows
<1>6. todo' = [todo EXCEPT ![d] = t]
  BY <1>1
<1> HIDE DEF t
<1>7. /\ todo' \in [Drivers -> Seq(LabStep)] /\ todo'[d] = t
      /\ \A e \in Drivers : e # d => todo'[e] = todo[e]
  BY <1>2, <1>4, <1>6 DEF Control
<1>8. Dir(d) \in States
  BY <1>2, Directory
<1>9. Control'
  <2>1. /\ lock' \in [States -> Drivers \cup {None}]
        /\ \A s \in States : lock'[s] = lock[s] \/ (s = Dir(d) /\ lock'[s] = d)
    BY <1>1, <1>2, <1>8 DEF Control
  <2>2. ASSUME NEW s \in States, lock'[s] # None
        PROVE  home'[lock'[s]].state = s /\ todo'[lock'[s]] # <<>>
    <3>1. CASE s = Dir(d) /\ lock'[s] = d
      BY <1>2, <1>4, <1>7, <3>1 DEF Dir
    <3>2. CASE lock'[s] = lock[s]
      <4>1. lock[s] \in Drivers /\ Dir(lock[s]) = s /\ todo[lock[s]] # <<>>
        BY <1>2, <2>2, <3>2 DEF Control
      <4> QED BY <1>2, <1>4, <1>7, <3>2, <4>1 DEF Dir
    <3> QED BY <2>1, <3>1, <3>2
  <2>3. ASSUME ~turned', NEW e \in Drivers, Inside(e)' PROVE lock'[home'[e].state] = e
    <3>1. Dir(e) \in States /\ home'[e].state = Dir(e) /\ inherits' = inherits
      BY <1>1, <1>2, Directory DEF Dir
    <3>2. CASE e # d
      <4>1. Inside(e)
        BY <1>7, <2>3, <3>1, <3>2 DEF Inside
      <4>2. lock[Dir(e)] = e
        BY <1>2, <2>3, <4>1 DEF Control
      <4>3. e # None
        BY LabAssumption DEF LabAssumption
      <4>4. CASE inherits[d]
        BY <1>1, <3>1, <4>2, <4>4
      <4>5. CASE ~inherits[d]
        <5>1. Dir(e) # Dir(d)
          BY <1>1, <4>2, <4>3, <4>5
        <5> QED BY <1>1, <1>2, <3>1, <4>2, <4>5, <5>1 DEF Control
      <4> QED BY <4>4, <4>5
    <3>3. CASE e = d
      <4>1. CASE inherits[d]
        <5>1. Inside(d)
          BY <1>1, <4>1 DEF Inside
        <5>2. lock[Dir(d)] = d
          BY <1>2, <2>3, <5>1 DEF Control
        <5> QED BY <1>1, <3>1, <3>3, <4>1, <5>2
      <4>2. CASE ~inherits[d]
        BY <1>1, <1>2, <1>8, <3>1, <3>3, <4>2 DEF Control
      <4> QED BY <4>1, <4>2
    <3> QED BY <3>2, <3>3
  <2>4. \A e \in Drivers : Along(verb'[e], todo'[e]) /\ (inherits'[e] => todo'[e] # <<>>)
    BY <1>1, <1>2, <1>4, <1>7 DEF Control
  <2>5. \A s \in States : lock'[s] # None => home'[lock'[s]].state = s /\ todo'[lock'[s]] # <<>>
    BY <2>2
  <2>6. ~turned' => \A e \in Drivers : Inside(e)' => lock'[home'[e].state] = e
    BY <2>3
  <2>7. /\ home' \in [Drivers -> Homes] /\ inherits' \in [Drivers -> BOOLEAN]
        /\ verb' \in [Drivers -> Verbs \cup {"none"}]
        /\ failed' \in [Drivers -> BOOLEAN] /\ calm' \in [Drivers -> BOOLEAN]
        /\ turned' \in BOOLEAN /\ runs' \in 0 .. MaxRuns /\ faults' \in 0 .. MaxFaults
    BY <1>1, <1>2 DEF Control
  <2> QED BY <1>7, <2>1, <2>4, <2>5, <2>6, <2>7 DEF Control, Dir
<1>10. Others(d)
  BY <1>1, <1>2, <1>7 DEF Others
<1>11. Heads(d)'
  BY <1>2, <1>5, <1>7 DEF Heads, Resets, Plain, On
<1>12. OneLab' /\ verb'[d] = "reset" /\ calm'[d] => ~failed'[d]
  BY <1>1, <1>2, <1>10, SameLab DEF LabInv, Unfailed
<1> QED BY <1>1, <1>9, <1>10, <1>11, <1>12, LookKeeps

LEMMA GiveUpKeeps ==
  ASSUME LabInv, NEW d \in Drivers, GiveUp(d) PROVE LabInv'
  BY QuietFail DEF GiveUp, At, NoDisks

\* A step that looks and goes on, when what it saw is what its next step wants.
LEMMA LookNext ==
  ASSUME LabInv, NEW d \in Drivers, Inside(d), Next1(d), UNCHANGED <<failed, calm>>, Quiet,
         UNCHANGED <<inodes, names, box>>,
         OneLab /\ Heads(d) /\ Suits(Head(todo[d])) /\ todo'[d] # <<>>
           /\ Follows(verb[d], Head(todo[d]), Head(todo'[d]))
         => Heads(d)'
  PROVE  LabInv'
<1>1. /\ Control' /\ Others(d) /\ (OneLab' <=> OneLab)
      /\ Suits(Head(todo[d])) /\ (OneLab => Heads(d))
      /\ todo'[d] # <<>> => Follows(verb[d], Head(todo[d]), Head(todo'[d]))
      /\ OneLab' /\ verb'[d] = "reset" /\ calm'[d] => ~failed'[d]
  BY StepFacts
<1>2. OneLab' /\ Inside(d)' => Heads(d)'
  BY <1>1 DEF Inside
<1> QED BY <1>1, <1>2, LookKeeps

LEMMA GuardROSKeeps ==
  ASSUME LabInv, NEW d \in Drivers, GuardROS(d) PROVE LabInv'
<1>1. /\ todo[d] # <<>> /\ Head(todo[d]).op = "ros" /\ Quiet /\ Inside(d)
      /\ UNCHANGED <<inodes, names, box>>
  BY DEF GuardROS, At, NoDisks, Inside
<1>2. CASE Fail(d, TRUE)
  BY <1>1, <1>2, QuietFail
<1>3. CASE Next1(d) /\ UNCHANGED <<failed, calm>>
  <2>1. ASSUME Follows(verb[d], Head(todo[d]), Head(todo'[d])) PROVE Heads(d)'
    <3>1. verb' = verb
      BY <1>1 DEF Quiet
    <3> QED BY <1>1, <2>1, <3>1 DEF Follows, Heads, Resets, Plain, On
  <2> QED BY <1>1, <1>3, <2>1, LookNext
<1> QED BY <1>2, <1>3 DEF GuardROS

LEMMA EndSessionKeeps ==
  ASSUME LabInv, NEW d \in Drivers, EndSession(d) \/ Done(d) PROVE LabInv'
<1>1. /\ todo[d] # <<>> /\ Head(todo[d]).op \in {"session", "done"} /\ Quiet /\ Inside(d)
      /\ UNCHANGED <<inodes, names, box, failed, calm>> /\ Next1(d)
  BY DEF EndSession, Done, At, NoDisks, Inside
<1>2. ASSUME Heads(d), Follows(verb[d], Head(todo[d]), Head(todo'[d])) PROVE Heads(d)'
  <2>1. verb' = verb /\ home' = home
    BY <1>1 DEF Quiet
  <2>2. Head(todo'[d]) \in {Plain("done"), Plain("session")}
    BY <1>1, <1>2 DEF Follows
  <2> QED BY <1>1, <1>2, <2>1, <2>2 DEF Heads, Resets, Plain, On, Restored, File, Guest, Dir
<1> QED BY <1>1, <1>2, LookNext
-----------------------------------------------------------------------------
(* Steps that look, and what goes wrong.                                   *)

LEMMA Stages ==
  /\ Stage("base") = 1 /\ Stage("grow") = 2 /\ Stage("remove") = 3 /\ Stage("wipe") = 4
  /\ Stage("layer") = 5 /\ Stage("start") = 6 /\ Stage("empty") = 7 /\ Stage("setup") = 8
  /\ Stage("ssh") = 9 /\ Stage("package") = 10 /\ Stage("mode") = 11 /\ Stage("quit") = 12
  /\ Stage("power") = 13 /\ Stage("back") = 14 /\ Stage("confirmed") = 15 /\ Stage("takekey") = 16
  /\ Stage("shutdown") = 17 /\ Stage("rm") = 18 /\ Stage("rename") = 19
  BY DEF Stage

\* What holds before the next step, when it is known which that is.
LEMMA HeadsNext ==
  ASSUME NEW d, NEW o, NEW k, Head(todo'[d]) = On(o, k),
         k = "provision" => Provisions(d, o)',
         verb'[d] = "reset" /\ calm'[d] => k # "provision" /\ Resets(d, o)'
  PROVE  Heads(d)'
<1>1. Head(todo'[d]).op = o /\ Head(todo'[d]).disk = k
  BY DEF On
<1> QED BY <1>1 DEF Heads, Provisions, Resets

\* A step whose run goes on with others put before what it had left.
LEMMA ThenFacts ==
  ASSUME LabInv, NEW d \in Drivers, Inside(d), Head(todo[d]).op \notin {"done", "session"},
         NEW steps, NEW x, NEW y, Chain(verb[d], steps, x, y), Then(d, steps),
         \A g \in LabStep : Follows(verb[d], Head(todo[d]), g) => Follows(verb[d], y, g),
         UNCHANGED <<failed, calm>>, Quiet
  PROVE  /\ Control' /\ Others(d) /\ UNCHANGED <<home, verb, calm, failed>>
         /\ OneLab' <=> OneLab
         /\ Suits(Head(todo[d])) /\ (OneLab => Heads(d))
         /\ todo'[d] # <<>> /\ Head(todo'[d]) = x
         /\ OneLab' /\ verb'[d] = "reset" /\ calm'[d] => ~failed'[d]
<1>1. Counted
  BY DEF LabInv, Control, Counted, Quiet, bounds
<1>2. todo[d] # <<>> /\ home' = home /\ verb' = verb /\ turned' = turned /\ Control
  BY DEF Inside, Quiet, bounds, LabInv
<1>3. todo[d] \in Seq(LabStep) /\ Along(verb[d], todo[d])
  BY <1>2 DEF Control
<1>4. Head(todo[d]) \notin {Plain("done"), Plain("session")}
  BY DEF Plain, On
<1>5. /\ Suits(Head(todo[d])) /\ Tail(todo[d]) # <<>>
      /\ Follows(verb[d], y, Head(Tail(todo[d])))
  BY <1>2, <1>3, <1>4, AlongTail
<1>6. /\ Control' /\ todo'[d] # <<>> /\ Head(todo'[d]) = x
      /\ \A e \in Drivers : e # d => todo'[e] = todo[e] /\ inherits'[e] = inherits[e]
  BY <1>1, <1>2, <1>5, ThenControl
<1>7. Others(d)
  BY <1>2, <1>6 DEF Others
<1>8. OneLab' <=> OneLab
  BY <1>2 DEF OneLab, Dir
<1>9. OneLab => Heads(d)
  BY DEF LabInv, Driving
<1>10. OneLab' /\ verb'[d] = "reset" /\ calm'[d] => ~failed'[d]
  BY <1>2, <1>8 DEF LabInv, Unfailed
<1> QED BY <1>2, <1>5, <1>6, <1>7, <1>8, <1>9, <1>10

\* No steps put before the next one.
LEMMA ThenNothing ==
  ASSUME Control, NEW d \in Drivers, todo[d] # <<>>, Then(d, <<>>) PROVE Next1(d)
<1>1. todo[d] \in Seq(LabStep)
  BY DEF Control
<1>2. Tail(todo[d]) \in Seq(LabStep)
  BY <1>1, TailShape
<1>3. <<>> \o Tail(todo[d]) = Tail(todo[d])
  BY <1>2
<1> QED BY <1>3 DEF Then, Next1

LEMMA NeedCleanKeeps ==
  ASSUME LabInv, NEW d \in Drivers, NeedClean(d) PROVE LabInv'
<1>1. /\ todo[d] # <<>> /\ Head(todo[d]).op = "clean" /\ Quiet /\ Inside(d)
      /\ UNCHANGED <<inodes, names, box>>
  BY DEF NeedClean, At, NoDisks, Inside
<1>2. CASE Fail(d, TRUE)
  BY <1>1, <1>2, QuietFail
<1>3. CASE File(d, "clean") # 0 /\ Next1(d) /\ UNCHANGED <<failed, calm>>
  <2>1. ASSUME Follows(verb[d], Head(todo[d]), Head(todo'[d])) PROVE Heads(d)'
    <3>1. verb' = verb /\ home' = home
      BY <1>1 DEF Quiet
    <3> QED BY <1>1, <1>3, <2>1, <3>1 DEF Follows, Heads, Resets, Plain, On, File
  <2> QED BY <1>1, <1>3, <2>1, LookNext
<1> QED BY <1>2, <1>3 DEF NeedClean

LEMMA ProvisionKeeps ==
  ASSUME LabInv, NEW d \in Drivers, Provision(d) PROVE LabInv'
<1>1. /\ todo[d] # <<>> /\ Head(todo[d]).op = "provision" /\ Quiet /\ Inside(d)
      /\ UNCHANGED <<inodes, names, box, failed, calm>> /\ Control
  BY DEF Provision, At, NoDisks, Inside, LabInv
<1>2. CASE File(d, "clean") # 0 /\ verb[d] # "reprovision"
  <2>1. Next1(d)
    BY <1>1, <1>2, ThenNothing DEF Provision
  <2>2. ASSUME Heads(d), Suits(Head(todo[d])), Follows(verb[d], Head(todo[d]), Head(todo'[d]))
        PROVE  Heads(d)'
    <3>1. verb' = verb /\ home' = home
      BY <1>1 DEF Quiet
    <3>2. Head(todo'[d]) \in {Plain("live")} \cup Finals(verb[d])
      BY <1>1, <2>2 DEF Follows
    <3> QED BY <1>1, <2>2, <3>1, <3>2 DEF Heads, Resets, Finals, Fresh, Plain, On, File
  <2> QED BY <1>1, <2>1, <2>2, LookNext
<1>3. CASE ~(File(d, "clean") # 0 /\ verb[d] # "reprovision")
  <2>1. Then(d, Provisioning) /\ Chain(verb[d], Provisioning, Ours("base"), On("layer", "run"))
    BY <1>3, ProvisioningChain DEF Provision
  <2>2. \A g \in LabStep :
          Follows(verb[d], Head(todo[d]), g) => Follows(verb[d], On("layer", "run"), g)
    BY <1>1 DEF Follows, On
  <2>3. /\ Control' /\ Others(d) /\ UNCHANGED <<home, verb, calm, failed>>
        /\ (OneLab' <=> OneLab) /\ (OneLab => Heads(d))
        /\ todo'[d] # <<>> /\ Head(todo'[d]) = Ours("base")
        /\ OneLab' /\ verb'[d] = "reset" /\ calm'[d] => ~failed'[d]
    BY <1>1, <2>1, <2>2, ThenFacts
  <2>4. OneLab => ~(verb[d] = "reset" /\ calm[d])
    BY <1>1, <1>3, <2>3 DEF Heads, Resets
  <2>5. OneLab' /\ Inside(d)' => Heads(d)'
    <3>1. Ours("base").op = "base" /\ Stage("base") = 1
      BY DEF Ours, On, Stage
    <3>2. Provisions(d, "base")'
      BY <3>1 DEF Provisions
    <3> QED BY <2>3, <2>4, <3>1, <3>2 DEF Heads
  <2> QED BY <1>1, <2>3, <2>5, LookKeeps
<1> QED BY <1>2, <1>3

LEMMA LiveKeeps ==
  ASSUME LabInv, NEW d \in Drivers, Live(d) PROVE LabInv'
<1>1. /\ todo[d] # <<>> /\ Head(todo[d]).op = "live" /\ Quiet /\ Inside(d)
      /\ UNCHANGED <<inodes, names, box>>
  BY DEF Live, At, NoDisks, Inside
<1>2. OneLab /\ verb[d] = "reset" /\ calm[d] =>
        /\ File(d, "run") # 0 /\ box = Absent /\ File(d, "clean") # 0 /\ File(d, "base") # 0
  <2> SUFFICES ASSUME OneLab, verb[d] = "reset", calm[d] PROVE
        /\ File(d, "run") # 0 /\ box = Absent /\ File(d, "clean") # 0 /\ File(d, "base") # 0
    OBVIOUS
  <2>1. Heads(d) /\ Snapshots /\ home[d] \in Homes
    BY <1>1, Directory DEF LabInv, Driving
  <2>2. File(d, "run") # 0 /\ box = Absent /\ File(d, "clean") # 0
    BY <1>1, <2>1 DEF Heads, Resets, Fresh
  <2> QED BY <2>1, <2>2 DEF Snapshots, Exact, File
<1>3. CASE File(d, "run") = 0
  <2>1. /\ Then(d, Overlay("run")) /\ UNCHANGED <<failed, calm>>
        /\ Chain(verb[d], Overlay("run"), On("wipe", "run"), On("layer", "run"))
    BY <1>3, OverlayChain DEF Live
  <2>2. \A g \in LabStep :
          Follows(verb[d], Head(todo[d]), g) => Follows(verb[d], On("layer", "run"), g)
    BY <1>1 DEF Follows, On
  <2>3. /\ Control' /\ Others(d) /\ UNCHANGED <<home, verb, calm, failed>>
        /\ (OneLab' <=> OneLab)
        /\ todo'[d] # <<>> /\ Head(todo'[d]) = On("wipe", "run")
        /\ OneLab' /\ verb'[d] = "reset" /\ calm'[d] => ~failed'[d]
    BY <1>1, <2>1, <2>2, ThenFacts
  <2>4. OneLab' /\ Inside(d)' => Heads(d)'
    <3>1. On("wipe", "run").disk # "provision"
      BY DEF On
    <3> QED BY <1>2, <1>3, <2>3, <3>1 DEF Heads
  <2> QED BY <1>1, <2>3, <2>4, LookKeeps
<1>4. CASE /\ File(d, "run") # 0
           /\ box.state = "running" \/ (File(d, "clean") # 0 /\ File(d, "base") # 0)
  <2>1. Next1(d) /\ UNCHANGED <<failed, calm>>
    BY <1>4 DEF Live
  <2>2. ASSUME Heads(d), Follows(verb[d], Head(todo[d]), Head(todo'[d])) PROVE Heads(d)'
    <3>1. verb' = verb /\ home' = home
      BY <1>1 DEF Quiet
    <3>2. Head(todo'[d]) = On("start", "run")
      BY <1>1, <2>2 DEF Follows
    <3> QED BY <1>1, <2>1, <2>2, <3>1, <3>2 DEF Heads, Resets, Fresh, On, File
  <2> QED BY <1>1, <2>1, <2>2, LookNext
<1>5. CASE /\ File(d, "run") # 0
           /\ ~(box.state = "running" \/ (File(d, "clean") # 0 /\ File(d, "base") # 0))
  <2>1. Fail(d, FALSE)
    BY <1>5 DEF Live
  <2> QED BY <1>1, <1>2, <1>5, <2>1, QuietFail
<1> QED BY <1>3, <1>4, <1>5

\* The machine of a provisioning is on its disk.
LEMMA BoxedGuest ==
  ASSUME NEW d \in Drivers, Boxed(d) PROVE Guest = inodes[File(d, "provision")]
  BY DEF Boxed, Guest

LEMMA LooksKeeps ==
  ASSUME LabInv, NEW d \in Drivers,
         Running(d) \/ WaitEmpty(d) \/ WaitSSH(d) \/ ModeIsOn(d)
  PROVE  LabInv'
<1>1. PICK o \in {"running", "empty", "ssh", "back", "routes", "confirmed"} :
        \E ok \in BOOLEAN :
          /\ Looks(d, o, ok)
          /\ o = "empty" /\ ok => Open
          /\ o = "routes" => ok = Ssh(d)
          /\ o = "confirmed" /\ ok => "mode" \in Guest.set
  <2>1. CASE Running(d)
    BY <2>1 DEF Running
  <2>2. CASE WaitEmpty(d)
    <3>1. Open \in BOOLEAN
      BY DEF Open, Boots
    <3> QED BY <2>2, <3>1 DEF WaitEmpty
  <2>3. CASE WaitSSH(d)
    <3>1. Ssh(d) \in BOOLEAN
      BY DEF Ssh, Boots, Open
    <3> QED BY <2>3, <3>1 DEF WaitSSH
  <2>4. CASE ModeIsOn(d)
    <3>1. (Ssh(d) /\ "mode" \in Guest.set) \in BOOLEAN
      BY DEF Ssh, Boots, Open
    <3> QED BY <2>4, <3>1 DEF ModeIsOn
  <2> QED BY <2>1, <2>2, <2>3, <2>4
<1>2. PICK ok \in BOOLEAN :
        /\ Looks(d, o, ok)
        /\ o = "empty" /\ ok => Open
        /\ o = "routes" => ok = Ssh(d)
        /\ o = "confirmed" /\ ok => "mode" \in Guest.set
  BY <1>1
<1>3. /\ todo[d] # <<>> /\ Head(todo[d]).op = o /\ Quiet /\ Inside(d)
      /\ UNCHANGED <<inodes, names, box>>
  BY <1>2 DEF Looks, At, NoDisks, Inside
<1>4. CASE ok
  <2>1. Next1(d) /\ UNCHANGED <<failed, calm>>
    BY <1>2, <1>4 DEF Looks
  <2>2. ASSUME OneLab, Heads(d), Suits(Head(todo[d])),
               Follows(verb[d], Head(todo[d]), Head(todo'[d]))
        PROVE  Heads(d)'
    <3>1. verb' = verb /\ home' = home /\ Guest' = Guest
      BY <1>3 DEF Quiet, Guest
    <3> DEFINE k == Head(todo[d]).disk
    <3>2. OneLab /\ verb[d] = "reset" /\ calm[d] =>
            o = "routes" /\ Restored(d) /\ File(d, "clean") # 0
      BY <1>3, <2>2 DEF Heads, Resets
    <3>3. CASE o \in {"running", "routes"}
      <4>1. Head(todo'[d]) \in {Plain("quit"), Plain("use"), Plain("done")}
        BY <1>3, <2>2, <3>3 DEF Follows
      <4>2. o = "routes" => Head(todo'[d]) = Plain("done")
        BY <1>3, <2>2 DEF Follows
      <4>3. Restored(d) /\ File(d, "clean") # 0 => Resets(d, "done")'
        BY <1>3, <3>1 DEF Resets, Restored, File, Guest, Dir
      <4>4. verb'[d] = "reset" /\ calm'[d] => Resets(d, "done")' /\ Head(todo'[d]) = Plain("done")
        BY <2>1, <2>2, <3>1, <3>2, <4>2, <4>3
      <4> QED BY <4>1, <4>4, HeadsNext DEF Plain
    <3>4. CASE o \in {"empty", "ssh", "back", "confirmed"}
      <4>0. ~(verb'[d] = "reset" /\ calm'[d])
        BY <2>1, <2>2, <3>1, <3>2, <3>4
      <4>1. CASE k # "provision"
        <5>1. \/ Head(todo'[d]) = Plain("done")
              \/ Head(todo'[d]) = On("confirmed", "none")
          BY <1>3, <2>2, <3>4, <4>1 DEF Follows, Suits
        <5> QED BY <4>0, <5>1, HeadsNext DEF Plain
      <4>2. CASE k = "provision"
        <5>1. Provisions(d, o)
          BY <1>3, <2>2, <4>2 DEF Heads
        <5>2. Boxed(d) /\ Layered(d) /\ Guest = inodes[File(d, "provision")]
          BY <3>4, <5>1, Stages, BoxedGuest DEF Provisions
        <5>3. Boxed(d)' /\ Layered(d)'
          BY <1>3, <3>1, <5>2 DEF Boxed, Layered, File
        <5>4. CASE o = "empty"
          <6>1. Head(todo'[d]) = On("setup", "provision")
            BY <1>3, <2>2, <5>4 DEF Follows, Ours
          <6>2. "torn" \notin Guest.set
            BY <1>2, <1>4, <5>4 DEF Open, Boots
          <6>3. Provisions(d, "setup")'
            BY <1>3, <3>1, <5>2, <5>3, <6>2, Stages DEF Provisions, File
          <6> QED BY <4>0, <6>1, <6>3, HeadsNext
        <5>5. CASE o = "ssh"
          <6>1. Head(todo'[d]) = On("package", "provision")
            BY <1>3, <2>2, <5>5 DEF Follows, Ours
          <6>2. Provisions(d, "package")'
            BY <1>3, <3>1, <5>1, <5>5, <5>3, Stages DEF Provisions, File
          <6> QED BY <4>0, <6>1, <6>2, HeadsNext
        <5>6. CASE o = "back"
          <6>1. Head(todo'[d]) = On("confirmed", "provision")
            BY <1>3, <2>2, <4>2, <5>6 DEF Follows
          <6>2. Provisions(d, "confirmed")'
            BY <1>3, <3>1, <5>1, <5>6, <5>3, Stages DEF Provisions, File
          <6> QED BY <4>0, <6>1, <6>2, HeadsNext
        <5>7. CASE o = "confirmed"
          <6>1. Head(todo'[d]) = On("takekey", "provision")
            BY <1>3, <2>2, <4>2, <5>7 DEF Follows, Ours
          <6>2. "mode" \in Guest.set
            BY <1>2, <1>4, <5>7
          <6>3. Provisions(d, "takekey")'
            BY <1>3, <3>1, <5>1, <5>2, <5>7, <5>3, <6>2, Stages
               DEF Provisions, File
          <6> QED BY <4>0, <6>1, <6>3, HeadsNext
        <5> QED BY <3>4, <5>4, <5>5, <5>6, <5>7
      <4> QED BY <4>1, <4>2
    <3> QED BY <3>3, <3>4
  <2> QED BY <1>3, <2>1, <2>2, LookNext
<1>5. CASE ~ok
  <2>1. Fail(d, FALSE)
    BY <1>2, <1>5 DEF Looks
  <2>2. ASSUME OneLab, verb[d] = "reset", calm[d] PROVE FALSE
    <3>1. Heads(d) /\ Snapshots /\ home[d] \in Homes
      BY <1>3, <2>2, Directory DEF LabInv, Driving
    <3>2. o = "routes" /\ Restored(d) /\ File(d, "clean") # 0
      BY <1>3, <2>2, <3>1 DEF Heads, Resets
    <3>3. "torn" \notin inodes[File(d, "clean")].set
      BY <3>1, <3>2 DEF Snapshots, Exact, File
    <3>4. Ssh(d)
      BY <3>2, <3>3 DEF Restored, Ssh, Boots
    <3> QED BY <1>2, <1>5, <3>2, <3>4
  <2> QED BY <1>3, <2>1, <2>2, QuietFail
<1> QED BY <1>4, <1>5

LEMMA BreakKeeps ==
  ASSUME LabInv, NEW d \in Drivers, Break(d) PROVE LabInv'
<1>1. /\ todo[d] # <<>> /\ Fail(d, TRUE) /\ UNCHANGED <<inodes, names, box>>
      /\ home' = home /\ verb' = verb /\ turned' = turned
      /\ runs' = runs /\ faults < MaxFaults /\ faults' = faults + 1
  BY DEF Break, Fault, NoDisks
<1>2. runs' \in 0 .. MaxRuns /\ faults' \in 0 .. MaxFaults
  BY <1>1, LabAssumption DEF LabAssumption, LabInv, Control
<1> QED BY <1>1, <1>2, FailKeeps

LEMMA RemoveFailsKeeps ==
  ASSUME LabInv, NEW d \in Drivers, RemoveFails(d) PROVE LabInv'
<1>1. /\ todo[d] # <<>> /\ Head(todo[d]).op = "remove" /\ Inside(d)
      /\ Next1(d) /\ UNCHANGED <<inodes, names, box, failed>>
      /\ home' = home /\ verb' = verb /\ turned' = TRUE
      /\ calm' = [calm EXCEPT ![d] = FALSE]
      /\ runs' = runs /\ faults < MaxFaults /\ faults' = faults + 1
  BY DEF RemoveFails, Fault, NoDisks, At, Inside
<1>2. runs' \in 0 .. MaxRuns /\ faults' \in 0 .. MaxFaults
  BY <1>1, LabAssumption DEF LabAssumption, LabInv, Control
<1>3. Control
  BY DEF LabInv
<1>4. Counted
  BY <1>1, <1>2, <1>3 DEF Counted, Control
<1>5. /\ Control'
      /\ \A e \in Drivers : e # d => todo'[e] = todo[e] /\ inherits'[e] = inherits[e]
  BY <1>1, <1>3, <1>4, NextControl
<1>6. Others(d)
  BY <1>1, <1>3, <1>5 DEF Others, Control
<1>7. ~OneLab'
  BY <1>1 DEF OneLab
<1> QED BY <1>1, <1>5, <1>6, <1>7, LookKeeps

LEMMA KillHolderKeeps ==
  ASSUME LabInv, NEW d \in Drivers, KillHolder(d) PROVE LabInv'
<1>1. /\ lock[Dir(d)] = d /\ lock' = [lock EXCEPT ![Dir(d)] = None]
      /\ UNCHANGED <<inodes, names, box, inherits, todo, failed, calm>>
      /\ home' = home /\ verb' = verb /\ turned' = TRUE
      /\ runs' = runs /\ faults < MaxFaults /\ faults' = faults + 1
  BY DEF KillHolder, Fault
<1>2. runs' \in 0 .. MaxRuns /\ faults' \in 0 .. MaxFaults
  BY <1>1, LabAssumption DEF LabAssumption, LabInv, Control
<1>3. Control
  BY DEF LabInv
<1>4. Control'
  <2>1. /\ lock' \in [States -> Drivers \cup {None}]
        /\ \A s \in States : lock'[s] # None => lock'[s] = lock[s]
    BY <1>1, <1>3, Directory DEF Control
  <2>2. \A s \in States : lock'[s] # None => home'[lock'[s]].state = s /\ todo'[lock'[s]] # <<>>
    BY <1>1, <1>3, <2>1 DEF Control, Dir
  <2> QED BY <1>1, <1>2, <1>3, <2>1, <2>2 DEF Control, Dir
<1>5. Others(d)
  BY <1>1 DEF Others
<1>6. ~OneLab'
  BY <1>1 DEF OneLab
<1> QED BY <1>1, <1>4, <1>5, <1>6, LookKeeps

LEMMA PowerLossKeeps == ASSUME LabInv, PowerLoss PROVE LabInv'
<1>1. /\ box.state = "running" /\ box' = [box EXCEPT !.state = "exited"]
      /\ UNCHANGED <<inodes, names, lock, inherits, todo, failed, turned>>
      /\ home' = home /\ verb' = verb /\ calm' = [d \in Drivers |-> FALSE]
      /\ runs' = runs /\ faults < MaxFaults /\ faults' = faults + 1
  BY DEF PowerLoss, Fault, NoDisks
<1>2. runs' \in 0 .. MaxRuns /\ faults' \in 0 .. MaxFaults
  BY <1>1, LabAssumption DEF LabAssumption, LabInv, Control
<1>3. Control'
  <2>1. calm' \in [Drivers -> BOOLEAN]
    BY <1>1
  <2>2. \A d \in Drivers : Inside(d)' <=> Inside(d)
    BY <1>1 DEF Inside
  <2> QED BY <1>1, <1>2, <2>1, <2>2 DEF LabInv, Control, Dir
<1>4. /\ box' \in BoxRecord /\ box'.id = box.id /\ box'.state = "exited"
      /\ box'.home = box.home /\ box'.disk = box.disk
  BY <1>1 DEF LabInv, World, BoxRecord
<1>5. World' /\ (Snapshots => Snapshots')
  <2>1. inodes' \in Seq(InodeRecord) /\ World
    BY <1>1 DEF LabInv, World
  <2> QED BY <1>1, <1>4, <2>1, MachineSet DEF LabInv, World
<1>6. OneLab' <=> OneLab
  BY <1>1 DEF OneLab, Dir
<1>7. ASSUME OneLab', NEW d \in Drivers, Inside(d)' PROVE Heads(d)'
  <2>1. Inside(d) /\ Heads(d)
    BY <1>1, <1>6, <1>7 DEF Inside, LabInv, Driving
  <2>2. box # Absent
    BY <1>1 DEF Absent
  <2>3. ~calm'[d]
    BY <1>1
  <2>4. Layered(d)' <=> Layered(d)
    BY <1>1 DEF Layered, File
  <2>5. Boxed(d) => Boxed(d)'
    BY <1>1, <1>4 DEF Boxed, File
  <2> QED BY <1>1, <2>1, <2>2, <2>3, <2>4, <2>5 DEF Heads, Provisions, File
<1> QED BY <1>1, <1>3, <1>5, <1>6, <1>7 DEF LabInv, Driving, Unfailed
-----------------------------------------------------------------------------
(* Steps that write to disks or change the container.                      *)

LEMMA WorldNext ==
  ASSUME LabInv, NEW d \in Drivers, Inside(d), Next1(d), UNCHANGED <<failed, calm>>, Quiet,
         World', OneLab => Snapshots',
         OneLab /\ Heads(d) /\ Suits(Head(todo[d])) /\ todo'[d] # <<>>
           /\ Follows(verb[d], Head(todo[d]), Head(todo'[d]))
         => Heads(d)'
  PROVE  LabInv'
  BY StepFacts, AloneKeeps

\* A step on the disk being provisioned is not one of a calm reset.
LEMMA NotReset ==
  ASSUME NEW d, Heads(d), Head(todo[d]).disk = "provision"
  PROVE  ~(verb[d] = "reset" /\ calm[d])
  BY DEF Heads

LEMMA ConvertKeeps ==
  ASSUME LabInv, NEW d \in Drivers, Convert(d) PROVE LabInv'
<1>1. /\ todo[d] # <<>> /\ Head(todo[d]).op = "base" /\ Quiet /\ Inside(d)
      /\ UNCHANGED <<box, failed, calm>> /\ home' = home /\ verb' = verb
  BY DEF Convert, At, Inside, Quiet
<1>2. CASE File(d, "base") # 0
  <2>1. Next1(d) /\ UNCHANGED <<inodes, names>>
    BY <1>2 DEF Convert, NoDisks
  <2>2. ASSUME Heads(d), Suits(Head(todo[d])), Follows(verb[d], Head(todo[d]), Head(todo'[d]))
        PROVE  Heads(d)'
    <3>1. Head(todo'[d]) = On("remove", "provision")
      BY <1>1, <2>2 DEF Follows, Ours
    <3>2. ~(verb'[d] = "reset" /\ calm'[d])
      BY <1>1, <2>2, NotReset DEF Suits
    <3>3. Provisions(d, "remove")'
      BY Stages DEF Provisions
    <3> QED BY <3>1, <3>2, <3>3, HeadsNext
  <2> QED BY <1>1, <2>1, <2>2, LookNext
<1>3. CASE File(d, "base") = 0
  <2>1. /\ inodes' = Append(inodes, Inode(0, {}))
        /\ names' = [names EXCEPT ![home[d]]["base"] = Len(inodes')]
        /\ Then(d, StepsOn("provision", <<"grow">>))
    BY <1>3 DEF Convert, Rename
  <2> DEFINE r == Inode(0, {})
  <2>2. /\ r \in InodeRecord /\ r.over = 0 /\ r.key = None /\ r.password = None
        /\ inodes' = Append(inodes, r)
    BY <2>1 DEF Inode, InodeRecord, Creds
  <2> HIDE DEF r
  <2>3. home[d] \in Homes /\ "base" \in Disks /\ World /\ Len(inodes) \in Nat
    BY Directory DEF LabInv, Disks, World
  <2>4. /\ World' /\ (Snapshots => Snapshots') /\ Len(inodes') = Len(inodes) + 1
        /\ \A g \in Homes, j \in Disks :
             names'[g][j] = IF g = home[d] /\ j = "base" THEN Len(inodes') ELSE names[g][j]
    <3>1. r.over \in 0 .. Len(inodes) /\ ("base" = "base" <=> r.over = 0)
      BY <2>2, <2>3
    <3>2. box' = box /\ (r.over = 0 => r.key = None /\ r.password = None)
      BY <1>1, <2>2
    <3> DEFINE k == "base"
               h == home[d]
    <3>3. /\ h \in Homes /\ k \in Disks /\ (k = "base" <=> r.over = 0)
          /\ names' = [names EXCEPT ![h][k] = Len(inodes')]
      BY <2>1, <2>2, <2>3
    <3> HIDE DEF k, h
    <3>4. /\ World' /\ (Snapshots /\ k # "clean" => Snapshots')
          /\ Len(inodes') = Len(inodes) + 1
          /\ \A g \in Homes, j \in Disks :
               names'[g][j] = IF g = h /\ j = k THEN Len(inodes') ELSE names[g][j]
      BY <2>2, <2>3, <3>1, <3>2, <3>3, NewDisk
    <3> QED BY <3>4 DEF k, h
  <2>5. StepsOn("provision", <<"grow">>) = <<Ours("grow")>>
    BY DEF StepsOn, Ours, On
  <2>6. Chain(verb[d], StepsOn("provision", <<"grow">>), Ours("grow"), Ours("grow"))
    <3>1. Ours("grow") \in LabStep
      BY Typed DEF Ops, Ours
    <3>2. Suits(Ours("grow")) /\ Ours("grow").op # "session"
      BY DEF Suits, Ours, On
    <3> QED BY <2>5, <3>1, <3>2, OneChain
  <2>7. \A g \in LabStep :
          Follows(verb[d], Head(todo[d]), g) => Follows(verb[d], Ours("grow"), g)
    BY <1>1 DEF Follows, Ours, On
  <2>8. /\ Control' /\ Others(d)
        /\ (OneLab' <=> OneLab) /\ Suits(Head(todo[d])) /\ (OneLab => Heads(d))
        /\ todo'[d] # <<>> /\ Head(todo'[d]) = Ours("grow")
        /\ OneLab' /\ verb'[d] = "reset" /\ calm'[d] => ~failed'[d]
    BY <1>1, <2>1, <2>6, <2>7, ThenFacts
  <2>9. OneLab' => Heads(d)'
    <3> SUFFICES ASSUME OneLab' PROVE Heads(d)'
      OBVIOUS
    <3>1. ~(verb'[d] = "reset" /\ calm'[d])
      BY <1>1, <2>8, NotReset DEF Suits
    <3>2. names[home[d]]["clean"] = 0
      BY <1>3, <2>3, <2>8 DEF LabInv, Snapshots, Exact, File
    <3>3. Provisions(d, "grow")'
      BY <1>1, <2>3, <2>4, <3>2, Stages DEF Provisions, File, Disks
    <3> QED BY <2>8, <3>1, <3>3, HeadsNext DEF Ours
  <2> QED BY <1>1, <2>4, <2>8, <2>9, AloneKeeps DEF LabInv
<1> QED BY <1>2, <1>3

LEMMA GrowKeeps ==
  ASSUME LabInv, NEW d \in Drivers, Grow(d) PROVE LabInv'
<1> DEFINE b == names[home[d]]["base"]
<1>1. /\ todo[d] # <<>> /\ Head(todo[d]).op = "grow" /\ Quiet /\ Inside(d) /\ Next1(d)
      /\ UNCHANGED <<names, box, failed, calm>> /\ home' = home /\ verb' = verb
      /\ inodes' = [inodes EXCEPT ![b].set = @ \cup {"grown"}]
  BY DEF Grow, At, Inside, Quiet, File
<1>2. home[d] \in Homes /\ "base" \in Disks /\ World /\ inodes \in Seq(InodeRecord)
      /\ b \in 0 .. Len(inodes) /\ Len(inodes) \in Nat
  BY Directory DEF LabInv, Disks, World
<1>3. /\ World' /\ Len(inodes') = Len(inodes)
      /\ \A j \in 1 .. Len(inodes) : j # b => inodes'[j] = inodes[j]
  <2>1. CASE b = 0
    <3>1. inodes' = inodes
      BY <1>1, <1>2, <2>1
    <3>2. UNCHANGED <<inodes, names, box>>
      BY <1>1, <3>1
    <3>3. World'
      BY <1>2, <3>2 DEF World
    <3> QED BY <3>1, <3>3
  <2>2. CASE b # 0
    <3> DEFINE r == [inodes[b] EXCEPT !.set = @ \cup {"grown"}]
    <3>1. b \in 1 .. Len(inodes) /\ inodes[b] \in InodeRecord
      BY <1>2, <2>2
    <3>2. r \in InodeRecord /\ r.over = inodes[b].over /\ r.key = inodes[b].key
          /\ r.password = inodes[b].password
      BY <3>1 DEF InodeRecord, Things
    <3>3. inodes' = [inodes EXCEPT ![b] = r]
      BY <1>1
    <3>4. r.over = 0 => r.key = None /\ r.password = None
      BY <3>1, <3>2, <1>2 DEF World
    <3> HIDE DEF r
    <3> QED BY <1>1, <1>2, <3>1, <3>2, <3>3, <3>4, DiskSet
  <2> QED BY <2>1, <2>2
<1>4. OneLab => b = Len(inodes) /\ b # 0 /\ names[home[d]]["clean"] = 0
  <2> SUFFICES ASSUME OneLab
               PROVE  b = Len(inodes) /\ b # 0 /\ names[home[d]]["clean"] = 0
    OBVIOUS
  <2>1. Heads(d) /\ Suits(Head(todo[d]))
    BY <1>1, StepFacts
  <2> QED BY <1>1, <2>1, Stages DEF Heads, Suits, Provisions, File
<1>5. ASSUME OneLab, NEW h \in Homes, names'[h]["clean"] # 0 PROVE Exact(h)'
  <2> DEFINE c == names[h]["clean"]
  <2>1. Exact(h) /\ c # 0 /\ "clean" \in Disks
    BY <1>1, <1>5 DEF LabInv, Snapshots, Disks
  <2>2. /\ c \in 1 .. Len(inodes) /\ inodes[c].over \in 1 .. Len(inodes)
        /\ inodes[c].over < c
    BY <1>2, <2>1, FileThere
  <2>3. inodes[c].over # b
    BY <1>2, <1>4, <1>5, <2>2
  <2>4. c # b
    BY <1>2, <1>4, <1>5, <2>1 DEF World, Disks
  <2>5. inodes'[c] = inodes[c] /\ inodes'[inodes[c].over] = inodes[inodes[c].over]
    BY <1>3, <2>2, <2>3, <2>4
  <2> QED BY <1>1, <2>1, <2>5 DEF Exact
<1>6. OneLab => Snapshots'
  BY <1>5 DEF Snapshots
<1>7. ASSUME Heads(d), Suits(Head(todo[d])), Follows(verb[d], Head(todo[d]), Head(todo'[d]))
      PROVE  Heads(d)'
  <2>1. Head(todo'[d]) = On("remove", "provision")
    BY <1>1, <1>7 DEF Follows, Ours
  <2>2. ~(verb'[d] = "reset" /\ calm'[d])
    BY <1>1, <1>7, NotReset DEF Suits
  <2>3. Provisions(d, "remove")'
    BY Stages DEF Provisions
  <2> QED BY <2>1, <2>2, <2>3, HeadsNext
<1> QED BY <1>1, <1>3, <1>6, <1>7, WorldNext

LEMMA WipeKeeps ==
  ASSUME LabInv, NEW d \in Drivers, Wipe(d) PROVE LabInv'
<1> DEFINE k == Head(todo[d]).disk
<1>1. /\ todo[d] # <<>> /\ Head(todo[d]).op = "wipe" /\ Quiet /\ Inside(d) /\ Next1(d)
      /\ UNCHANGED <<inodes, box, failed, calm>> /\ home' = home /\ verb' = verb
      /\ names' = [names EXCEPT ![home[d]][k] = 0]
  BY DEF Wipe, At, Inside, Quiet, Rename
<1>2. k \in {"run", "provision"}
  BY <1>1, StepFacts DEF Suits
<1>3. home[d] \in Homes /\ k \in Disks /\ World /\ k # "base" /\ k # "clean"
  BY <1>2, Directory DEF LabInv, Disks
<1>4. /\ World' /\ (Snapshots => Snapshots')
      /\ \A g \in Homes, j \in Disks :
           names'[g][j] = IF g = home[d] /\ j = k THEN 0 ELSE names[g][j]
  BY <1>1, <1>3, NameGone
<1>5. ASSUME Heads(d), Follows(verb[d], Head(todo[d]), Head(todo'[d])) PROVE Heads(d)'
  <2>1. Head(todo'[d]) = On("layer", k)
    BY <1>1, <1>5 DEF Follows
  <2>2. k = "provision" => Provisions(d, "layer")'
    BY <1>1, <1>5, Stages DEF Heads, Provisions
  <2>3. verb'[d] = "reset" /\ calm'[d] => k # "provision" /\ Resets(d, "layer")'
    <3>1. File(d, "clean")' = File(d, "clean")
      BY <1>1, <1>3, <1>4 DEF File, Disks
    <3> QED BY <1>1, <1>5, <3>1 DEF Heads, Resets
  <2> QED BY <2>1, <2>2, <2>3, HeadsNext
<1> QED BY <1>1, <1>4, <1>5, WorldNext DEF LabInv

LEMMA OverSet ==
  ASSUME NEW q \in InodeRecord, NEW u \in Nat
  PROVE  LET r == [q EXCEPT !.over = u]
         IN /\ r \in InodeRecord /\ r.over = u /\ r.set = q.set
            /\ r.key = q.key /\ r.password = q.password
  BY DEF InodeRecord

LEMMA LayerKeeps ==
  ASSUME LabInv, NEW d \in Drivers, Layer(d) PROVE LabInv'
<1> DEFINE k == Head(todo[d]).disk
           under == names[home[d]][Backing[k]]
<1>1. /\ todo[d] # <<>> /\ Head(todo[d]).op = "layer" /\ Quiet /\ Inside(d)
      /\ UNCHANGED box /\ home' = home /\ verb' = verb
  BY DEF Layer, At, Inside, Quiet
<1>2. World /\ home[d] \in Homes /\ Control /\ Len(inodes) \in Nat
  BY Directory DEF LabInv, World
<1>3. k \in {"run", "provision"}
  <2>1. todo[d] \in Seq(LabStep) /\ Along(verb[d], todo[d])
    BY <1>2 DEF Control
  <2>2. Suits(Head(todo[d]))
    BY <1>1, <2>1, AlongTail
  <2> QED BY <1>1, <2>2 DEF Suits
<1>4. Backing["run"] = "clean" /\ Backing["provision"] = "base"
  BY DEF Backing
<1>5. CASE under = 0
  <2>1. Fail(d, FALSE) /\ UNCHANGED <<inodes, names>>
    BY <1>5 DEF Layer, NoDisks, File
  <2>2. ASSUME OneLab, verb[d] = "reset", calm[d] PROVE FALSE
    <3>1. Heads(d)
      BY <1>1, <2>2 DEF LabInv, Driving
    <3> QED BY <1>1, <1>3, <1>4, <1>5, <2>2, <3>1 DEF Heads, Resets, File
  <2> QED BY <1>1, <2>1, <2>2, QuietFail
<1>6. CASE under # 0
  <2> DEFINE r == [inodes[under] EXCEPT !.over = under]
             b == Backing[k]
  <2>1. /\ inodes' = Append(inodes, r)
        /\ names' = [names EXCEPT ![home[d]][k] = Len(inodes')]
        /\ Next1(d) /\ UNCHANGED <<failed, calm>>
    BY <1>6 DEF Layer, File, Rename
  <2>2. b \in Disks /\ k \in Disks /\ k # "base" /\ k # "clean"
    BY <1>3, <1>4 DEF Disks
  <2>3. under \in 1 .. Len(inodes) /\ inodes[under] \in InodeRecord
    BY <1>2, <1>6, <2>2, FileThere
  <2>4. /\ r \in InodeRecord /\ r.over = under /\ r.set = inodes[under].set
        /\ r.key = inodes[under].key /\ r.password = inodes[under].password
    <3>1. under \in Nat
      BY <1>2, <2>3
    <3> HIDE DEF under
    <3> QED BY <2>3, <3>1, OverSet
  <2> HIDE DEF r, k
  <2>5. /\ World' /\ (Snapshots => Snapshots') /\ Len(inodes') = Len(inodes) + 1
        /\ inodes'[Len(inodes')] = r
        /\ \A i \in 1 .. Len(inodes) : inodes'[i] = inodes[i]
        /\ \A g \in Homes, j \in Disks :
             names'[g][j] = IF g = home[d] /\ j = k THEN Len(inodes') ELSE names[g][j]
    <3>1. r.over \in 0 .. Len(inodes) /\ (k = "base" <=> r.over = 0)
      BY <1>2, <2>2, <2>3, <2>4
    <3>2. r.over = 0 => r.key = None /\ r.password = None
      BY <2>3, <2>4
    <3> DEFINE h == home[d]
    <3>3. h \in Homes /\ names' = [names EXCEPT ![h][k] = Len(inodes')]
      BY <1>2, <2>1
    <3> HIDE DEF h
    <3>4. /\ World' /\ (Snapshots => Snapshots') /\ Len(inodes') = Len(inodes) + 1
          /\ inodes'[Len(inodes')] = r
          /\ \A i \in 1 .. Len(inodes) : inodes'[i] = inodes[i]
          /\ \A g \in Homes, j \in Disks :
               names'[g][j] = IF g = h /\ j = k THEN Len(inodes') ELSE names[g][j]
      <4>1. /\ World /\ k \in Disks /\ k # "clean" /\ r \in InodeRecord /\ box' = box
            /\ inodes' = Append(inodes, r)
        BY <1>1, <1>2, <2>1, <2>2, <2>4
      <4> HIDE DEF b, under
      <4> QED BY <4>1, <3>1, <3>2, <3>3, NewDisk
    <3> QED BY <3>4 DEF h
  <2>6. ASSUME OneLab, Heads(d), Follows(verb[d], Head(todo[d]), Head(todo'[d]))
        PROVE  Heads(d)'
    <3>1. CASE k = "provision"
      <4>1. Head(todo'[d]) = On("start", "provision")
        BY <1>1, <2>6, <3>1 DEF Follows, Ours, k
      <4>2. ~(verb'[d] = "reset" /\ calm'[d])
        BY <1>1, <2>1, <2>6, <3>1, NotReset DEF k
      <4>3. Provisions(d, "layer")
        BY <1>1, <2>6, <3>1 DEF Heads, k
      <4>4. under = names[home[d]]["base"] /\ inodes[under].over = 0
            /\ inodes[under].password = None
        BY <1>2, <1>4, <1>6, <2>3, <3>1 DEF World, Disks
      <4>5. /\ names'[home[d]]["provision"] = Len(inodes')
            /\ names'[home[d]]["base"] = under
        BY <1>2, <2>5, <3>1, <4>4 DEF Disks
      <4>6. inodes'[under] = inodes[under] /\ inodes'[Len(inodes')] = r
            /\ Len(inodes') # 0
        BY <1>2, <2>3, <2>5
      <4>7. Layered(d)'
        BY <1>1, <1>6, <2>4, <4>4, <4>5, <4>6 DEF Layered, File
      <4>8. Provisions(d, "start")'
        BY <1>1, <4>3, <4>7, Stages DEF Provisions
      <4> QED BY <4>1, <4>2, <4>8, HeadsNext
    <3>2. CASE k = "run"
      <4>1. Head(todo'[d]) \in {Plain("provision"), Plain("live"), On("start", "run")}
                               \cup Finals(verb[d])
        BY <1>1, <2>6, <3>2 DEF Follows, k
      <4>2. CASE verb[d] = "reset" /\ calm[d]
        <5>1. Resets(d, "layer") /\ Snapshots
          BY <1>1, <2>6, <4>2 DEF Heads, LabInv
        <5>2. under = names[home[d]]["clean"]
          BY <1>4, <3>2
        <5>3. inodes[under].key = None /\ inodes[under].password = None
          BY <1>2, <1>6, <5>1, <5>2 DEF Snapshots, Exact
        <5>4. /\ names'[home[d]]["run"] = Len(inodes')
              /\ names'[home[d]]["clean"] = under
          BY <1>2, <2>5, <3>2, <5>2 DEF Disks
        <5>5. inodes'[under] = inodes[under] /\ inodes'[Len(inodes')] = r /\ Len(inodes') # 0
          BY <1>2, <2>3, <2>5
        <5>6. Fresh(d)'
          BY <1>1, <2>4, <5>3, <5>4, <5>5 DEF Fresh, File
        <5>7. Resets(d, "provision")' /\ Resets(d, "live")' /\ Resets(d, "start")'
          BY <1>1, <1>6, <5>1, <5>4, <5>6 DEF Resets, File
        <5>8. Finals(verb[d]) = {}
          BY <4>2 DEF Finals
        <5>9. Head(todo'[d]) \in {On("provision", "none"), On("live", "none"), On("start", "run")}
          BY <4>1, <5>8 DEF Plain
        <5> QED BY <5>7, <5>9, HeadsNext
      <4>3. CASE ~(verb[d] = "reset" /\ calm[d])
        <5>1. ~(verb'[d] = "reset" /\ calm'[d])
          BY <1>1, <2>1, <4>3
        <5>2. Head(todo'[d]).disk # "provision"
          BY <4>1 DEF Plain, On, Finals
        <5> QED BY <5>1, <5>2 DEF Heads
      <4> QED BY <4>2, <4>3
    <3> QED BY <1>3, <3>1, <3>2 DEF k
  <2> QED BY <1>1, <2>1, <2>5, <2>6, WorldNext DEF LabInv
<1> QED BY <1>5, <1>6

LEMMA SnapshotKeeps ==
  ASSUME LabInv, NEW d \in Drivers, Snapshot(d) PROVE LabInv'
<1> DEFINE p == names[home[d]]["provision"]
<1>1. /\ todo[d] # <<>> /\ Head(todo[d]).op = "rename" /\ Quiet /\ Inside(d)
      /\ UNCHANGED <<inodes, box>> /\ home' = home /\ verb' = verb
  BY DEF Snapshot, At, Inside, Quiet
<1>2. World /\ home[d] \in Homes /\ Control
  BY Directory DEF LabInv
<1>3. Head(todo[d]).disk = "provision"
  <2>1. todo[d] \in Seq(LabStep) /\ Along(verb[d], todo[d])
    BY <1>2 DEF Control
  <2>2. Suits(Head(todo[d]))
    BY <1>1, <2>1, AlongTail
  <2> QED BY <1>1, <2>2 DEF Suits
<1>4. OneLab => Heads(d)
  BY <1>1 DEF LabInv, Driving
<1>5. CASE p = 0
  <2>1. Fail(d, FALSE) /\ UNCHANGED names
    BY <1>5 DEF Snapshot, File
  <2>2. ~(OneLab /\ verb[d] = "reset" /\ calm[d])
    BY <1>3, <1>4, NotReset
  <2> QED BY <1>1, <2>1, <2>2, QuietFail
<1>6. CASE p # 0
  <2>1. /\ names' = [names EXCEPT ![home[d]]["clean"] = p, ![home[d]]["provision"] = 0]
        /\ Next1(d) /\ UNCHANGED <<failed, calm>>
    BY <1>6 DEF Snapshot, File
  <2>2. "clean" \in Disks /\ "provision" \in Disks /\ "base" \in Disks
    BY DEF Disks
  <2>3. /\ names' \in [Homes -> [Disks -> 0 .. Len(inodes)]]
        /\ \A g \in Homes, j \in Disks :
             names'[g][j] = IF g # home[d] THEN names[g][j]
                            ELSE IF j = "clean" THEN p
                            ELSE IF j = "provision" THEN 0 ELSE names[g][j]
    <3> DEFINE h == home[d]
               n == [names EXCEPT ![h]["clean"] = p]
    <3>1. names \in [Homes -> [Disks -> 0 .. Len(inodes)]] /\ h \in Homes
          /\ p \in 0 .. Len(inodes) /\ 0 \in 0 .. Len(inodes)
      BY <1>2, <2>2 DEF World
    <3>2. names' = [n EXCEPT ![h]["provision"] = 0]
      BY <2>1, <3>1
    <3> HIDE DEF h, p
    <3>3. /\ n \in [Homes -> [Disks -> 0 .. Len(inodes)]]
          /\ \A g \in Homes, j \in Disks :
               n[g][j] = IF g = h /\ j = "clean" THEN p ELSE names[g][j]
      BY <2>2, <3>1
    <3> HIDE DEF n
    <3>4. /\ names' \in [Homes -> [Disks -> 0 .. Len(inodes)]]
          /\ \A g \in Homes, j \in Disks :
               names'[g][j] = IF g = h /\ j = "provision" THEN 0 ELSE n[g][j]
      BY <2>2, <3>1, <3>2, <3>3
    <3> QED BY <3>3, <3>4 DEF h
  <2>4. World'
    <3>1. \A h, g \in Homes, k, j \in Disks :
            names'[h][k] # 0 /\ names'[h][k] = names'[g][j] => h = g /\ k = j
      <4> SUFFICES ASSUME NEW h \in Homes, NEW g \in Homes, NEW k \in Disks, NEW j \in Disks,
                          names'[h][k] # 0, names'[h][k] = names'[g][j]
                   PROVE  h = g /\ k = j
        OBVIOUS
      <4> DEFINE was(a, i) == IF a = home[d] /\ i = "clean" THEN "provision" ELSE i
      <4>1. \A a \in Homes, i \in Disks :
              names'[a][i] # 0 => /\ names'[a][i] = names[a][was(a, i)]
                                  /\ was(a, i) \in Disks
                                  /\ ~(a = home[d] /\ i = "provision")
        BY <2>2, <2>3
      <4>2. /\ names[h][was(h, k)] # 0 /\ names[h][was(h, k)] = names[g][was(g, j)]
            /\ was(h, k) \in Disks /\ was(g, j) \in Disks
            /\ ~(h = home[d] /\ k = "provision") /\ ~(g = home[d] /\ j = "provision")
        BY <4>1
      <4>3. h = g /\ was(h, k) = was(g, j)
        BY <1>2, <4>2 DEF World
      <4> QED BY <4>2, <4>3
    <3>2. \A h \in Homes, k \in Disks :
            names'[h][k] # 0 => (k = "base" <=> inodes'[names'[h][k]].over = 0)
      <4> SUFFICES ASSUME NEW h \in Homes, NEW k \in Disks, names'[h][k] # 0
                   PROVE  k = "base" <=> inodes[names'[h][k]].over = 0
        BY <1>1
      <4>1. CASE h = home[d] /\ k = "clean"
        <5>1. names'[h][k] = names[home[d]]["provision"]
          BY <2>3, <4>1
        <5>2. "provision" \in Disks /\ home[d] \in Homes
          BY <1>2 DEF Disks
        <5>3. inodes[names[home[d]]["provision"]].over # 0
          BY <1>2, <5>1, <5>2 DEF World
        <5> QED BY <4>1, <5>1, <5>3
      <4>2. CASE ~(h = home[d] /\ k = "clean")
        <5>1. names'[h][k] = names[h][k]
          BY <2>3, <4>2
        <5> QED BY <1>2, <5>1 DEF World
      <4> QED BY <4>1, <4>2
    <3> QED BY <1>1, <1>2, <2>3, <3>1, <3>2 DEF World
  <2>5. ASSUME OneLab, NEW h \in Homes, names'[h]["clean"] # 0 PROVE Exact(h)'
    <3>1. CASE h # home[d]
      <4>1. /\ names'[h]["clean"] = names[h]["clean"]
            /\ names'[h]["base"] = names[h]["base"]
        BY <2>2, <2>3, <3>1
      <4>2. Exact(h)
        BY <2>5, <4>1 DEF LabInv, Snapshots
      <4> QED BY <1>1, <4>1, <4>2 DEF Exact
    <3>2. CASE h = home[d]
      <4>1. Provisions(d, "rename")
        BY <1>1, <1>3, <1>4, <2>5 DEF Heads
      <4>2. /\ box = Absent /\ Layered(d) /\ "torn" \notin inodes[p].set
            /\ {"name", "package", "mode"} \subseteq inodes[p].set
            /\ inodes[p].key = None
        BY <4>1, Stages DEF Provisions, File
      <4>3. box.id # p
        BY <1>6, <4>2 DEF Absent
      <4>4. inodes[p].set = inodes[inodes[p].over].set \cup Provisioned
        BY <4>2 DEF Layered, File, Provisioned
      <4>5. names'[h]["clean"] = p /\ names'[h]["base"] = names[h]["base"]
        BY <2>2, <2>3, <3>2
      <4> QED BY <1>1, <3>2, <4>2, <4>3, <4>4, <4>5 DEF Exact, Layered, File
    <3> QED BY <3>1, <3>2
  <2>6. OneLab => Snapshots'
    BY <2>5 DEF Snapshots
  <2>7. ASSUME Heads(d), Follows(verb[d], Head(todo[d]), Head(todo'[d])) PROVE Heads(d)'
    <3>1. Head(todo'[d]) = On("wipe", "run")
      BY <1>1, <2>7 DEF Follows
    <3>2. ~(verb'[d] = "reset" /\ calm'[d])
      BY <1>1, <1>3, <2>1, <2>7, NotReset
    <3>3. "run" # "provision"
      OBVIOUS
    <3> QED BY <3>1, <3>2, <3>3 DEF Heads, On
  <2> QED BY <1>1, <2>1, <2>4, <2>6, <2>7, WorldNext
<1> QED BY <1>5, <1>6
-----------------------------------------------------------------------------
(* The machine: power, and what the router writes.                         *)

LEMMA AbsentIs == Absent \in BoxRecord /\ Absent.id = 0 /\ Absent.state = "absent"
<1>1. (CHOOSE h \in Homes : TRUE) \in Homes
  BY LabAssumption DEF LabAssumption
<1> QED BY <1>1 DEF Absent, BoxRecord

LEMMA PoweredIs ==
  ASSUME World, NEW b \in BoxRecord
  PROVE  /\ Powered(b) \in BoxRecord
         /\ Powered(b).home = b.home /\ Powered(b).disk = b.disk
         /\ Powered(b).id = names[b.home][b.disk]
         /\ Powered(b).state = IF names[b.home][b.disk] = 0 THEN "exited" ELSE "running"
<1>1. b.home \in Homes /\ b.disk \in Disks
  BY DEF BoxRecord, Disks
<1>2. names[b.home][b.disk] \in Nat
  BY <1>1 DEF World
<1> DEFINE i == names[b.home][b.disk]
<1> HIDE DEF i
<1>3. Powered(b) = [b EXCEPT !.state = IF i = 0 THEN "exited" ELSE "running", !.id = i,
                             !.asked = FALSE]
  BY DEF Powered, i
<1> QED BY <1>2, <1>3 DEF BoxRecord, i

\* A confirmed change is made on the disk the machine has, and only there.
LEMMA ConfirmedIs ==
  ASSUME World
  PROVE  LET w == Confirmed(box)
             i == box.id
         IN /\ w \in Seq(InodeRecord) /\ Len(w) = Len(inodes)
            /\ \A j \in 1 .. Len(inodes) :
                 /\ w[j].over = inodes[j].over
                 /\ j # i => w[j] = inodes[j]
                 /\ w[j].set \in {inodes[j].set, inodes[j].set \cup {"mode"}}
                 /\ w[j].key = inodes[j].key /\ w[j].password = inodes[j].password
<1> DEFINE w == Confirmed(box)
           i == box.id
<1>1. inodes \in Seq(InodeRecord) /\ i \in 0 .. Len(inodes) /\ Len(inodes) \in Nat
  BY DEF World, BoxRecord
<1>2. CASE w = inodes
  BY <1>1, <1>2
<1>3. CASE w # inodes
  <2>1. i # 0 /\ w = [inodes EXCEPT ![i].set = @ \cup {"mode"}]
    BY <1>3 DEF Confirmed
  <2> DEFINE r == [inodes[i] EXCEPT !.set = @ \cup {"mode"}]
  <2>2. i \in 1 .. Len(inodes) /\ inodes[i] \in InodeRecord
    BY <1>1, <2>1
  <2>3. /\ r \in InodeRecord /\ r.over = inodes[i].over /\ r.key = inodes[i].key
        /\ r.password = inodes[i].password /\ r.set = inodes[i].set \cup {"mode"}
    BY <2>2 DEF InodeRecord, Things
  <2>4. w = [inodes EXCEPT ![i] = r]
    BY <2>1
  <2> HIDE DEF r, w, i
  <2>5. /\ w \in Seq(InodeRecord) /\ Len(w) = Len(inodes) /\ w[i] = r
        /\ \A j \in 1 .. Len(inodes) : j # i => w[j] = inodes[j]
    BY <1>1, <2>2, <2>3, <2>4
  <2>6. \A j \in 1 .. Len(inodes) :
          /\ w[j].over = inodes[j].over
          /\ w[j].set \in {inodes[j].set, inodes[j].set \cup {"mode"}}
          /\ w[j].key = inodes[j].key /\ w[j].password = inodes[j].password
    BY <2>3, <2>5
  <2> QED BY <2>5, <2>6 DEF w, i
<1> QED BY <1>2, <1>3

\* Power comes back to a container that is off.
LEMMA PowerSet ==
  ASSUME World, box' = Powered(box), inodes' = Confirmed(box), names' = names
  PROVE  World' /\ (Snapshots => Snapshots')
<1>1. box \in BoxRecord
  BY DEF World
<1>2. /\ box' \in BoxRecord /\ box'.home = box.home /\ box'.disk = box.disk
      /\ box'.id = names[box.home][box.disk]
      /\ box'.state = "running" => box'.id # 0
  BY <1>1, PoweredIs
<1> QED BY <1>2, ConfirmedIs, MachineSet

\* Only the container changes.
LEMMA BoxSet ==
  ASSUME World, box' \in BoxRecord, UNCHANGED <<inodes, names>>,
         \/ box'.id = 0 /\ box'.state # "running"
         \/ box'.id = box.id /\ (box'.state = "running" => box.id # 0)
         \/ box'.id = names[box'.home][box'.disk] /\ (box'.state = "running" => box'.id # 0)
  PROVE  World' /\ (Snapshots => Snapshots')
<1>1. inodes' \in Seq(InodeRecord)
  BY DEF World
<1> QED BY <1>1, MachineSet

LEMMA StartKeeps ==
  ASSUME LabInv, NEW d \in Drivers, Start(d) PROVE LabInv'
<1> DEFINE k == Head(todo[d]).disk
           b == [Absent EXCEPT !.home = home[d], !.disk = k]
<1>1. /\ todo[d] # <<>> /\ Head(todo[d]).op = "start" /\ Quiet /\ Inside(d) /\ Next1(d)
      /\ UNCHANGED <<names, failed, calm>> /\ home' = home /\ verb' = verb
      /\ CASE box.state = "running" -> UNCHANGED <<box, inodes>>
           [] box.state \in {"exited", "created"} ->
                box' = Powered(box) /\ inodes' = Confirmed(box)
           [] OTHER -> box' = Powered(b) /\ UNCHANGED inodes
  BY DEF Start, At, Inside, Quiet
<1>2. k \in {"run", "provision"}
  BY <1>1, StepFacts DEF Suits
<1>3. home[d] \in Homes /\ World
  BY Directory DEF LabInv
<1>4. /\ b \in BoxRecord /\ b.home = home[d] /\ b.disk = k
  BY <1>2, <1>3, AbsentIs DEF BoxRecord
<1>5. /\ Powered(b) \in BoxRecord /\ Powered(b).home = home[d] /\ Powered(b).disk = k
      /\ Powered(b).id = names[home[d]][k]
      /\ Powered(b).state = IF names[home[d]][k] = 0 THEN "exited" ELSE "running"
  <2> HIDE DEF b, k
  <2> QED BY <1>3, <1>4, PoweredIs
<1>6. World' /\ (Snapshots => Snapshots')
  <2>1. CASE box.state = "running"
    <3>1. UNCHANGED <<box, inodes, names>>
      BY <1>1, <2>1
    <3>2. World'
      BY <1>3, <3>1 DEF World
    <3>3. Snapshots => Snapshots'
      BY <3>1 DEF Snapshots, Exact
    <3> QED BY <3>2, <3>3
  <2>2. CASE box.state \in {"exited", "created"}
    BY <1>1, <1>3, <2>2, PowerSet
  <2>3. CASE box.state \notin {"running", "exited", "created"}
    <3>1. box' = Powered(b) /\ UNCHANGED <<inodes, names>>
      BY <1>1, <2>3
    <3>2. /\ box' \in BoxRecord /\ box'.id = names[box'.home][box'.disk]
          /\ box'.state = "running" => box'.id # 0
      BY <1>5, <3>1
    <3> QED BY <1>3, <3>1, <3>2, BoxSet
  <2> QED BY <2>1, <2>2, <2>3
<1>7. box = Absent /\ names[home[d]][k] # 0 =>
        /\ UNCHANGED <<inodes, names>> /\ box'.state = "running" /\ box'.home = home[d]
        /\ box'.disk = k /\ box'.id = names[home[d]][k]
  BY <1>1, <1>5, AbsentIs
<1>8. ASSUME Heads(d), Follows(verb[d], Head(todo[d]), Head(todo'[d])) PROVE Heads(d)'
  <2>1. CASE k = "provision"
    <3>1. Head(todo'[d]) = On("empty", "provision")
      BY <1>1, <1>8, <2>1 DEF Follows, Ours
    <3>2. ~(verb'[d] = "reset" /\ calm'[d])
      BY <1>1, <1>8, <2>1, NotReset
    <3>3. Provisions(d, "start")
      BY <1>1, <1>8, <2>1 DEF Heads
    <3>4. box = Absent /\ Layered(d)
      BY <3>3, Stages DEF Provisions
    <3>5. names[home[d]][k] # 0
      BY <2>1, <3>4 DEF Layered, File
    <3>6. Boxed(d)' /\ Layered(d)'
      BY <1>1, <1>7, <2>1, <3>4, <3>5 DEF Boxed, Layered, File
    <3>7. Provisions(d, "empty")'
      BY <3>6, Stages DEF Provisions
    <3> QED BY <3>1, <3>2, <3>7, HeadsNext
  <2>2. CASE k = "run"
    <3>1. Head(todo'[d]) = On("access", "none")
      BY <1>1, <1>8, <2>2 DEF Follows, Plain
    <3>2. ASSUME verb'[d] = "reset" /\ calm'[d] PROVE Resets(d, "access")'
      <4>1. box = Absent /\ Fresh(d) /\ File(d, "clean") # 0
        BY <1>1, <1>8, <3>2 DEF Heads, Resets
      <4>2. names[home[d]][k] # 0
        BY <2>2, <4>1 DEF Fresh, File
      <4>3. Fresh(d)'
        BY <1>1, <1>7, <4>1, <4>2 DEF Fresh, File
      <4> QED BY <1>1, <1>7, <2>2, <4>1, <4>2, <4>3 DEF Resets, File
    <3>3. "none" # "provision"
      OBVIOUS
    <3> QED BY <3>1, <3>2, <3>3, HeadsNext
  <2> QED BY <1>2, <2>1, <2>2
<1> QED BY <1>1, <1>6, <1>8, WorldNext DEF LabInv

LEMMA RemoveKeeps ==
  ASSUME LabInv, NEW d \in Drivers, Remove(d) PROVE LabInv'
<1>1. /\ todo[d] # <<>> /\ Head(todo[d]).op = "remove" /\ Quiet /\ Inside(d) /\ Next1(d)
      /\ UNCHANGED <<inodes, names, failed, calm>> /\ home' = home /\ verb' = verb
      /\ box' = Absent
  BY DEF Remove, At, Inside, Quiet, NoDisks
<1>2. World' /\ (Snapshots => Snapshots')
  BY <1>1, AbsentIs, BoxSet DEF LabInv
<1>3. ASSUME Heads(d), Suits(Head(todo[d])), Follows(verb[d], Head(todo[d]), Head(todo'[d]))
      PROVE  Heads(d)'
  <2>1. CASE Head(todo[d]).disk = "provision"
    <3>1. Head(todo'[d]) = On("wipe", "provision")
      BY <1>1, <1>3, <2>1 DEF Follows
    <3>2. ~(verb'[d] = "reset" /\ calm'[d])
      BY <1>1, <1>3, <2>1, NotReset
    <3>3. Absent' = Absent
      BY DEF Absent
    <3>4. Provisions(d, "wipe")'
      BY <1>1, <3>3, Stages DEF Provisions
    <3> QED BY <3>1, <3>2, <3>4, HeadsNext
  <2>2. CASE Head(todo[d]).disk = "none"
    <3>1. Head(todo'[d]) = On("wipe", "run")
      BY <1>1, <1>3, <2>2 DEF Follows
    <3>2. verb'[d] = "reset" /\ calm'[d] => Resets(d, "wipe")'
      BY <1>1, <1>3 DEF Heads, Resets, File, Absent
    <3>3. "run" # "provision"
      OBVIOUS
    <3> QED BY <3>1, <3>2, <3>3, HeadsNext
  <2> QED BY <1>1, <1>3, <2>1, <2>2 DEF Suits
<1> QED BY <1>1, <1>2, <1>3, WorldNext DEF LabInv

LEMMA RmKeeps ==
  ASSUME LabInv, NEW d \in Drivers, Rm(d) PROVE LabInv'
<1>1. /\ todo[d] # <<>> /\ Head(todo[d]).op \in {"rm", "gone"} /\ Quiet /\ Inside(d)
      /\ UNCHANGED <<inodes, names>> /\ home' = home /\ verb' = verb
  BY DEF Rm, At, Inside, Quiet, NoDisks
<1>2. Suits(Head(todo[d])) /\ (OneLab => Heads(d))
  <2>1. todo[d] \in Seq(LabStep) /\ Along(verb[d], todo[d])
    BY DEF LabInv, Control
  <2> QED BY <1>1, <2>1, AlongTail DEF LabInv, Driving
<1>3. OneLab => ~(verb[d] = "reset" /\ calm[d])
  BY <1>1, <1>2 DEF Heads, Resets
<1>4. CASE Fail(d, FALSE) /\ UNCHANGED box
  BY <1>1, <1>3, <1>4, QuietFail
<1>5. CASE box' = Absent /\ Next1(d) /\ UNCHANGED <<failed, calm>>
  <2>1. World' /\ (Snapshots => Snapshots')
    BY <1>1, <1>5, AbsentIs, BoxSet DEF LabInv
  <2>2. ASSUME OneLab, Heads(d), Follows(verb[d], Head(todo[d]), Head(todo'[d]))
        PROVE  Heads(d)'
    <3>1. ~(verb'[d] = "reset" /\ calm'[d])
      BY <1>1, <1>3, <1>5, <2>2
    <3>2. CASE Head(todo[d]).op = "rm"
      <4>1. Head(todo'[d]) = On("rename", "provision")
        BY <2>2, <3>2 DEF Follows, Ours
      <4>2. Provisions(d, "rm")
        BY <1>2, <2>2, <3>2 DEF Heads, Suits
      <4>3. Absent' = Absent
        BY DEF Absent
      <4>4. Layered(d)'
        BY <1>1, <4>2, Stages DEF Provisions, Layered, File
      <4>5. Provisions(d, "rename")'
        BY <1>1, <1>5, <4>2, <4>3, <4>4, Stages DEF Provisions, File
      <4> QED BY <3>1, <4>1, <4>5, HeadsNext
    <3>3. CASE Head(todo[d]).op = "gone"
      <4>1. Head(todo'[d]).disk # "provision"
        BY <2>2, <3>3 DEF Follows, Plain, On
      <4> QED BY <3>1, <4>1 DEF Heads
    <3> QED BY <1>1, <3>2, <3>3
  <2> QED BY <1>1, <1>5, <2>1, <2>2, WorldNext DEF LabInv
<1> QED BY <1>4, <1>5 DEF Rm

\* The container's machine ends.
LEMMA EndedIs ==
  ASSUME World, NEW b, b = [box EXCEPT !.state = "exited"]
  PROVE  /\ b \in BoxRecord /\ b.id = box.id /\ b.home = box.home /\ b.disk = box.disk
         /\ b.state = "exited"
  BY DEF World, BoxRecord

LEMMA OffKeeps ==
  ASSUME LabInv, NEW d \in Drivers, Off(d) PROVE LabInv'
<1>1. /\ todo[d] # <<>> /\ Head(todo[d]).op \in {"off", "quit"} /\ Quiet /\ Inside(d)
      /\ Next1(d)
      /\ UNCHANGED <<inodes, names, failed, calm>> /\ home' = home /\ verb' = verb
      /\ box' = IF box.state = "running" THEN [box EXCEPT !.state = "exited"] ELSE box
  BY DEF Off, At, Inside, Quiet, NoDisks
<1>2. /\ box' \in BoxRecord /\ box'.id = box.id /\ box'.home = box.home /\ box'.disk = box.disk
      /\ box'.state = IF box.state = "running" THEN "exited" ELSE box.state
  BY <1>1, EndedIs DEF LabInv, World
<1>3. World' /\ (Snapshots => Snapshots')
  BY <1>1, <1>2, BoxSet DEF LabInv
<1>4. ASSUME Heads(d), Suits(Head(todo[d])), Follows(verb[d], Head(todo[d]), Head(todo'[d]))
      PROVE  Heads(d)'
  <2>1. ~(verb'[d] = "reset" /\ calm'[d])
    BY <1>1, <1>4 DEF Heads, Resets
  <2>2. CASE Head(todo[d]) = On("quit", "provision")
    <3>0. Head(todo[d]).op = "quit" /\ Head(todo[d]).disk = "provision"
      BY <2>2 DEF On
    <3>1. Head(todo'[d]) = On("power", "provision")
      BY <1>4, <3>0 DEF Follows
    <3>2. Provisions(d, "quit")
      BY <1>4, <3>0 DEF Heads
    <3>3. Layered(d)'
      BY <1>1, <3>2, Stages DEF Provisions, Layered, File
    <3>4. Boxed(d)'
      BY <1>1, <1>2, <3>2, Stages DEF Provisions, Boxed, File
    <3>5. Provisions(d, "power")'
      BY <1>1, <3>2, <3>3, <3>4, Stages DEF Provisions, File
    <3> QED BY <2>1, <3>1, <3>5, HeadsNext
  <2>3. CASE Head(todo[d]).disk = "none"
    <3>1. Head(todo'[d]).disk # "provision"
      BY <1>1, <1>4, <2>3 DEF Follows, Plain, On
    <3> QED BY <2>1, <3>1 DEF Heads
  <2>4. \/ Head(todo[d]).disk = "none"
        \/ Head(todo[d]).op = "quit" /\ Head(todo[d]).disk = "provision"
    BY <1>1, <1>4 DEF Suits
  <2>5. Head(todo[d]) \in LabStep
    <3>1. todo[d] \in Seq(LabStep) /\ Along(verb[d], todo[d])
      BY DEF LabInv, Control
    <3> QED BY <1>1, <3>1, AlongTail
  <2>6. Head(todo[d]).op = "quit" /\ Head(todo[d]).disk = "provision"
          => Head(todo[d]) = On("quit", "provision")
    BY <2>5 DEF On, LabStep
  <2> QED BY <2>2, <2>3, <2>4, <2>6
<1> QED BY <1>1, <1>3, <1>4, WorldNext DEF LabInv

LEMMA ShutdownKeeps ==
  ASSUME LabInv, NEW d \in Drivers, Shutdown(d) PROVE LabInv'
<1>1. /\ todo[d] # <<>> /\ Head(todo[d]).op = "shutdown" /\ Quiet /\ Inside(d)
      /\ UNCHANGED <<inodes, names>> /\ home' = home /\ verb' = verb
  BY DEF Shutdown, At, Inside, Quiet, NoDisks
<1>2. Suits(Head(todo[d])) /\ (OneLab => Heads(d))
  <2>1. todo[d] \in Seq(LabStep) /\ Along(verb[d], todo[d])
    BY DEF LabInv, Control
  <2> QED BY <1>1, <2>1, AlongTail DEF LabInv, Driving
<1>3. Head(todo[d]).disk = "provision"
  BY <1>1, <1>2 DEF Suits
<1>4. OneLab => ~(verb[d] = "reset" /\ calm[d])
  BY <1>2, <1>3, NotReset
<1>5. CASE Fail(d, FALSE) /\ UNCHANGED box
  BY <1>1, <1>4, <1>5, QuietFail
<1>6. CASE /\ box' = IF box.state = "running" THEN [box EXCEPT !.state = "exited"] ELSE box
           /\ Next1(d) /\ UNCHANGED <<failed, calm>>
  <2>1. /\ box' \in BoxRecord /\ box'.id = box.id /\ box'.home = box.home /\ box'.disk = box.disk
        /\ box'.state = IF box.state = "running" THEN "exited" ELSE box.state
    BY <1>6, EndedIs DEF LabInv, World
  <2>2. World' /\ (Snapshots => Snapshots')
    BY <1>1, <2>1, BoxSet DEF LabInv
  <2>3. ASSUME Heads(d), Follows(verb[d], Head(todo[d]), Head(todo'[d])) PROVE Heads(d)'
    <3>1. ~(verb'[d] = "reset" /\ calm'[d])
      BY <1>1, <1>3, <1>6, <2>3, NotReset
    <3>2. Head(todo'[d]) = On("rm", "provision")
      BY <1>1, <2>3 DEF Follows, Ours
    <3>3. Provisions(d, "shutdown")
      BY <1>1, <1>3, <2>3 DEF Heads
    <3>4. Layered(d)'
      BY <1>1, <3>3, Stages DEF Provisions, Layered, File
    <3>5. Boxed(d)'
      BY <1>1, <2>1, <3>3, Stages DEF Provisions, Boxed, File
    <3>6. Provisions(d, "rm")'
      BY <1>1, <3>3, <3>4, <3>5, Stages DEF Provisions, File
    <3> QED BY <3>1, <3>2, <3>6, HeadsNext
  <2> QED BY <1>1, <1>6, <2>2, <2>3, WorldNext DEF LabInv
<1> QED BY <1>5, <1>6 DEF Shutdown

\* What the machine writes to its disk leaves the disk over what it was over.
LEMMA UnderIs ==
  ASSUME World, box.id # 0
  PROVE  /\ box.id \in 1 .. Len(inodes) /\ inodes[box.id] \in InodeRecord
         /\ inodes[box.id].over \in 1 .. Len(inodes) /\ inodes[box.id].over # box.id
<1>1. box.id \in 1 .. Len(inodes) /\ Len(inodes) \in Nat
  BY DEF World, BoxRecord
<1>2. inodes[box.id] \in InodeRecord /\ inodes[box.id].over < box.id /\ inodes[box.id].over # 0
  BY <1>1 DEF World
<1>3. inodes[box.id].over \in Nat
  BY <1>2 DEF InodeRecord
<1> QED BY <1>1, <1>2, <1>3

LEMMA PowerOnKeeps ==
  ASSUME LabInv, NEW d \in Drivers, PowerOn(d) PROVE LabInv'
<1>1. /\ todo[d] # <<>> /\ Head(todo[d]).op = "power" /\ Quiet /\ Inside(d)
      /\ UNCHANGED names /\ home' = home /\ verb' = verb
  BY DEF PowerOn, At, Inside, Quiet
<1>2. Suits(Head(todo[d])) /\ (OneLab => Heads(d))
  <2>1. todo[d] \in Seq(LabStep) /\ Along(verb[d], todo[d])
    BY DEF LabInv, Control
  <2> QED BY <1>1, <2>1, AlongTail DEF LabInv, Driving
<1>3. OneLab => ~(verb[d] = "reset" /\ calm[d])
  BY <1>1, <1>2 DEF Heads, Resets
<1>4. CASE Fail(d, FALSE) /\ UNCHANGED <<box, inodes>>
  BY <1>1, <1>3, <1>4, QuietFail
<1>5. CASE /\ IF box.state = "running" THEN UNCHANGED <<box, inodes>>
              ELSE box' = Powered(box) /\ inodes' = Confirmed(box)
           /\ Next1(d) /\ UNCHANGED <<failed, calm>>
  <2>0. World /\ box \in BoxRecord
    BY DEF LabInv, World
  <2>1. World' /\ (Snapshots => Snapshots')
    <3>1. CASE box.state = "running"
      <4>1. UNCHANGED <<box, inodes, names>>
        BY <1>1, <1>5, <3>1
      <4>2. World'
        BY <2>0, <4>1 DEF World
      <4>3. Snapshots => Snapshots'
        BY <4>1 DEF Snapshots, Exact
      <4> QED BY <4>2, <4>3
    <3>2. CASE box.state # "running"
      BY <1>1, <1>5, <2>0, <3>2, PowerSet
    <3> QED BY <3>1, <3>2
  <2>2. ASSUME OneLab, Heads(d), Follows(verb[d], Head(todo[d]), Head(todo'[d]))
        PROVE  Heads(d)'
    <3>1. ~(verb'[d] = "reset" /\ calm'[d])
      BY <1>1, <1>3, <1>5, <2>2
    <3>2. CASE Head(todo[d]).disk = "none"
      <4>1. Head(todo'[d]).disk # "provision"
        BY <1>1, <2>2, <3>2 DEF Follows, On
      <4> QED BY <3>1, <4>1 DEF Heads
    <3>3. CASE Head(todo[d]).disk = "provision"
      <4> DEFINE p == names[home[d]]["provision"]
                 u == inodes[p].over
      <4>1. Head(todo'[d]) = On("back", "provision")
        BY <1>1, <2>2, <3>3 DEF Follows
      <4>2. Provisions(d, "power")
        BY <1>1, <2>2, <3>3 DEF Heads
      <4>3. /\ Boxed(d) /\ Layered(d) /\ "torn" \notin inodes[p].set
            /\ "name" \in inodes[p].set /\ "package" \in inodes[p].set
        BY <4>2, Stages DEF Provisions, File
      <4>4. box.id = p /\ p # 0 /\ box.home = home[d] /\ box.disk = "provision"
        BY <4>3 DEF Boxed, Layered, File
      <4>5. p \in 1 .. Len(inodes) /\ u \in 1 .. Len(inodes) /\ u # p
        BY <2>0, <4>4, UnderIs
      <4>6. /\ inodes'[p].over = u /\ inodes'[u] = inodes[u]
            /\ inodes'[p].set \in {inodes[p].set, inodes[p].set \cup {"mode"}}
            /\ inodes'[p].password = inodes[p].password
        <5>1. CASE box.state = "running"
          BY <1>5, <5>1
        <5>2. CASE box.state # "running"
          BY <1>5, <2>0, <4>4, <4>5, <5>2, ConfirmedIs
        <5> QED BY <5>1, <5>2
      <4>7. /\ box'.state \in {"exited", "running"} /\ box'.home = home[d]
            /\ box'.disk = "provision" /\ box'.id = p
        <5>1. CASE box.state = "running"
          BY <1>5, <4>4, <5>1
        <5>2. CASE box.state # "running"
          BY <1>5, <2>0, <4>4, <5>2, PoweredIs
        <5> QED BY <5>1, <5>2
      <4>8. Boxed(d)'
        BY <1>1, <4>7 DEF Boxed, File
      <4>9. Layered(d)'
        BY <1>1, <4>3, <4>6 DEF Layered, File, Provisioned
      <4>10. /\ "torn" \notin inodes'[p].set /\ "name" \in inodes'[p].set
             /\ "package" \in inodes'[p].set
        BY <4>3, <4>6
      <4>11. Provisions(d, "back")'
        BY <1>1, <4>8, <4>9, <4>10, Stages DEF Provisions, File
      <4> QED BY <3>1, <4>1, <4>11, HeadsNext
    <3> QED BY <1>1, <1>2, <3>2, <3>3 DEF Suits
  <2> QED BY <1>1, <1>5, <2>1, <2>2, WorldNext DEF LabInv
<1> QED BY <1>4, <1>5 DEF PowerOn
-----------------------------------------------------------------------------
(* Steps that log in and write.                                            *)

\* The machine that runs writes to its disk.
LEMMA WriteWorld ==
  ASSUME World, box.state = "running", NEW set \in SUBSET Things, NEW key \in Creds,
         NEW password \in Creds, Write(set, key, password), UNCHANGED <<names, box>>
  PROVE  /\ World' /\ (Snapshots => Snapshots')
         /\ box.id \in 1 .. Len(inodes) /\ Guest \in InodeRecord
         /\ Guest.over \in 1 .. Len(inodes) /\ Guest.over # box.id
         /\ \A j \in 1 .. Len(inodes) : j # box.id => inodes'[j] = inodes[j]
         /\ Guest'.over = Guest.over /\ Guest'.set = set
         /\ Guest'.key = key /\ Guest'.password = password
<1> DEFINE i == box.id
<1>1. box.id # 0 /\ inodes \in Seq(InodeRecord) /\ box \in BoxRecord
  BY DEF World
<1>2. /\ i \in 1 .. Len(inodes) /\ inodes[i] \in InodeRecord
      /\ inodes[i].over \in 1 .. Len(inodes) /\ inodes[i].over # i
  BY <1>1, UnderIs
<1>3. inodes' = [inodes EXCEPT ![i].set = set, ![i].key = key, ![i].password = password]
  BY DEF Write
<1>4. box' = box /\ names' = names
  OBVIOUS
<1> HIDE DEF i
<1>5. /\ inodes' \in Seq(InodeRecord) /\ Len(inodes') = Len(inodes)
      /\ \A j \in 1 .. Len(inodes) : j # i => inodes'[j] = inodes[j]
      /\ inodes'[i].over = inodes[i].over /\ inodes'[i].set = set
      /\ inodes'[i].key = key /\ inodes'[i].password = password
  <2> DEFINE q == [inodes[i] EXCEPT !.set = set, !.key = key, !.password = password]
  <2>1. /\ q \in InodeRecord /\ q.over = inodes[i].over /\ q.set = set /\ q.key = key
        /\ q.password = password
    BY <1>2 DEF InodeRecord
  <2>2. inodes' = [inodes EXCEPT ![i] = q]
    BY <1>1, <1>2, <1>3
  <2> HIDE DEF q
  <2> QED BY <1>1, <1>2, <2>1, <2>2
<1>6. \A j \in 1 .. Len(inodes) :
        inodes'[j].over = inodes[j].over /\ (j # box.id => inodes'[j] = inodes[j])
  BY <1>5 DEF i
<1>7. World' /\ (Snapshots => Snapshots')
  BY <1>1, <1>4, <1>5, <1>6, MachineSet
<1> QED BY <1>2, <1>4, <1>5, <1>7 DEF i, Guest

\* What provisioning writes.
LEMMA GivenKeeps ==
  ASSUME LabInv, NEW d \in Drivers, Inside(d), box.state = "running", Next1(d),
         UNCHANGED <<failed, calm, names, box>>, Quiet, "torn" \notin Guest.set,
         NEW set, NEW key \in Creds, Write(set, key, Guest.password), NEW next,
         \/ Head(todo[d]).op = "setup" /\ next = "ssh" /\ set = Guest.set \cup {"name"}
         \/ Head(todo[d]).op = "package" /\ next = "mode" /\ set = Guest.set \cup {"package"}
         \/ Head(todo[d]).op = "takekey" /\ next = "shutdown" /\ set = Guest.set /\ key = None
  PROVE  LabInv'
<1> DEFINE o == Head(todo[d]).op
           p == names[home[d]]["provision"]
<1>1. /\ World /\ home' = home /\ verb' = verb /\ box.id # 0
      /\ o \in {"setup", "package", "takekey"} /\ names' = names /\ box' = box
  BY DEF LabInv, World, Quiet
<1>2. Guest \in InodeRecord
  BY <1>1, UnderIs DEF Guest
<1>3. set \in SUBSET Things /\ Guest.password \in Creds
  <2>1. Guest.set \in SUBSET Things /\ Guest.password \in Creds
    BY <1>2 DEF InodeRecord
  <2> QED BY <2>1 DEF Things
<1> DEFINE password == Guest.password
<1> HIDE DEF password
<1>4. password \in Creds /\ Write(set, key, password) /\ password = Guest.password
  BY <1>3 DEF password
<1>5. /\ World' /\ (Snapshots => Snapshots')
      /\ Guest.over \in 1 .. Len(inodes) /\ Guest.over # box.id
      /\ \A j \in 1 .. Len(inodes) : j # box.id => inodes'[j] = inodes[j]
      /\ Guest'.over = Guest.over /\ Guest'.set = set
      /\ Guest'.key = key /\ Guest'.password = password
  BY <1>1, <1>3, <1>4, WriteWorld
<1>6. ASSUME Heads(d), Suits(Head(todo[d])), Follows(verb[d], Head(todo[d]), Head(todo'[d]))
      PROVE  Heads(d)'
  <2>1. Head(todo[d]).disk = "provision"
    BY <1>1, <1>6 DEF Suits
  <2>2. ~(verb'[d] = "reset" /\ calm'[d])
    BY <1>1, <1>6, <2>1, NotReset
  <2>3. Head(todo'[d]) = On(next, "provision")
    BY <1>1, <1>6 DEF Follows, Ours
  <2>4. Provisions(d, o)
    BY <1>6, <2>1 DEF Heads
  <2>5. /\ Boxed(d) /\ Layered(d) /\ (o # "setup" => "name" \in inodes[p].set)
        /\ o = "takekey" => "package" \in inodes[p].set /\ "mode" \in inodes[p].set
    <3>1. Stage(o) \in {8, 10, 16} /\ (o # "setup" => Stage(o) # 8) /\ (o = "takekey" => Stage(o) = 16)
      BY <1>1, Stages
    <3> QED BY <2>4, <3>1 DEF Provisions, File
  <2>6. box.id = p /\ p # 0
    BY <2>5 DEF Boxed, Layered, File
  <2>7. Boxed(d)'
    BY <1>1, <2>5 DEF Boxed, File
  <2> DEFINE u == Guest.over
  <2>8. /\ inodes[p] = Guest /\ inodes'[p] = Guest' /\ inodes'[u] = inodes[u]
    BY <1>1, <1>5, <2>6 DEF Guest
  <2>9. Layered(d)'
    <3>1. /\ names[home[d]]["base"] # 0 /\ inodes[u].over = 0
          /\ inodes[u].set \subseteq Guest.set
          /\ Guest.set \subseteq inodes[u].set \cup Provisioned
          /\ Guest.password = None
      BY <2>5, <2>8 DEF Layered, File
    <3>2. Guest.set \subseteq set /\ set \subseteq Guest.set \cup Provisioned
      BY DEF Provisioned
    <3>3. /\ inodes'[p].over = u /\ inodes'[p].set = set /\ inodes'[p].password = None
      BY <1>4, <1>5, <2>8, <3>1
    <3>4. inodes[u].set \subseteq set /\ set \subseteq inodes[u].set \cup Provisioned
      BY <3>1, <3>2
    <3> HIDE DEF u
    <3> QED BY <1>1, <2>6, <2>8, <3>1, <3>3, <3>4 DEF Layered, File
  <2>10. "torn" \notin inodes'[p].set
    BY <1>5, <2>8
  <2>11. Provisions(d, next)'
    <3>1. CASE next = "ssh" /\ set = Guest.set \cup {"name"}
      <4>1. "name" \in inodes'[p].set
        BY <1>5, <2>8, <3>1
      <4>2. Provisions(d, "ssh")'
        BY <1>1, <2>7, <2>9, <2>10, <4>1, Stages DEF Provisions, File
      <4> QED BY <3>1, <4>2
    <3>2. CASE next = "mode" /\ set = Guest.set \cup {"package"} /\ o = "package"
      <4>1. "package" \in inodes'[p].set /\ "name" \in inodes'[p].set
        BY <1>5, <2>5, <2>8, <3>2
      <4>2. Provisions(d, "mode")'
        BY <1>1, <2>7, <2>9, <2>10, <4>1, Stages DEF Provisions, File
      <4> QED BY <3>2, <4>2
    <3>3. CASE next = "shutdown" /\ set = Guest.set /\ key = None /\ o = "takekey"
      <4>1. /\ "package" \in inodes'[p].set /\ "name" \in inodes'[p].set
            /\ "mode" \in inodes'[p].set /\ inodes'[p].key = None
        BY <1>5, <2>5, <2>8, <3>3
      <4>2. Provisions(d, "shutdown")'
        BY <1>1, <2>7, <2>9, <2>10, <4>1, Stages DEF Provisions, File
      <4> QED BY <3>3, <4>2
    <3> QED BY <3>1, <3>2, <3>3
  <2> QED BY <2>2, <2>3, <2>11, HeadsNext
<1> QED BY <1>5, <1>6, WorldNext DEF LabInv

\* Whoever logs in has a router that boots.
LEMMA LoginBoots ==
  ASSUME NEW d \in Drivers, Open \/ Ssh(d)
  PROVE  box.state = "running" /\ "torn" \notin Guest.set
  BY DEF Open, Ssh, Boots

LEMMA GivesKeeps ==
  ASSUME LabInv, NEW d \in Drivers, SetUp(d) \/ InstallPackage(d) \/ TakeKey(d)
  PROVE  LabInv'
<1>1. /\ todo[d] # <<>> /\ Head(todo[d]).op \in {"setup", "package", "takekey"} /\ Quiet
      /\ Inside(d) /\ UNCHANGED <<names, box>>
  BY DEF SetUp, InstallPackage, TakeKey, Writes, At, Inside
<1>2. Suits(Head(todo[d])) /\ (OneLab => Heads(d))
  <2>1. todo[d] \in Seq(LabStep) /\ Along(verb[d], todo[d])
    BY DEF LabInv, Control
  <2> QED BY <1>1, <2>1, AlongTail DEF LabInv, Driving
<1>3. OneLab => ~(verb[d] = "reset" /\ calm[d])
  BY <1>1, <1>2, NotReset DEF Suits
<1>4. CASE Fail(d, FALSE) /\ UNCHANGED inodes
  BY <1>1, <1>3, <1>4, QuietFail
<1>5. CASE ~(Fail(d, FALSE) /\ UNCHANGED inodes)
  <2>1. Dir(d) \in Creds /\ None \in Creds
    BY Directory DEF LabInv, Creds
  <2>2. /\ Next1(d) /\ UNCHANGED <<failed, calm>>
        /\ Open \/ Ssh(d)
    BY <1>5 DEF SetUp, InstallPackage, TakeKey, Writes
  <2>3. box.state = "running" /\ "torn" \notin Guest.set
    BY <2>2, LoginBoots
  <2>4. Guest.key \in Creds
    BY <2>3, UnderIs DEF LabInv, World, Guest, InodeRecord
  <2>5. CASE SetUp(d)
    <3>1. /\ Head(todo[d]).op = "setup"
          /\ Write(Guest.set \cup {"name"}, Dir(d), Guest.password)
      BY <1>5, <2>5 DEF SetUp, Writes, At
    <3> QED BY <1>1, <2>1, <2>2, <2>3, <3>1, GivenKeeps
  <2>6. CASE InstallPackage(d)
    <3>1. /\ Head(todo[d]).op = "package"
          /\ Write(Guest.set \cup {"package"}, Guest.key, Guest.password)
      BY <1>5, <2>6 DEF InstallPackage, Writes, At
    <3> QED BY <1>1, <2>2, <2>3, <2>4, <3>1, GivenKeeps
  <2>7. CASE TakeKey(d)
    <3>1. Head(todo[d]).op = "takekey" /\ Write(Guest.set, None, Guest.password)
      BY <1>5, <2>7 DEF TakeKey, Writes, At
    <3> QED BY <1>1, <2>1, <2>2, <2>3, <3>1, GivenKeeps
  <2> QED BY <2>5, <2>6, <2>7
<1> QED BY <1>4, <1>5

\* A command given to the router.
LEMMA UseKeeps ==
  ASSUME LabInv, NEW d \in Drivers, Use(d) PROVE LabInv'
<1>1. /\ todo[d] # <<>> /\ Head(todo[d]).op = "use" /\ Quiet /\ Inside(d)
      /\ UNCHANGED <<names, box>> /\ home' = home /\ verb' = verb /\ World
  BY DEF Use, Writes, At, Inside, Quiet, LabInv
<1>2. OneLab => ~(verb[d] = "reset" /\ calm[d])
  BY <1>1 DEF LabInv, Driving, Heads, Resets
<1>3. CASE Fail(d, FALSE) /\ UNCHANGED inodes
  BY <1>1, <1>2, <1>3, QuietFail
<1>4. CASE ~(Fail(d, FALSE) /\ UNCHANGED inodes)
  <2> DEFINE set == Guest.set \cup {"used"}
             key == Guest.key
             password == Guest.password
  <2>1. /\ Next1(d) /\ UNCHANGED <<failed, calm>> /\ Ssh(d) /\ Write(set, key, password)
    BY <1>4 DEF Use, Writes
  <2>2. box.state = "running"
    BY <2>1, LoginBoots
  <2>3. set \in SUBSET Things /\ key \in Creds /\ password \in Creds
    BY <1>1, <2>2, UnderIs DEF World, Guest, InodeRecord, Things
  <2> HIDE DEF set, key, password
  <2>4. World' /\ (Snapshots => Snapshots')
    BY <1>1, <2>1, <2>2, <2>3, WriteWorld
  <2>5. ASSUME OneLab, Follows(verb[d], Head(todo[d]), Head(todo'[d])) PROVE Heads(d)'
    <3>1. Head(todo'[d]) = On("done", "none")
      BY <1>1, <2>5 DEF Follows, Plain
    <3>2. ~(verb'[d] = "reset" /\ calm'[d])
      BY <1>1, <1>2, <2>1, <2>5
    <3> QED BY <3>1, <3>2, HeadsNext
  <2> QED BY <1>1, <2>1, <2>4, <2>5, WorldNext DEF LabInv
<1> QED BY <1>3, <1>4

\* The lab's access is given to a router that has none; a reset's is fresh,
\* and lets it in.
LEMMA GrantAccessKeeps ==
  ASSUME LabInv, NEW d \in Drivers, GrantAccess(d) PROVE LabInv'
<1>1. /\ todo[d] # <<>> /\ Head(todo[d]).op = "access" /\ Quiet /\ Inside(d)
      /\ UNCHANGED <<names, box>> /\ home' = home /\ verb' = verb /\ World
  BY DEF GrantAccess, Writes, At, Inside, Quiet, LabInv
<1>2. ASSUME OneLab, verb[d] = "reset", calm[d]
      PROVE  /\ box.state = "running" /\ box.home = home[d] /\ box.disk = "run"
             /\ box.id = names[home[d]]["run"] /\ box.id # 0
             /\ names[home[d]]["clean"] # 0 /\ Guest.over = names[home[d]]["clean"]
             /\ Guest.set = inodes[Guest.over].set /\ Guest.key = None /\ Guest.password = None
             /\ "torn" \notin Guest.set /\ Open
  <2>1. Heads(d)
    BY <1>1, <1>2 DEF LabInv, Driving
  <2>2. Resets(d, "access")
    BY <1>1, <1>2, <2>1 DEF Heads
  <2>3. /\ box.state = "running" /\ box.home = home[d] /\ box.disk = "run"
        /\ box.id = File(d, "run") /\ Fresh(d) /\ File(d, "clean") # 0
    BY <2>2 DEF Resets
  <2>4. Exact(home[d])
    BY <1>2, <2>3, Directory DEF LabInv, Snapshots, File
  <2>5. "torn" \notin inodes[File(d, "clean")].set
    BY <2>4 DEF Exact, File
  <2> QED BY <2>3, <2>5 DEF Fresh, File, Guest, Open, Boots
<1>3. CASE Fail(d, FALSE) /\ UNCHANGED inodes /\ ~Ssh(d)
  <2>1. ~(OneLab /\ verb[d] = "reset" /\ calm[d])
    BY <1>2, <1>3 DEF Ssh, Open
  <2> QED BY <1>1, <1>3, <2>1, QuietFail
<1>4. CASE Ssh(d)
  <2> DEFINE set == Guest.set
             key == IF Guest.key = None THEN Dir(d) ELSE Guest.key
             password == IF Guest.key = None THEN Dir(d) ELSE Guest.password
  <2>1. /\ Next1(d) /\ UNCHANGED <<failed, calm>> /\ Write(set, key, password)
    BY <1>4 DEF GrantAccess, Writes
  <2>2. box.state = "running"
    BY <1>4, LoginBoots
  <2>3. set \in SUBSET Things /\ key \in Creds /\ password \in Creds
    <3>1. Dir(d) \in Creds
      BY Directory DEF LabInv, Creds
    <3>2. Guest.set \in SUBSET Things /\ Guest.key \in Creds /\ Guest.password \in Creds
      BY <1>1, <2>2, UnderIs DEF World, Guest, InodeRecord
    <3> QED BY <3>1, <3>2
  <2>4. set = Guest.set /\ (Guest.key = None => key = Dir(d) /\ password = Dir(d))
    OBVIOUS
  <2> HIDE DEF set, key, password
  <2>5. /\ World' /\ (Snapshots => Snapshots')
        /\ Guest.over \in 1 .. Len(inodes) /\ Guest.over # box.id
        /\ \A j \in 1 .. Len(inodes) : j # box.id => inodes'[j] = inodes[j]
        /\ Guest'.over = Guest.over /\ Guest'.set = set
        /\ Guest'.key = key /\ Guest'.password = password
    BY <1>1, <2>1, <2>2, <2>3, WriteWorld
  <2>6. ASSUME OneLab, Follows(verb[d], Head(todo[d]), Head(todo'[d])) PROVE Heads(d)'
    <3>1. Head(todo'[d]) = On("routes", "none")
      BY <1>1, <2>6 DEF Follows, Plain
    <3>2. ASSUME verb'[d] = "reset", calm'[d] PROVE Resets(d, "routes")'
      <4>1. verb[d] = "reset" /\ calm[d]
        BY <1>1, <2>1, <3>2
      <4>2. /\ box.state = "running" /\ box.home = home[d] /\ box.disk = "run"
            /\ box.id = names[home[d]]["run"]
            /\ names[home[d]]["clean"] # 0 /\ Guest.over = names[home[d]]["clean"]
            /\ Guest.set = inodes[Guest.over].set /\ Guest.key = None
        BY <1>2, <2>6, <4>1
      <4>3. inodes'[Guest.over] = inodes[Guest.over]
        BY <2>5
      <4>4. /\ Guest'.over = names[home[d]]["clean"]
            /\ Guest'.set = inodes'[Guest'.over].set
            /\ Guest'.key = Dir(d) /\ Guest'.password = Dir(d)
        BY <2>4, <2>5, <4>2, <4>3
      <4>5. Dir(d)' = Dir(d)
        BY <1>1 DEF Dir
      <4>6. Restored(d)'
        BY <1>1, <4>2, <4>4, <4>5 DEF Restored, File
      <4> QED BY <1>1, <4>2, <4>6 DEF Resets, File
    <3> QED BY <3>1, <3>2, HeadsNext
  <2> QED BY <1>1, <2>1, <2>5, <2>6, WorldNext DEF LabInv
<1> QED BY <1>3, <1>4 DEF GrantAccess, Writes

\* The container waits for a change.
LEMMA AskedIs ==
  ASSUME World, NEW b, b = [box EXCEPT !.asked = TRUE]
  PROVE  /\ b \in BoxRecord /\ b.id = box.id /\ b.home = box.home /\ b.disk = box.disk
         /\ b.state = box.state
  BY DEF World, BoxRecord

LEMMA DeviceModeKeeps ==
  ASSUME LabInv, NEW d \in Drivers, DeviceMode(d) PROVE LabInv'
<1> DEFINE k == Head(todo[d]).disk
           p == names[home[d]]["provision"]
<1>1. /\ todo[d] # <<>> /\ Head(todo[d]).op = "mode" /\ Quiet /\ Inside(d)
      /\ UNCHANGED <<inodes, names>> /\ home' = home /\ verb' = verb /\ World
  BY DEF DeviceMode, At, Inside, Quiet, NoDisks, LabInv
<1>2. Suits(Head(todo[d])) /\ (OneLab => Heads(d)) /\ Head(todo[d]) \in LabStep
  <2>1. todo[d] \in Seq(LabStep) /\ Along(verb[d], todo[d])
    BY DEF LabInv, Control
  <2> QED BY <1>1, <2>1, AlongTail DEF LabInv, Driving
<1>3. k \in {"none", "provision"}
  BY <1>1, <1>2 DEF Suits
<1>4. OneLab => ~(verb[d] = "reset" /\ calm[d])
  BY <1>1, <1>2 DEF Heads, Resets
<1>5. ASSUME OneLab, k = "provision"
      PROVE  /\ Boxed(d) /\ Layered(d) /\ "torn" \notin inodes[p].set
             /\ "name" \in inodes[p].set /\ "package" \in inodes[p].set /\ Guest = inodes[p]
  <2>1. Provisions(d, "mode")
    BY <1>1, <1>2, <1>5 DEF Heads
  <2>2. Boxed(d)
    BY <2>1, Stages DEF Provisions
  <2> QED BY <2>1, <2>2, Stages, BoxedGuest DEF Provisions, File
<1>6. CASE Fail(d, FALSE) /\ UNCHANGED box
  BY <1>1, <1>4, <1>6, QuietFail
<1>7. CASE Ssh(d) /\ "mode" \in Guest.set
  <2>1. Next1(d) /\ UNCHANGED <<failed, calm, box>>
    BY <1>7 DEF DeviceMode
  <2>2. ASSUME OneLab, Follows(verb[d], Head(todo[d]), Head(todo'[d])) PROVE Heads(d)'
    <3>1. ~(verb'[d] = "reset" /\ calm'[d])
      BY <1>1, <1>4, <2>1, <2>2
    <3>2. CASE k = "none"
      <4>1. Head(todo'[d]) = On("done", "none")
        BY <1>1, <2>2, <3>2 DEF Follows, Plain
      <4> QED BY <3>1, <4>1, HeadsNext
    <3>3. CASE k = "provision"
      <4>1. Head(todo'[d]) = On("takekey", "provision")
        BY <1>1, <2>2, <3>3 DEF Follows, Ours
      <4>2. Boxed(d)' /\ Layered(d)'
        BY <1>1, <1>5, <2>1, <2>2, <3>3 DEF Boxed, Layered, File
      <4>3. Provisions(d, "takekey")'
        BY <1>1, <1>5, <1>7, <2>2, <3>3, <4>2, Stages DEF Provisions, File
      <4> QED BY <3>1, <4>1, <4>3, HeadsNext
    <3> QED BY <1>3, <3>2, <3>3
  <2> QED BY <1>1, <2>1, <2>2, LookNext
<1>8. CASE Ssh(d) /\ "mode" \notin Guest.set
  <2> DEFINE steps == Cut(k) \o StepsOn(k, <<"confirmed">>)
  <2>1. /\ UNCHANGED <<failed, calm>> /\ box' = [box EXCEPT !.asked = TRUE]
        /\ Then(d, steps)
    BY <1>8 DEF DeviceMode
  <2>2. /\ box' \in BoxRecord /\ box'.id = box.id /\ box'.home = box.home
        /\ box'.disk = box.disk /\ box'.state = box.state
    BY <1>1, <2>1, AskedIs
  <2>3. World' /\ (Snapshots => Snapshots')
    <3>1. box.state = "running" => box.id # 0
      BY <1>1 DEF World
    <3> QED BY <1>1, <2>2, <3>1, BoxSet
  <2>4. Chain(verb[d], steps, On("quit", k), On("confirmed", k))
    BY <1>3, ModeChain
  <2>5. \A g \in LabStep :
          Follows(verb[d], Head(todo[d]), g) => Follows(verb[d], On("confirmed", k), g)
    BY <1>1 DEF Follows, On
  <2> HIDE DEF steps
  <2>6. /\ Control' /\ Others(d) /\ UNCHANGED <<home, verb, calm, failed>>
        /\ OneLab' <=> OneLab
        /\ todo'[d] # <<>> /\ Head(todo'[d]) = On("quit", k)
        /\ OneLab' /\ verb'[d] = "reset" /\ calm'[d] => ~failed'[d]
    <3> DEFINE x == On("quit", k)
               y == On("confirmed", k)
    <3> HIDE DEF x, y, k
    <3>1. Chain(verb[d], steps, x, y)
          /\ \A g \in LabStep : Follows(verb[d], Head(todo[d]), g) => Follows(verb[d], y, g)
      BY <2>4, <2>5 DEF x, y
    <3>2. Head(todo[d]).op \notin {"done", "session"}
      BY <1>1
    <3> QED BY <1>1, <2>1, <3>1, <3>2, ThenFacts DEF x
  <2>7. ASSUME OneLab PROVE Heads(d)'
    <3>1. ~(verb'[d] = "reset" /\ calm'[d])
      BY <1>4, <2>6, <2>7
    <3>2. CASE k = "none"
      BY <2>6, <3>1, <3>2, HeadsNext
    <3>3. CASE k = "provision"
      <4>1. Boxed(d)' /\ Layered(d)'
        BY <1>1, <1>5, <2>2, <2>7, <3>3 DEF Boxed, Layered, File
      <4>2. Provisions(d, "quit")'
        BY <1>1, <1>5, <2>7, <3>3, <4>1, Stages DEF Provisions, File
      <4> QED BY <2>6, <3>1, <3>3, <4>2, HeadsNext
    <3> QED BY <1>3, <3>2, <3>3
  <2>8. OneLab' => Snapshots'
    BY <2>3, <2>6 DEF LabInv
  <2> QED BY <1>1, <2>3, <2>6, <2>7, <2>8, AloneKeeps
<1> QED BY <1>6, <1>7, <1>8 DEF DeviceMode

\* A step that fails half way: a torn base, a base removed that no snapshot
\* is over, a container that never ran, a key without its password.
LEMMA HalfDoneKeeps ==
  ASSUME LabInv, NEW d \in Drivers, HalfDone(d) PROVE LabInv'
<1>1. /\ todo[d] # <<>> /\ Head(todo[d]).op \in {"base", "grow", "start", "access"}
      /\ Inside(d) /\ Fail(d, TRUE) /\ home' = home /\ verb' = verb /\ turned' = turned
      /\ runs' = runs /\ faults < MaxFaults /\ faults' = faults + 1
  BY DEF HalfDone, Fault, At, Inside
<1>2. runs' \in 0 .. MaxRuns /\ faults' \in 0 .. MaxFaults
  BY <1>1, LabAssumption DEF LabInv, Control, LabAssumption
<1>3. World /\ (OneLab => Snapshots) /\ home[d] \in Homes
  BY Directory DEF LabInv
<1>4. Suits(Head(todo[d])) /\ (OneLab => Heads(d))
  <2>1. todo[d] \in Seq(LabStep) /\ Along(verb[d], todo[d])
    BY DEF LabInv, Control
  <2> QED BY <1>1, <2>1, AlongTail DEF LabInv, Driving
<1>5. World' /\ (OneLab => Snapshots')
  <2>1. CASE /\ inodes' = Append(inodes, Inode(0, {"torn"}))
             /\ Rename(d, "base", Len(inodes')) /\ UNCHANGED box
    <3> DEFINE r == Inode(0, {"torn"})
               k == "base"
    <3>1. /\ r \in InodeRecord /\ r.over = 0 /\ r.key = None /\ r.password = None
      BY DEF Inode, InodeRecord, Things, Creds
    <3>2. /\ inodes' = Append(inodes, r) /\ names' = [names EXCEPT ![home[d]][k] = Len(inodes')]
          /\ box' = box /\ k = "base" /\ k \in Disks /\ k # "clean"
      BY <2>1 DEF Rename, Disks
    <3>3. 0 \in 0 .. Len(inodes)
      BY <1>3 DEF World
    <3> HIDE DEF r, k
    <3> QED BY <1>3, <3>1, <3>2, <3>3, NewDisk
  <2>2. CASE At(d, "grow") /\ Rename(d, "base", 0) /\ UNCHANGED <<inodes, box>>
    <3> DEFINE k == "base"
    <3>1. names' = [names EXCEPT ![home[d]][k] = 0] /\ k = "base" /\ k \in Disks
      BY <2>2 DEF Rename, Disks
    <3>2. OneLab => names[home[d]]["clean"] = 0
      <4>1. OneLab => Provisions(d, "grow")
        BY <1>4, <2>2 DEF Heads, Suits, At
      <4> QED BY <4>1, Stages DEF Provisions, File
    <3> HIDE DEF k
    <3> QED BY <1>3, <2>2, <3>1, <3>2, NameGone
  <2>3. CASE /\ At(d, "start") /\ box.state = "absent" /\ NoDisks
             /\ box' = [Absent EXCEPT !.state = "created", !.home = home[d],
                                      !.disk = Head(todo[d]).disk]
    <3>1. Head(todo[d]).disk \in {"run", "provision"}
      BY <1>4, <2>3 DEF At, Suits
    <3>2. box' \in BoxRecord /\ box'.id = 0 /\ box'.state # "running"
      BY <1>3, <2>3, <3>1 DEF Absent, BoxRecord
    <3> QED BY <1>3, <2>3, <3>2, BoxSet DEF NoDisks
  <2>4. CASE /\ At(d, "access") /\ Ssh(d)
             /\ Write(Guest.set, Dir(d), Guest.password) /\ UNCHANGED <<names, box>>
    <3> DEFINE set == Guest.set
               key == Dir(d)
               password == Guest.password
    <3>1. box.state = "running" /\ Write(set, key, password)
      BY <2>4, LoginBoots
    <3>2. set \in SUBSET Things /\ password \in Creds
      BY <1>3, <3>1, UnderIs DEF World, Guest, InodeRecord
    <3>3. key \in Creds
      BY Directory DEF LabInv, Creds
    <3> HIDE DEF set, key, password
    <3> QED BY <1>3, <2>4, <3>1, <3>2, <3>3, WriteWorld
  <2> QED BY <2>1, <2>2, <2>3, <2>4 DEF HalfDone
<1> QED BY <1>1, <1>2, <1>5, FailKeeps
-----------------------------------------------------------------------------
(* The specification.                                                      *)

\* No lab, or one provisioned once and put down.
LEMMA InitLab == Init => LabInv
<1> SUFFICES ASSUME Init PROVE LabInv
  OBVIOUS
<1>1. /\ home \in [Drivers -> Homes] /\ box = Absent
      /\ lock = [s \in States |-> None] /\ inherits = [d \in Drivers |-> FALSE]
      /\ verb = [d \in Drivers |-> "none"] /\ todo = [d \in Drivers |-> <<>>]
      /\ failed = [d \in Drivers |-> FALSE] /\ calm = [d \in Drivers |-> FALSE]
      /\ turned = FALSE /\ runs = 0 /\ faults = 0
  BY DEF Init
<1>2. PICK made \in {{}} \cup {{home[d]} : d \in Drivers} :
        /\ inodes = IF made = {} THEN <<>>
                    ELSE <<Inode(0, {"grown"}),
                           Inode(1, {"grown"} \cup Provisioned),
                           Inode(2, {"grown"} \cup Provisioned)>>
        /\ names = [h \in Homes |-> [k \in Disks |->
                      IF h \notin made THEN 0
                      ELSE CASE k = "base" -> 1 [] k = "clean" -> 2
                             [] k = "run" -> 3 [] OTHER -> 0]]
  BY DEF Init
<1>3. Control
  <2>1. \A d \in Drivers : todo[d] = <<>> /\ ~inherits[d] /\ verb[d] = "none"
    BY <1>1
  <2>2. \A d \in Drivers : Along(verb[d], todo[d]) /\ ~Inside(d)
    BY <2>1 DEF Along, Links, Inside
  <2>3. /\ lock \in [States -> Drivers \cup {None}]
        /\ \A s \in States : lock[s] = None
    BY <1>1
  <2>4. /\ inherits \in [Drivers -> BOOLEAN] /\ failed \in [Drivers -> BOOLEAN]
        /\ calm \in [Drivers -> BOOLEAN] /\ verb \in [Drivers -> Verbs \cup {"none"}]
        /\ todo \in [Drivers -> Seq(LabStep)]
    BY <1>1
  <2>5. turned \in BOOLEAN /\ runs \in 0 .. MaxRuns /\ faults \in 0 .. MaxFaults
    <3>1. turned \in BOOLEAN
      BY <1>1
    <3>2. runs \in 0 .. MaxRuns /\ faults \in 0 .. MaxFaults
      BY <1>1, LabAssumption DEF LabAssumption
    <3> QED BY <3>1, <3>2
  <2> QED BY <1>1, <2>1, <2>2, <2>3, <2>4, <2>5 DEF Control
<1>4. World /\ Snapshots
  <2>1. box \in BoxRecord /\ box.id = 0 /\ box.state # "running"
    BY <1>1, AbsentIs
  <2>2. CASE made = {}
    <3>1. inodes = <<>> /\ \A h \in Homes : \A k \in Disks : names[h][k] = 0
      BY <1>2, <2>2
    <3>2. /\ inodes \in Seq(InodeRecord) /\ Len(inodes) = 0
          /\ names \in [Homes -> [Disks -> 0 .. Len(inodes)]]
      <4>1. inodes \in Seq(InodeRecord) /\ Len(inodes) = 0
        BY <3>1
      <4> QED BY <1>2, <2>2, <4>1
    <3> QED BY <2>1, <3>1, <3>2 DEF World, Snapshots, Disks
  <2>3. CASE made # {}
    <3>1. PICK m \in Homes : made = {m}
      BY <1>1, <1>2, <2>3
    <3> DEFINE a == Inode(0, {"grown"})
               b == Inode(1, {"grown"} \cup Provisioned)
               c == Inode(2, {"grown"} \cup Provisioned)
    <3>2. /\ a \in InodeRecord /\ b \in InodeRecord /\ c \in InodeRecord
          /\ a.over = 0 /\ b.over = 1 /\ c.over = 2
          /\ a.key = None /\ a.password = None /\ b.key = None /\ b.password = None
          /\ "torn" \notin b.set /\ b.set = a.set \cup Provisioned
      BY DEF Inode, InodeRecord, Things, Creds, Provisioned
    <3>3. inodes = <<a, b, c>>
      BY <1>2, <2>3
    <3> HIDE DEF a, b, c
    <3>4. /\ inodes \in Seq(InodeRecord) /\ Len(inodes) = 3
          /\ inodes[1] = a /\ inodes[2] = b /\ inodes[3] = c
      BY <3>2, <3>3
    <3>5. /\ \A h \in Homes, k \in Disks :
               names[h][k] = IF h # m THEN 0
                             ELSE CASE k = "base" -> 1 [] k = "clean" -> 2
                                    [] k = "run" -> 3 [] OTHER -> 0
          /\ names \in [Homes -> [Disks -> 0 .. 3]]
      <4>1. \A h \in Homes, k \in Disks :
               names[h][k] = IF h # m THEN 0
                             ELSE CASE k = "base" -> 1 [] k = "clean" -> 2
                                    [] k = "run" -> 3 [] OTHER -> 0
        BY <1>2, <3>1
      <4>2. \A h \in Homes : names[h] = [k \in Disks |-> names[h][k]]
        BY <1>2
      <4>3. \A h \in Homes, k \in Disks : names[h][k] \in 0 .. 3
        BY <4>1
      <4>4. names = [h \in Homes |-> names[h]]
        BY <1>2
      <4> QED BY <4>1, <4>2, <4>3, <4>4
    <3>6. \A i \in 1 .. 3 : i = 1 \/ i = 2 \/ i = 3
      OBVIOUS
    <3>7. World
      <4>1. \A i \in 1 .. Len(inodes) :
              /\ inodes[i].over < i
              /\ inodes[i].over = 0 => inodes[i].key = None /\ inodes[i].password = None
        BY <3>2, <3>4, <3>6
      <4>2. \A h, g \in Homes, k, j \in Disks :
              names[h][k] # 0 /\ names[h][k] = names[g][j] => h = g /\ k = j
        BY <3>5 DEF Disks
      <4>3. \A h \in Homes, k \in Disks :
              names[h][k] # 0 => (k = "base" <=> inodes[names[h][k]].over = 0)
        BY <3>2, <3>4, <3>5 DEF Disks
      <4> QED BY <2>1, <3>4, <3>5, <4>1, <4>2, <4>3 DEF World
    <3>8. Snapshots
      BY <2>1, <3>2, <3>4, <3>5 DEF Snapshots, Exact, Disks
    <3> QED BY <3>7, <3>8
  <2> QED BY <2>2, <2>3
<1>5. Driving /\ Unfailed
  BY <1>1 DEF Driving, Unfailed, Inside
<1> QED BY <1>3, <1>4, <1>5 DEF LabInv

\* Every step keeps the invariant.
LEMMA StepLab == LabInv /\ [Next]_vars => LabInv'
<1> SUFFICES ASSUME LabInv, [Next]_vars PROVE LabInv'
  OBVIOUS
<1>1. CASE PowerLoss
  BY <1>1, PowerLossKeeps
<1>2. ASSUME NEW d \in Drivers, Drive(d) PROVE LabInv'
  <2>1. CASE Begin(d)
    BY <2>1, BeginKeeps
  <2>2. CASE GuardState(d) \/ TakeLock(d) \/ GiveUp(d) \/ GuardROS(d) \/ EndSession(d) \/ Done(d)
    BY <2>2, GuardStateKeeps, TakeLockKeeps, GiveUpKeeps, GuardROSKeeps, EndSessionKeeps
  <2>3. CASE NeedClean(d) \/ Provision(d) \/ Convert(d) \/ Grow(d) \/ Wipe(d) \/ Layer(d)
             \/ Live(d) \/ Snapshot(d)
    BY <2>3, NeedCleanKeeps, ProvisionKeeps, ConvertKeeps, GrowKeeps, WipeKeeps, LayerKeeps,
       LiveKeeps, SnapshotKeeps
  <2>4. CASE Start(d) \/ Remove(d) \/ Rm(d) \/ Off(d) \/ Shutdown(d) \/ PowerOn(d)
    BY <2>4, StartKeeps, RemoveKeeps, RmKeeps, OffKeeps, ShutdownKeeps, PowerOnKeeps
  <2>5. CASE Running(d) \/ WaitEmpty(d) \/ WaitSSH(d) \/ ModeIsOn(d)
    BY <2>5, LooksKeeps
  <2>6. CASE SetUp(d) \/ InstallPackage(d) \/ TakeKey(d)
    BY <2>6, GivesKeeps
  <2>7. CASE Use(d) \/ GrantAccess(d) \/ DeviceMode(d)
    BY <2>7, UseKeeps, GrantAccessKeeps, DeviceModeKeeps
  <2>8. CASE Break(d) \/ HalfDone(d) \/ RemoveFails(d) \/ KillHolder(d)
    BY <2>8, BreakKeeps, HalfDoneKeeps, RemoveFailsKeeps, KillHolderKeeps
  <2> QED BY <1>2, <2>1, <2>2, <2>3, <2>4, <2>5, <2>6, <2>7, <2>8 DEF Drive
<1>3. CASE UNCHANGED vars
  <2>1. /\ UNCHANGED <<home, inodes, names, box, lock, inherits, verb, todo, failed, calm>>
        /\ UNCHANGED <<turned, runs, faults>>
    BY <1>3 DEF vars
  <2>2. Control'
    BY <2>1 DEF LabInv, Control, Inside, Dir
  <2>3. World'
    BY <2>1 DEF LabInv, World
  <2>4. (OneLab' <=> OneLab) /\ (Snapshots' <=> Snapshots)
    BY <2>1 DEF OneLab, Dir, Snapshots, Exact
  <2>5. Unfailed'
    BY <2>1, <2>4 DEF LabInv, Unfailed
  <2>6. \A d \in Drivers : Heads(d)' <=> Heads(d)
    BY <2>1, HeadsStay
  <2>7. Driving'
    BY <2>1, <2>4, <2>6 DEF LabInv, Driving, Inside
  <2> QED BY <2>2, <2>3, <2>4, <2>5, <2>7 DEF LabInv
<1> QED BY <1>1, <1>2, <1>3 DEF Next

LEMMA LabHolds == Spec => []LabInv
  BY InitLab, StepLab, PTL DEF Spec

\* The variables of the lab hold what they can hold, whatever is cut short:
\* a file is an inode there is, a running machine has one, and whoever has a
\* state directory's lock is driving it.
THEOREM LabTypes == Spec => []TypeOK
<1>1. LabInv => TypeOK
  <2> SUFFICES ASSUME LabInv PROVE TypeOK
    OBVIOUS
  <2>1. Control /\ World
    BY DEF LabInv
  <2>2. ASSUME NEW i \in DOMAIN inodes
        PROVE  /\ inodes[i].over \in 0 .. (i - 1) /\ inodes[i].set \subseteq Things
               /\ {inodes[i].key, inodes[i].password} \subseteq States \cup {None}
    <3>1. inodes \in Seq(InodeRecord) /\ i \in 1 .. Len(inodes)
      BY <2>1 DEF World
    <3>2. inodes[i] \in InodeRecord /\ inodes[i].over < i
      BY <2>1, <3>1 DEF World
    <3> QED BY <3>1, <3>2 DEF InodeRecord, Creds
  <2>3. box \in [state : {"absent", "created", "exited", "running"}, home : Homes,
                 disk : {"run", "provision"}, id : 0 .. Len(inodes), asked : BOOLEAN]
    BY <2>1 DEF World, BoxRecord
  <2> QED BY <2>1, <2>2, <2>3 DEF TypeOK, Control, World
<1> QED BY <1>1, LabHolds, PTL

\* The snapshot carries no credential, and has exactly what provisioning puts
\* on its base, whatever is cut short before it is taken (provision.go).
THEOREM SnapshotsExact == Spec => []SnapshotExact
<1>1. LabInv => SnapshotExact
  BY DEF LabInv, Snapshots, Exact, SnapshotExact
<1> QED BY <1>1, LabHolds, PTL

\* A reset that meets no fault of its own does not fail, and ends with a
\* router that boots the live layer over the snapshot, as clean as it
\* (lab.go, Reset), whatever earlier runs left half done.
THEOREM ResetsRestore == Spec => []ResetRestores
<1>1. LabInv => ResetRestores
  <2> SUFFICES ASSUME LabInv, NEW d \in Drivers, verb[d] = "reset", calm[d], OneLab
               PROVE  ~failed[d] /\ (At(d, "done") => Restored(d))
    BY DEF ResetRestores
  <2>1. ~failed[d]
    BY DEF LabInv, Unfailed
  <2>2. ASSUME At(d, "done") PROVE Restored(d)
    <3>1. Inside(d) /\ Head(todo[d]).op = "done"
      BY <2>2 DEF At, Inside
    <3> QED BY <3>1 DEF LabInv, Driving, Heads, Resets
  <2> QED BY <2>1, <2>2
<1> QED BY <1>1, LabHolds, PTL
=============================================================================
