------------------------------- MODULE Deploy -------------------------------
(***************************************************************************)
(* What install, upgrade, uninstall and the generated script do to a       *)
(* router (internal/router, cmd/mikroscope), and what uninstall does to    *)
(* the stores (internal/teardown).  A command is a script of console       *)
(* commands; each is sent over ssh, runs on the router up to some point    *)
(* and answers, or does not.  The operator works on the same router in     *)
(* between, and the command may be killed anywhere.  Everything an install *)
(* owns is told by its exact tag, the envlist and the uploaded image by a  *)
(* marker entry, the manifest by its tag line.                             *)
(* An object is the step that makes it, what its find selects it by, and   *)
(* whose tag it carries.  Names, ports, addresses and the rest of the      *)
(* options are folded into the shape; the sizes, the listings and the      *)
(* probing of the agent are left out.                                      *)
(***************************************************************************)
EXTENDS FiniteSets, SequencesExt, SeqFolds

CONSTANTS
  Shapes,       \* the options runs are made with
  Legacy,       \* shapes of installs made before the manifest existed
  Theirs,       \* steps whose object the operator may have made
  Items,        \* what the stores and Grafana hold
  OurItems,     \* of these, what bears this project's names
  MaxRuns,      \* bound: commands run
  MaxFailures,  \* bound: console commands that fail, waits that run out, kills
  MaxOperator   \* bound: things the operator does

VARIABLES
  rt,        \* the router, as far as an install can touch it
  store,     \* the items still in the stores
  run,       \* the command being run, or the last one when nothing is left of it
  runs, failures, operator,  \* counts, bounded
  lost,      \* history: an upload was left behind by a failure nobody undid
  turned,    \* history: a container step of a pull ran with a tar beside it
  legacy     \* the router started with an install older than the manifest

deployVars == <<rt, store, run, runs, failures, operator, lost, turned, legacy>>

Step(step, id) == [step |-> step, id |-> id]
Ours(s) == [step |-> s.step, id |-> s.id, tag |-> "ours"]
Foreign(s) == [step |-> s.step, id |-> s.id, tag |-> "theirs"]

\* The options of an install, and the steps that make its tagged objects: a
\* member of a list is told by its interface or network and by the list.
ShapeRecord == [veth : STRING, ifaceList : STRING, addrList : STRING,
                expose : STRING, remote : BOOLEAN]
Members == {"iface-member", "addr-member"}
Names == {"veth", "address", "expose-nat", "expose-accept", "container"} \cup Members
IsStep(s) ==
  /\ s \in [step : Names, id : Seq(STRING)]
  /\ Len(s.id) = IF s.step \in Members THEN 2 ELSE 1

ASSUME DeployAssumption ==
  /\ Shapes \cup Legacy \subseteq ShapeRecord /\ Shapes # {}
  /\ \A s \in Theirs : IsStep(s)
  /\ OurItems \subseteq Items
  /\ MaxRuns \in Nat /\ MaxFailures \in Nat /\ MaxOperator \in Nat

\* The router with nothing of an install on it.
NoManifest == [kind |-> "none", shape |-> CHOOSE o \in Shapes : TRUE]
Bare == [objs |-> {}, entries |-> "none", marker |-> FALSE, box |-> "none",
         pulled |-> FALSE, files |-> {}, manifest |-> NoManifest]
-----------------------------------------------------------------------------
(* The plan (steps.go, stepspec.go): the manifest, then every object in     *)
(* creation order, the container last.                                      *)

ManifestStep == Step("manifest", <<>>)
ContainerStep(o) == Step("container", <<o.veth>>)

\* The steps that make one tagged object each.
Objects(o) ==
  <<Step("veth", <<o.veth>>), Step("address", <<o.veth>>)>>
  \o (IF o.ifaceList = "none" THEN <<>>
      ELSE <<Step("iface-member", <<o.veth, o.ifaceList>>)>>)
  \o (IF o.addrList = "none" THEN <<>>
      ELSE <<Step("addr-member", <<o.veth, o.addrList>>)>>)
  \o (IF o.expose = "no" THEN <<>>
      ELSE <<Step("expose-nat", <<o.expose>>), Step("expose-accept", <<o.veth>>)>>)

Plan(o) == <<ManifestStep>> \o Objects(o) \o <<ContainerStep(o)>>

\* The objects the exact tag selects, what the manifest's removal counts
\* (taggedCount), and a directory with nothing in it (dirEmpty).
TaggedObjects(r) == {ob \in r.objs : ob.tag = "ours"}
Tagged(r) == TaggedObjects(r) # {} \/ r.marker \/ r.box # "none"
DirEmpty(r) == "root" \notin r.files /\ r.manifest.kind = "none"

\* Is our object there?
Present(r, o, s) ==
  CASE s.step = "manifest"  -> r.manifest.kind = "ours" /\ r.manifest.shape = o
    [] s.step = "container" -> r.box # "none"
    [] OTHER                -> Ours(s) \in r.objs

\* Is the effect there, whoever made it?
Check(r, o, s) ==
  CASE s.step = "manifest"  -> r.manifest.kind # "none"
    [] s.step = "container" -> \/ r.box # "none" \/ r.marker \/ r.entries # "none"
                               \/ ~o.remote /\ "tar" \in r.files
                               \/ Foreign(s) \in r.objs
    [] OTHER                -> Ours(s) \in r.objs \/ Foreign(s) \in r.objs

\* Does anything of what install made for it still exist?
Owned(r, o, s) ==
  CASE s.step = "manifest"  -> r.manifest.kind = "ours"
    [] s.step = "container" -> r.box # "none" \/ r.marker
    [] OTHER                -> Ours(s) \in r.objs

\* stateOf; Owned is asked again only for the steps that have a Present of
\* their own.
StateOf(r, o, s) ==
  IF Present(r, o, s) THEN "owned"
  ELSE IF ~Check(r, o, s) THEN "absent"
  ELSE IF s.step \in {"manifest", "container"} /\ Owned(r, o, s) THEN "absent"
  ELSE "foreign"

\* What verifyReport finds left, for the plan of o: what the steps own, what
\* the sweep menus hold beyond that, a root no container holds, an empty
\* directory.
Clean(r, o) ==
  /\ \A s \in Range(Plan(o)) : ~Owned(r, o, s)
  /\ TaggedObjects(r) = {}
  /\ ~("root" \in r.files /\ r.box = "none")
  /\ ~("dir" \in r.files /\ DirEmpty(r))
-----------------------------------------------------------------------------
(* The console commands: the states the router passes through, whether the  *)
(* line can reach its end, and the states in which a wait ran out and the   *)
(* line went on without saying so.                                          *)

Line(steps, ok) == [steps |-> steps, ok |-> ok, slow |-> {}]

CreateManifest(r, o) ==
  Line(<<r, [r EXCEPT !.manifest = [kind |-> "ours", shape |-> o],
                      !.files = @ \cup {"dir"}]>>, TRUE)

CreateObject(r, s) ==
  Line(<<r, [r EXCEPT !.objs = @ \cup {Ours(s)}]>>, Ours(s) \notin r.objs)

\* A create that signs the envlist only when it is complete.
CreateContainer_Mutant(r, o) ==
  LET filled  == [r EXCEPT !.entries = "ours", !.marker = FALSE]
      added   == [filled EXCEPT !.box = "added", !.pulled = o.remote,
                                !.files = @ \cup {"root", "dir"}]
      tidied  == IF o.remote THEN added ELSE [added EXCEPT !.files = @ \ {"tar"}]
      started == [tidied EXCEPT !.box = "running", !.marker = TRUE]
  IN  Line(<<r, filled, added, tidied, started>>, r.box = "none")

\* An envlist the marker signs is replaced, the marker first; the container;
\* the tar goes when it is extracted; the start.  Without its tar, or with a
\* container still going, the add fails.
CreateContainer(r, o) ==
  LET cleared == IF r.marker THEN [r EXCEPT !.marker = FALSE, !.entries = "none"]
                 ELSE r
      signed  == [cleared EXCEPT !.marker = TRUE]
      filled  == [signed EXCEPT !.entries = "ours"]
      added   == [filled EXCEPT !.box = "added", !.pulled = o.remote,
                                !.files = @ \cup {"root", "dir"}]
      tidied  == IF o.remote THEN added ELSE [added EXCEPT !.files = @ \ {"tar"}]
      started == [tidied EXCEPT !.box = "running"]
  IN  IF r.box = "none" /\ (o.remote \/ "tar" \in r.files)
      THEN Line(<<r, cleared, signed, filled, added, tidied, started>>, TRUE)
      ELSE Line(<<r, cleared, signed, filled>>, FALSE)

RemoveObject_Mutant(r, s) ==
  Line(<<r, [r EXCEPT !.objs = @ \ {Ours(s), Foreign(s)}]>>, TRUE)

RemoveObject(r, s) == Line(<<r, [r EXCEPT !.objs = @ \ {Ours(s)}]>>, TRUE)

\* Stop, remove, wait, the root; then, if the marker says the envlist is
\* ours, the tar, the entries, and the marker last.  Either wait may run out.
RemoveContainer(r, o) ==
  LET stopped == [r EXCEPT !.box = IF @ = "running" THEN "added" ELSE @]
      going   == [r EXCEPT !.box = IF @ = "none" THEN @ ELSE "removing"]
      gone    == [r EXCEPT !.box = "none"]
      rooted  == IF r.box = "none" THEN gone ELSE [gone EXCEPT !.files = @ \ {"root"}]
      rest(q) == IF ~r.marker THEN <<q>>
                 ELSE LET untarred == IF o.remote THEN q
                                      ELSE [q EXCEPT !.files = @ \ {"tar"}]
                          emptied  == [untarred EXCEPT !.entries = "none"]
                      IN  <<q, untarred, emptied, [emptied EXCEPT !.marker = FALSE]>>
  IN  [steps |-> <<r, stopped, going, gone>> \o rest(rooted), ok |-> TRUE,
       slow |-> (IF r.box = "none" THEN {} ELSE {Last(rest(going))})
                \cup (IF r.marker /\ ~o.remote /\ "tar" \in r.files
                      THEN {rooted} ELSE {})]

\* The manifest goes while something it lists is still there.
RemoveManifest_Mutant(r) ==
  LET bare == [r EXCEPT !.manifest = IF @.kind = "ours" THEN NoManifest ELSE @]
  IN  Line(<<r, bare>>, TRUE)

\* Refused while anything tagged remains; then the root the manifest lists,
\* the manifest, and the directory when nothing else is in it.
RemoveManifest(r) ==
  LET mine     == r.manifest.kind = "ours"
      unrooted == IF mine THEN [r EXCEPT !.files = @ \ {"root"}] ELSE r
      unlisted == IF mine THEN [unrooted EXCEPT !.manifest = NoManifest] ELSE r
      emptied  == IF DirEmpty(unlisted)
                  THEN [unlisted EXCEPT !.files = @ \ {"dir"}] ELSE unlisted
  IN  IF Tagged(r) THEN Line(<<r>>, FALSE)
      ELSE Line(<<r, unrooted, unlisted, emptied>>, TRUE)

\* The undo forgets the tar.
UndoUpload_Mutant(r) == Line(<<r>>, TRUE)

\* undoUpload: the tar, unless a container of this install may hold it.
UndoUpload(r) ==
  Line(<<r, IF r.box = "none" THEN [r EXCEPT !.files = @ \ {"tar"}] ELSE r>>, TRUE)

\* The line sent for one entry of a script that writes.
LineOf(r, e, o) ==
  LET step == e.step.step
      tagged == step \notin {"manifest", "container"}
  IN  CASE e.do = "create" /\ step = "manifest"  -> CreateManifest(r, o)
        [] e.do = "create" /\ step = "container" -> CreateContainer(r, o)
        [] e.do = "create" /\ tagged             -> CreateObject(r, e.step)
        [] e.do = "remove" /\ step = "manifest"  -> RemoveManifest(r)
        [] e.do = "remove" /\ step = "container" -> RemoveContainer(r, o)
        [] e.do = "remove" /\ tagged             -> RemoveObject(r, e.step)
        [] e.do = "undo"                         -> UndoUpload(r)
-----------------------------------------------------------------------------
(* Shapes: what the router says of how an install was made (shape.go).      *)

\* What the one tagged object of a step says; the flags, when there is none
\* or there are several.
Said(r, step, n, flag) ==
  LET ids == {ob.id : ob \in {x \in TaggedObjects(r) : x.step = step}}
  IN  IF Cardinality(ids) = 1 THEN (CHOOSE id \in ids : TRUE)[n] ELSE flag

ShapeFound(r) ==
  \/ r.manifest.kind = "ours" \/ r.box # "none"
  \/ Cardinality({ob \in TaggedObjects(r) : ob.step = "veth"}) = 1

\* shapeOfObjects: what the objects say of the install that made them.
ObjectsShape(r, o) ==
  [veth      |-> Said(r, "veth", 1, o.veth),
   ifaceList |-> Said(r, "iface-member", 2, o.ifaceList),
   addrList  |-> Said(r, "addr-member", 2, o.addrList),
   expose    |-> Said(r, "expose-nat", 1, o.expose),
   remote    |-> o.remote \/ (r.box # "none" /\ r.pulled)]

\* parseShape and applyShape: the manifest is the whole record of its
\* install, the objects speak where there is none; the image is upgrade's to
\* choose.
Adopted(r, o, verb) ==
  LET shape == IF r.manifest.kind = "ours" THEN r.manifest.shape
               ELSE ObjectsShape(r, o)
  IN  IF ~ShapeFound(r) THEN o
      ELSE IF verb = "upgrade" THEN [shape EXCEPT !.remote = o.remote]
      ELSE shape

\* Flags given that the router contradicts.  The image source is never held
\* against a flag.
Contradicted(r, o) ==
  [Adopted(r, o, "upgrade") EXCEPT !.remote = o.remote] # o

\* fromManifest: the plan uninstall removes.
Resolved(r, o) == IF r.manifest.kind = "ours" THEN r.manifest.shape ELSE o
-----------------------------------------------------------------------------
(* Runs.                                                                    *)

Do(what, s) == [do |-> what, step |-> s]
NoStep == Step("none", <<>>)
Idle == run.todo = <<>>
Doing(what) == run.todo # <<>> /\ Head(run.todo).do = what

\* Entries that create these objects, and the container: its tar is uploaded
\* first, unless the router pulls the image.
Creates(steps) == [i \in DOMAIN steps |-> Do("create", steps[i])]
CreatesBox(o) ==
  (IF o.remote THEN <<>> ELSE <<Do("upload", NoStep)>>)
  \o <<Do("create", ContainerStep(o))>>

NoRun == [verb |-> "none", opts |-> CHOOSE o \in Shapes : TRUE, strict |-> FALSE,
          todo |-> <<>>, found |-> {}, wrote |-> FALSE, failed |-> FALSE,
          result |-> "none"]

DeployInit ==
  /\ legacy \in {FALSE, Legacy # {}}
  /\ \/ /\ ~legacy
        /\ rt \in {Bare, [Bare EXCEPT !.entries = "theirs"],
                  [Bare EXCEPT !.manifest = [@ EXCEPT !.kind = "theirs"],
                               !.files = {"dir"}]}
     \/ \E o \in Legacy :
          legacy /\ rt = [Bare EXCEPT !.objs = {Ours(s) : s \in Range(Objects(o))},
                            !.entries = "ours", !.marker = TRUE, !.box = "running",
                            !.pulled = o.remote, !.files = {"dir", "root"}]
  /\ store = Items
  /\ run = NoRun /\ runs = 0 /\ failures = 0 /\ operator = 0
  /\ lost = FALSE /\ turned = FALSE

\* uninstall lists what the stores hold before it asks the router anything.
Opening(verb) ==
  (IF verb = "uninstall" THEN <<Do("list", NoStep)>> ELSE <<>>) \o <<Do("read", NoStep)>>

\* A command starts.
Begin ==
  /\ Idle /\ runs < MaxRuns
  /\ runs' = runs + 1
  /\ \E v \in {"install", "upgrade", "uninstall", "script"}, o \in Shapes,
        strict \in BOOLEAN :
       run' = [NoRun EXCEPT !.verb = v, !.opts = o, !.strict = strict,
                            !.todo = Opening(v)]
  /\ UNCHANGED <<rt, store, failures, operator, lost, turned, legacy>>

\* The run goes on with these entries, or ends.
GoOn(todo) == run' = [run EXCEPT !.todo = todo]
End(result) == run' = [run EXCEPT !.todo = <<>>, !.result = result]

Fails == failures < MaxFailures /\ failures' = failures + 1

\* The steps an install has to make: those whose object is not ours yet.
Unowned(r, o) == {s \in Range(Plan(o)) : StateOf(r, o, s) # "owned"}

\* Install's one read: every collision is refused before the first write.
ReadInstall ==
  /\ Doing("read") /\ run.verb = "install"
  /\ LET o == run.opts
     IN  IF \E s \in Range(Plan(o)) : StateOf(rt, o, s) = "foreign"
         THEN End("refused")
         ELSE IF \A s \in Range(Plan(o)) : StateOf(rt, o, s) = "owned"
         THEN End("installed")
         ELSE GoOn(Creates(Kept(<<ManifestStep>> \o Objects(o), Unowned(rt, o)))
                   \o (IF ContainerStep(o) \in Unowned(rt, o) THEN CreatesBox(o) ELSE <<>>))
  /\ UNCHANGED <<rt, store, runs, failures, operator, lost, turned, legacy>>

\* The script's guards, in the order that matters to nobody; it creates
\* every step whatever is there, with a tar the operator put on the router.
ReadScript ==
  /\ Doing("read") /\ run.verb = "script"
  /\ LET o == run.opts
         veth == Step("veth", <<o.veth>>)
     IN  IF \/ Foreign(veth) \in rt.objs /\ Ours(veth) \notin rt.objs
            \/ rt.entries # "none" /\ ~rt.marker
            \/ ~o.remote /\ "tar" \notin rt.files
            \/ rt.manifest.kind = "theirs"
         THEN End("refused")
         ELSE GoOn(Creates(Plan(o)))
  /\ UNCHANGED <<rt, store, runs, failures, operator, lost, turned, legacy>>

\* classifySteps: the objects an upgrade adds.
Missing(r, o) ==
  Kept(Objects(o), {s \in Range(Objects(o)) : StateOf(r, o, s) = "absent"})

\* Upgrade's order: the manifest, what is missing, the container off and on
\* again.
Replacement(o) ==
  Creates(<<ManifestStep>> \o Missing(rt, o))
  \o <<Do("remove", ContainerStep(o))>> \o CreatesBox(o)

\* UpgradeRead: the one read of an upgrade, and what it refuses.
ReadUpgrade ==
  /\ Doing("read") /\ run.verb = "upgrade"
  /\ LET o == Adopted(rt, run.opts, "upgrade")
     IN  IF \/ run.strict /\ Contradicted(rt, run.opts)
            \/ rt.box = "none"
            \/ \E s \in Range(Plan(o)) : StateOf(rt, o, s) = "foreign"
         THEN End("refused")
         ELSE run' = [run EXCEPT !.opts = o, !.todo = Replacement(o)]
  /\ UNCHANGED <<rt, store, runs, failures, operator, lost, turned, legacy>>

\* The removal of the router's half and then of what was listed.
Removal(o) ==
  <<Do("remove", ContainerStep(o))>>
  \o [i \in DOMAIN Objects(o) |-> Do("remove", Reverse(Objects(o))[i])]
  \o <<Do("sweep", NoStep), Do("remove", ManifestStep), Do("verify", NoStep),
       Do("drop", NoStep)>>

\* readShape and the start of UninstallShape: the plan is the manifest's.
ReadUninstall ==
  /\ Doing("read") /\ run.verb = "uninstall"
  /\ LET o == Resolved(rt, Adopted(rt, run.opts, "uninstall"))
     IN  IF run.strict /\ ShapeFound(rt) /\ Contradicted(rt, run.opts)
         THEN End("refused")
         ELSE run' = [run EXCEPT !.opts = o, !.todo = Removal(o)]
  /\ UNCHANGED <<rt, store, runs, failures, operator, lost, turned, legacy>>

\* Everything the stores hold is listed, whatever its name.
ListTargets_Mutant ==
  /\ Doing("list")
  /\ run' = [run EXCEPT !.found = store, !.todo = Tail(@)]
  /\ UNCHANGED <<rt, store, runs, failures, operator, lost, turned, legacy>>

\* What the stores hold that bears this project's names, if it is asked for.
Bears(wanted) == IF wanted THEN store \cap OurItems ELSE {}

\* dashboardRemovals and dataRemovals, for the targets that were named.
ListTargets ==
  /\ Doing("list")
  /\ \E wanted \in BOOLEAN :
       run' = [run EXCEPT !.found = Bears(wanted), !.todo = Tail(@)]
  /\ UNCHANGED <<rt, store, runs, failures, operator, lost, turned, legacy>>

\* A read of the router, of Grafana or of a store fails: nothing was done.
ReadFails ==
  /\ Doing("read") \/ Doing("list")
  /\ Fails
  /\ run' = [run EXCEPT !.todo = <<>>, !.result = "refused", !.failed = TRUE]
  /\ UNCHANGED <<rt, store, runs, operator, lost, turned, legacy>>

\* The image is copied to the router; an attempt that fails may leave a part
\* of it, and createStep returns without undoing it.
Upload ==
  /\ Doing("upload")
  /\ \/ /\ rt' = [rt EXCEPT !.files = @ \cup {"tar"}]
        /\ run' = [run EXCEPT !.todo = Tail(@), !.wrote = TRUE]
        /\ UNCHANGED <<failures, lost>>
     \/ /\ Fails
        /\ rt' \in {rt, [rt EXCEPT !.files = @ \cup {"tar"}]}
        /\ run' = [run EXCEPT !.todo = <<>>, !.result = "error", !.wrote = TRUE,
                              !.failed = TRUE]
        /\ lost' = (lost \/ "tar" \in rt'.files)
  /\ UNCHANGED <<store, runs, operator, turned, legacy>>

\* The container step runs as of one that is pulled, with a tar beside it.
Turned(e) == e.step.step = "container" /\ run.opts.remote /\ "tar" \in rt.files

\* An entry that writes runs to its end and answers nothing.
Writes == Doing("create") \/ Doing("remove") \/ Doing("undo")
Succeeds ==
  /\ Writes
  /\ LET e == Head(run.todo)
         line == LineOf(rt, e, run.opts)
     IN  /\ \/ line.ok /\ rt' = Last(line.steps) /\ UNCHANGED failures
            \/ Fails /\ rt' \in line.slow
         /\ run' = [run EXCEPT
                      !.todo = Tail(@), !.wrote = TRUE,
                      !.failed = @ \/ failures' # failures,
                      !.result = IF Len(run.todo) > 1 THEN @
                                 ELSE IF e.do = "undo" THEN "error" ELSE "installed"]
         /\ turned' = (turned \/ Turned(e))
         \* kept for a container that is on its way out
         /\ lost' = (lost \/ (e.do = "undo" /\ "tar" \in rt'.files
                                   /\ rt.box # "none" /\ ~rt.marker))
  /\ UNCHANGED <<store, runs, operator, legacy>>

\* What follows an entry that failed: uninstall goes on, an upload is undone,
\* anything else ends there.
AfterFailure(e) ==
  IF run.verb = "uninstall" THEN Tail(run.todo)
  ELSE IF e.do = "create" /\ e.step.step = "container" /\ ~run.opts.remote
          /\ run.verb # "script"
  THEN <<Do("undo", NoStep)>>
  ELSE <<>>

\* An entry that writes stops somewhere on its line, or its answer is lost.
Breaks ==
  /\ Writes
  /\ LET e == Head(run.todo)
         line == LineOf(rt, e, run.opts)
     IN  /\ \/ ~line.ok /\ rt' = Last(line.steps) /\ UNCHANGED failures
            \/ Fails /\ rt' \in Range(line.steps)
         /\ run' = [run EXCEPT
                      !.todo = AfterFailure(e), !.wrote = TRUE,
                      !.failed = @ \/ failures' # failures,
                      !.result = IF AfterFailure(e) = <<>> THEN "error" ELSE @]
         \* an undo that did not happen, or a line nobody undoes cut short
         \* before the marker
         /\ lost' = (lost \/ ("tar" \in rt'.files /\ AfterFailure(e) = <<>>))
         /\ turned' = (turned \/ Turned(e))
  /\ UNCHANGED <<store, runs, operator, legacy>>

\* A sweep that leaves the last menu out.
SweepTag_Mutant ==
  /\ Doing("sweep")
  /\ rt' = [rt EXCEPT !.objs = {ob \in @ : ob.tag # "ours" \/ ob.step = "iface-member"}]
  /\ run' = [run EXCEPT !.todo = Tail(@), !.wrote = TRUE]
  /\ UNCHANGED <<store, runs, failures, operator, lost, turned, legacy>>

\* sweep: one line per menu, each on its own; when ssh dies, some ran.
SweepTag ==
  /\ Doing("sweep")
  /\ \/ rt' = [rt EXCEPT !.objs = @ \ TaggedObjects(rt)] /\ UNCHANGED failures
     \/ Fails /\ \E some \in SUBSET TaggedObjects(rt) :
                   rt' = [rt EXCEPT !.objs = @ \ some]
  /\ run' = [run EXCEPT !.todo = Tail(@), !.wrote = TRUE,
                        !.failed = @ \/ failures' # failures]
  /\ UNCHANGED <<store, runs, operator, lost, turned, legacy>>

\* verify: the count is the evidence, and an uninstall that left something
\* ends there, with the stores as they were.
Verify ==
  /\ Doing("verify")
  /\ \/ /\ IF Clean(rt, run.opts) THEN GoOn(Tail(run.todo)) ELSE End("dirty")
        /\ UNCHANGED failures
     \/ /\ Fails
        /\ run' = [run EXCEPT !.todo = <<>>, !.result = "dirty", !.failed = TRUE]
  /\ UNCHANGED <<rt, store, runs, operator, lost, turned, legacy>>

\* carryOut stops at the first item that will not go.
CarryOut_Mutant ==
  /\ Doing("drop")
  /\ \E kept \in SUBSET run.found :
       /\ kept # {} => Fails
       /\ kept = {} => UNCHANGED failures
       /\ store' = store \ (run.found \ kept)
       /\ End("clean")
  /\ UNCHANGED <<rt, runs, operator, lost, turned, legacy>>

\* carryOut: every item is tried; one that will not go is reported.
CarryOut ==
  /\ Doing("drop")
  /\ \E kept \in SUBSET run.found :
       /\ IF kept = {} THEN UNCHANGED failures ELSE Fails
       /\ store' = store \ (run.found \ kept)
       /\ run' = [run EXCEPT !.todo = <<>>, !.failed = @ \/ kept # {},
                             !.result = IF kept = {} THEN "clean" ELSE "partial"]
  /\ UNCHANGED <<rt, runs, operator, lost, turned, legacy>>

\* The command is killed.  An upload not yet signed for is left behind.
Killed ==
  /\ ~Idle
  /\ Fails
  /\ run' = [run EXCEPT !.todo = <<>>, !.result = "killed", !.failed = TRUE]
  /\ lost' = (lost \/ "tar" \in rt.files)
  /\ UNCHANGED <<rt, store, runs, operator, turned, legacy>>

\* RouterOS finishes removing a container, with its root or without.
Gone ==
  /\ rt.box = "removing"
  /\ \E left \in SUBSET (rt.files \cap {"root"}) :
       rt' = [rt EXCEPT !.box = "none", !.files = (@ \ {"root"}) \cup left]
  /\ UNCHANGED <<store, run, runs, failures, operator, lost, turned, legacy>>

\* The operator makes an object of his own, takes one away, or puts the tar
\* on the router for a script.
Operates ==
  /\ operator < MaxOperator
  /\ operator' = operator + 1
  /\ \/ \E s \in Theirs : rt' = [rt EXCEPT !.objs = @ \cup {Foreign(s)}]
     \/ \E ob \in rt.objs : rt' = [rt EXCEPT !.objs = @ \ {ob}]
     \/ rt' = [rt EXCEPT !.files = @ \cup {"tar"}]
  /\ lost' = (lost \/ rt'.files # rt.files)
  /\ UNCHANGED <<store, run, runs, failures, turned, legacy>>

DeployNext ==
  \/ Begin
  \/ ReadInstall
  \/ ReadScript
  \/ ReadUpgrade
  \/ ReadUninstall
  \/ ListTargets
  \/ ReadFails
  \/ Upload
  \/ Succeeds
  \/ Breaks
  \/ SweepTag
  \/ Verify
  \/ CarryOut
  \/ Killed
  \/ Gone
  \/ Operates

DeploySpec == DeployInit /\ [][DeployNext]_deployVars
-----------------------------------------------------------------------------
(* Properties.                                                              *)

\* The variables hold what the router and a run can hold.
DeployTypeOK ==
  /\ rt.objs \subseteq [step : Names, id : Seq(STRING), tag : {"ours", "theirs"}]
  /\ rt.entries \in {"none", "ours", "theirs"} /\ rt.marker \in BOOLEAN
  /\ rt.box \in {"none", "added", "running", "removing"} /\ rt.pulled \in BOOLEAN
  /\ rt.files \subseteq {"dir", "root", "tar"}
  /\ rt.manifest.kind \in {"none", "ours", "theirs"}
  /\ store \subseteq Items /\ run.found \subseteq OurItems
  /\ run.result \in {"none", "installed", "refused", "error", "dirty", "clean",
                     "partial", "killed"}
  /\ runs \in 0 .. MaxRuns /\ failures \in 0 .. MaxFailures
  /\ operator \in 0 .. MaxOperator

\* A record outlives what it is the record of, whatever fails and in
\* whatever order: entries of ours in the envlist are signed by the marker,
\* and while anything is tagged the manifest is there, for every install that had one to start
\* with (deploy.go, "a failed removal keeps the record for the next
\* attempt"; steps.go, "the marker is written first and removed last").
RecordsOutlive ==
  /\ rt.entries = "ours" => rt.marker
  /\ Tagged(rt) /\ ~legacy => rt.manifest.kind = "ours"

\* Nothing that does not carry the tag is changed by a run: not an object on
\* the same interface or in the same list, not an envlist or a file of the
\* same name, not a table or an index of another name.
ForeignUntouched ==
  [][/\ operator' = operator =>
          {ob \in rt'.objs : ob.tag = "theirs"} = {ob \in rt.objs : ob.tag = "theirs"}
     /\ rt.entries = "theirs" => rt'.entries = "theirs"
     /\ rt.manifest.kind = "theirs" => rt'.manifest = rt.manifest
     /\ store \ OurItems = store' \ OurItems]_deployVars

\* A run that is refused, by a collision, by flags the router contradicts or
\* by a read that failed, has written nothing: uninstall finds out what it
\* cannot go ahead with before it touches the router, install before its
\* first create.
RefusedWritesNothing == run.result = "refused" => ~run.wrote

\* What a run that was cut short leaves is recognised as ours by the next
\* one, whatever it was: with nothing foreign there and no stranded upload,
\* no step of any plan reads as foreign.
RerunNotRefused ==
  Idle /\ rt.entries # "theirs" /\ rt.manifest.kind # "theirs"
  /\ (\A ob \in rt.objs : ob.tag = "ours") /\ (lost \/ turned => "tar" \notin rt.files)
    => \A o \in Shapes : \A s \in Range(Plan(o)) : StateOf(rt, o, s) # "foreign"

\* Nothing foreign is touched before a run is refused, and nothing of ours
\* gets one refused.
RefusalsRight == RefusedWritesNothing /\ RerunNotRefused

\* An uninstall says clean only of a router with nothing tagged, signed,
\* recorded or left of this install, and of stores with none of what was
\* listed; and one during which nothing failed does say so, unless a root is
\* left that no manifest lists.
UninstallTruthful ==
  Idle /\ run.verb = "uninstall" =>
    /\ run.result = "clean" =>
         /\ ~Tagged(rt) /\ rt.entries # "ours" /\ rt.manifest.kind # "ours"
         /\ "root" \notin rt.files
         /\ store \cap run.found = {}
         /\ "tar" \in rt.files => lost \/ turned
    /\ run.result = "dirty" =>
         run.failed \/ (rt.manifest.kind # "ours" /\ "root" \in rt.files)
=============================================================================
