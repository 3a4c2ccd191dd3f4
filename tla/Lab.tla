-------------------------------- MODULE Lab --------------------------------
(***************************************************************************)
(* The virtual RouterOS lab (internal/lab): runs of its command line drive *)
(* one Docker container with one virtual router, over a chain of qcow2     *)
(* disks: run.qcow2, the live layer, over clean.qcow2, the snapshot, over  *)
(* base.qcow2; provisioning works on a layer of its own, provision.qcow2,  *)
(* which becomes the snapshot.  A run is a list of steps, each one host    *)
(* command; it may fail, be canceled or be killed at any of them, and the  *)
(* next run finds what it left.  Two runs may be of one state directory    *)
(* (one lock), of another RouterOS version in it (the same lock, other     *)
(* disks) or of another state directory (another lock).                    *)
(* A file is a name for an inode, so that a machine still running on a     *)
(* removed disk keeps it.  What is on a disk is what the lab's steps put   *)
(* there; a layer starts from what is on the disk under it.                *)
(***************************************************************************)
EXTENDS Integers, Sequences, FiniteSets

CONSTANTS
  Drivers,     \* who runs the command line
  Homes,       \* records of a state directory and a RouterOS version
  None,        \* nobody, or no key
  MaxRuns,     \* bound: runs started
  MaxFaults    \* bound: steps that fail, runs killed, power lost

States == {h.state : h \in Homes}
Disks == {"base", "clean", "run", "provision"}

\* What a disk may hold beside admin's key and password; a torn one is half
\* converted and does not boot.
Things == {"torn", "grown", "name", "package", "mode", "used"}
Provisioned == {"name", "package", "mode"}

ASSUME LabAssumption ==
  /\ Homes # {} /\ None \notin States \cup Drivers
  /\ MaxRuns \in Nat /\ MaxFaults \in Nat

VARIABLES
  home,      \* each driver's state directory and version
  inodes,    \* every disk ever made
  names,     \* which of them each file is, 0 for no such file
  box,       \* the container, the disk it has and the change it waits for
  lock,      \* who has each state directory's flock
  inherits,  \* drivers under `lock': LAB_LOCK_HELD names their lock
  verb,      \* what each driver runs
  todo,      \* the steps it has left
  failed,    \* history: its last run ended with an error
  calm,      \* history: nothing went wrong during its last run
  turned,    \* history: a removal failed unseen, or a lock's holder was killed
  runs,      \* runs started (bounded)
  faults     \* what went wrong (bounded)

bounds == <<turned, runs, faults>>
vars == <<home, inodes, names, box, lock, inherits, verb, todo, failed, calm,
          turned, runs, faults>>

Absent == [state |-> "absent", home |-> CHOOSE h \in Homes : TRUE,
           disk |-> "run", id |-> 0, asked |-> FALSE]
Inode(over, set) == [over |-> over, set |-> set, key |-> None, password |-> None]

\* No lab yet, or one state directory's, provisioned once and put down.
Init ==
  /\ home \in [Drivers -> Homes]
  /\ \E made \in {{}} \cup {{home[d]} : d \in Drivers} :
       /\ inodes = IF made = {} THEN <<>>
                   ELSE <<Inode(0, {"grown"}),
                          Inode(1, {"grown"} \cup Provisioned),
                          Inode(2, {"grown"} \cup Provisioned)>>
       /\ names = [h \in Homes |-> [k \in Disks |->
                     IF h \notin made THEN 0
                     ELSE CASE k = "base" -> 1 [] k = "clean" -> 2
                            [] k = "run" -> 3 [] OTHER -> 0]]
  /\ box = Absent
  /\ lock = [s \in States |-> None]
  /\ inherits = [d \in Drivers |-> FALSE]
  /\ verb = [d \in Drivers |-> "none"] /\ todo = [d \in Drivers |-> <<>>]
  /\ failed = [d \in Drivers |-> FALSE] /\ calm = [d \in Drivers |-> FALSE]
  /\ turned = FALSE /\ runs = 0 /\ faults = 0
-----------------------------------------------------------------------------
(* The verbs, as the steps they take.                                      *)

\* A step of a verb, and one on a disk: a layer's, or all that is done with
\* the machine on the layer being provisioned.
On(o, k) == [op |-> o, disk |-> k]
StepsOn(k, names_) == [i \in DOMAIN names_ |-> On(names_[i], k)]
Steps(names_) == StepsOn("none", names_)

\* overlay: the file goes, and a new layer takes its name.
Overlay(k) == StepsOn(k, <<"wipe", "layer">>)
Backing == [run |-> "clean", clean |-> "base", provision |-> "base", base |-> "none"]

\* guard: down looks at no version, lock at nothing but the lock.
Guards(v) ==
  Steps(IF v = "lock" THEN <<"lock">> ELSE
        IF v = "down" THEN <<"state", "lock">> ELSE <<"state", "lock", "ros">>)

\* cut, and the wait for the boot after it.
Cut(k) == StepsOn(k, <<"quit", "power", "back">>)

UpSteps == Steps(<<"provision", "live">>) \o StepsOn("run", <<"start">>)
           \o Steps(<<"access", "routes">>)

Script ==
  [up |-> UpSteps,
   down |-> Steps(<<"off", "gone">>),
   reset |-> Steps(<<"clean", "remove">>) \o Overlay("run") \o UpSteps,
   powercycle |-> Steps(<<"running">>) \o Cut("none"),
   provision |-> Steps(<<"provision">>),
   reprovision |-> Steps(<<"provision">>),
   cli |-> Steps(<<"running", "use">>),
   device_mode |-> Steps(<<"mode">>),
   lock |-> Steps(<<"session">>)]

\* Provision, once it is decided: the disk, the router's first boot, what it
\* is given, and the snapshot taken of it.
Provisioning ==
  StepsOn("provision",
          <<"base", "remove", "wipe", "layer", "start", "empty", "setup", "ssh",
            "package", "mode", "takekey", "shutdown", "rm", "rename">>)
  \o Overlay("run")

Verbs == DOMAIN Script
-----------------------------------------------------------------------------
(* A driver, its lock and its next step.                                   *)

Dir(d) == home[d].state
At(d, o) == todo[d] # <<>> /\ Head(todo[d]).op = o

\* The run goes on with other steps, and the lock goes with its last one.
Goto(d, steps) ==
  /\ todo' = [todo EXCEPT ![d] = steps]
  /\ lock' = IF steps = <<>> /\ lock[Dir(d)] = d
             THEN [lock EXCEPT ![Dir(d)] = None] ELSE lock
  /\ inherits' = [inherits EXCEPT ![d] = @ /\ steps # <<>>]

Next1(d) == Goto(d, Tail(todo[d]))   \* the next step
Then(d, steps) == Goto(d, steps \o Tail(todo[d]))

\* The run ends with an error; the command `lock' was given may go on.
Fail(d, fault) ==
  /\ Goto(d, IF inherits[d] THEN Steps(<<"session">>) ELSE <<>>)
  /\ failed' = [failed EXCEPT ![d] = TRUE]
  /\ calm' = [calm EXCEPT ![d] = @ /\ ~fault]

Quiet == UNCHANGED <<home, verb, bounds>>
NoDisks == UNCHANGED <<inodes, names>>

\* A run begins; under a session it finds its lock in LAB_LOCK_HELD.
Begin(d) ==
  /\ todo[d] = <<>> \/ At(d, "session")
  /\ runs < MaxRuns /\ runs' = runs + 1
  /\ \E v \in Verbs :
       /\ v = "lock" => todo[d] = <<>>
       /\ verb' = [verb EXCEPT ![d] = v]
       /\ todo' = [todo EXCEPT ![d] =
            Guards(v) \o Script[v] \o Steps(<<"done">>) \o todo[d]]
  /\ inherits' = [inherits EXCEPT ![d] = todo[d] # <<>>]
  /\ failed' = [failed EXCEPT ![d] = FALSE]
  /\ calm' = [calm EXCEPT ![d] = TRUE]
  /\ UNCHANGED <<home, inodes, names, box, lock, turned, faults>>

\* guardState: a container of another state directory is not driven.
GuardState(d) ==
  /\ At(d, "state")
  /\ IF box.state # "absent" /\ box.home.state # Dir(d)
     THEN Fail(d, TRUE) ELSE Next1(d) /\ UNCHANGED <<failed, calm>>
  /\ NoDisks /\ UNCHANGED box /\ Quiet

\* A lock nobody looks at.
TakeLock_Mutant(d) ==
  /\ At(d, "lock")
  /\ todo' = [todo EXCEPT ![d] = Tail(@)]
  /\ lock' = IF inherits[d] THEN lock ELSE [lock EXCEPT ![Dir(d)] = d]
  /\ UNCHANGED <<inherits, failed, calm, box>> /\ NoDisks /\ Quiet

\* takeLock: the flock, unless the lock is the driver's own already.
TakeLock(d) ==
  /\ At(d, "lock") /\ (inherits[d] \/ lock[Dir(d)] = None)
  /\ todo' = [todo EXCEPT ![d] = Tail(@)]
  /\ lock' = IF inherits[d] THEN lock ELSE [lock EXCEPT ![Dir(d)] = d]
  /\ UNCHANGED <<inherits, failed, calm, box>> /\ NoDisks /\ Quiet

\* flock's wait is over: LAB_LOCK_WAIT seconds went by.
GiveUp(d) ==
  /\ At(d, "lock") /\ ~inherits[d] /\ lock[Dir(d)] # None
  /\ Fail(d, TRUE)
  /\ NoDisks /\ UNCHANGED box /\ Quiet

\* guardROS: nor one of another version.
GuardROS(d) ==
  /\ At(d, "ros")
  /\ IF box.state # "absent" /\ box.home.ros # home[d].ros
     THEN Fail(d, TRUE) ELSE Next1(d) /\ UNCHANGED <<failed, calm>>
  /\ NoDisks /\ UNCHANGED box /\ Quiet

\* The command `lock' was given ends.
EndSession(d) ==
  /\ At(d, "session") /\ Next1(d)
  /\ NoDisks /\ UNCHANGED <<failed, calm, box>> /\ Quiet

\* The run ends well.
Done(d) ==
  /\ At(d, "done") /\ Next1(d)
  /\ NoDisks /\ UNCHANGED <<failed, calm, box>> /\ Quiet
-----------------------------------------------------------------------------
(* The disks.                                                              *)

File(d, k) == names[home[d]][k]
Rename(d, k, i) == names' = [names EXCEPT ![home[d]][k] = i]

\* A step that looks, and ends the run unless it likes what it sees.
Looks(d, o, ok) ==
  /\ At(d, o)
  /\ IF ok THEN Next1(d) /\ UNCHANGED <<failed, calm>> ELSE Fail(d, FALSE)
  /\ NoDisks /\ UNCHANGED box /\ Quiet

\* Reset wants a snapshot to go back to.
NeedClean(d) ==
  /\ At(d, "clean")
  /\ IF File(d, "clean") # 0 THEN Next1(d) /\ UNCHANGED <<failed, calm>>
     ELSE Fail(d, TRUE)
  /\ NoDisks /\ UNCHANGED box /\ Quiet

\* Provision, unless there is a snapshot and FORCE=1 does not ask for another.
Provision(d) ==
  /\ At(d, "provision")
  /\ Then(d, IF File(d, "clean") # 0 /\ verb[d] # "reprovision" THEN <<>>
             ELSE Provisioning)
  /\ NoDisks /\ UNCHANGED <<failed, calm, box>> /\ Quiet

\* convertBase: MikroTik's image, and then its growth to LAB_DISK_SIZE.
Convert(d) ==
  /\ At(d, "base")
  /\ IF File(d, "base") # 0
     THEN Next1(d) /\ NoDisks
     ELSE /\ inodes' = Append(inodes, Inode(0, {}))
          /\ Rename(d, "base", Len(inodes'))
          /\ Then(d, StepsOn("provision", <<"grow">>))
  /\ UNCHANGED <<failed, calm, box>> /\ Quiet

Grow(d) ==
  /\ At(d, "grow")
  /\ inodes' = [inodes EXCEPT ![File(d, "base")].set = @ \cup {"grown"}]
  /\ Next1(d)
  /\ UNCHANGED <<names, failed, calm, box>> /\ Quiet

\* overlay: the old file goes.
Wipe(d) ==
  /\ At(d, "wipe")
  /\ Rename(d, Head(todo[d]).disk, 0)
  /\ Next1(d)
  /\ UNCHANGED <<inodes, failed, calm, box>> /\ Quiet

\* qemu-img create: a layer that reads as what is under it.
Layer(d) ==
  /\ At(d, "layer")
  /\ LET k == Head(todo[d]).disk
         under == File(d, Backing[k])
     IN IF under = 0 THEN Fail(d, FALSE) /\ NoDisks
        ELSE /\ inodes' = Append(inodes, [inodes[under] EXCEPT !.over = under])
             /\ Rename(d, k, Len(inodes'))
             /\ Next1(d) /\ UNCHANGED <<failed, calm>>
  /\ UNCHANGED box /\ Quiet

\* Up makes the live layer when there is none, and CheckChain reads the
\* names of the three before a machine that is off is started on it.
Live(d) ==
  /\ At(d, "live")
  /\ IF File(d, "run") = 0
     THEN Then(d, Overlay("run")) /\ UNCHANGED <<failed, calm>>
     ELSE IF box.state = "running" \/ (File(d, "clean") # 0 /\ File(d, "base") # 0)
     THEN Next1(d) /\ UNCHANGED <<failed, calm>>
     ELSE Fail(d, FALSE)
  /\ NoDisks /\ UNCHANGED box /\ Quiet

\* snapshot: provision.qcow2 becomes clean.qcow2, read-only.
Snapshot(d) ==
  /\ At(d, "rename")
  /\ IF File(d, "provision") = 0 THEN Fail(d, FALSE) /\ UNCHANGED names
     ELSE /\ names' = [names EXCEPT ![home[d]]["clean"] = File(d, "provision"),
                                    ![home[d]]["provision"] = 0]
          /\ Next1(d) /\ UNCHANGED <<failed, calm>>
  /\ UNCHANGED <<inodes, box>> /\ Quiet
-----------------------------------------------------------------------------
(* The container and the router in it.                                     *)

Guest == inodes[box.id]
Boots == box.state = "running" /\ "torn" \notin Guest.set

\* Who gets in over ssh: a driver whose key admin has, or anybody while admin
\* has no key and no password, which is also what the first boot's login is.
Open == Boots /\ Guest.key = None /\ Guest.password = None
Ssh(d) == Boots /\ (Guest.key = Dir(d) \/ Open)

\* The router writes: to the disk it has, whatever its name is now.
Write(set, key, password) ==
  inodes' = [inodes EXCEPT ![box.id].set = set, ![box.id].key = key,
                           ![box.id].password = password]

\* A disk taken to be there.
Powered_Mutant(b) ==
  [b EXCEPT !.state = "running", !.id = names[b.home][b.disk], !.asked = FALSE]

\* Power comes back: QEMU opens the disk by its name, and ends at once if
\* there is no such file.
Powered(b) ==
  LET i == names[b.home][b.disk]
  IN [b EXCEPT !.state = IF i = 0 THEN "exited" ELSE "running", !.id = i,
               !.asked = FALSE]

\* A confirmed device-mode change is made by the boot after the power cut.
Confirmed(b) ==
  IF b.asked /\ b.id # 0 /\ names[b.home][b.disk] = b.id
  THEN [inodes EXCEPT ![b.id].set = @ \cup {"mode"}] ELSE inodes

\* start: a container there is goes on with the disk it has.
Start(d) ==
  /\ At(d, "start")
  /\ CASE box.state = "running" -> UNCHANGED <<box, inodes>>
       [] box.state \in {"exited", "created"} ->
            box' = Powered(box) /\ inodes' = Confirmed(box)
       [] OTHER ->
            /\ box' = Powered([Absent EXCEPT !.home = home[d],
                                             !.disk = Head(todo[d]).disk])
            /\ UNCHANGED inodes
  /\ Next1(d)
  /\ UNCHANGED <<names, failed, calm>> /\ Quiet

\* A container that is off left where it is.
Remove_Mutant(d) ==
  /\ At(d, "remove")
  /\ box' = IF box.state = "running" THEN Absent ELSE box
  /\ Next1(d)
  /\ NoDisks /\ UNCHANGED <<failed, calm>> /\ Quiet

\* removeContainer: docker rm -f.
Remove(d) ==
  /\ At(d, "remove")
  /\ box' = Absent
  /\ Next1(d)
  /\ NoDisks /\ UNCHANGED <<failed, calm>> /\ Quiet

\* docker rm, which refuses one that runs; down is content with none at all.
Rm(d) ==
  /\ At(d, "rm") \/ At(d, "gone")
  /\ IF box.state \in {"exited", "created"} \/ (box.state = "absent" /\ At(d, "gone"))
     THEN box' = Absent /\ Next1(d) /\ UNCHANGED <<failed, calm>>
     ELSE Fail(d, FALSE) /\ UNCHANGED box
  /\ NoDisks /\ Quiet

\* powerOff over ssh, by the monitor or by docker stop; cut's monitor quit.
Off(d) ==
  /\ At(d, "off") \/ At(d, "quit")
  /\ box' = IF box.state = "running" THEN [box EXCEPT !.state = "exited"] ELSE box
  /\ Next1(d)
  /\ NoDisks /\ UNCHANGED <<failed, calm>> /\ Quiet

\* snapshot's shutdown, which logs in as every boot of the snapshot will.
Shutdown(d) ==
  /\ At(d, "shutdown")
  /\ IF box.state = "running" /\ ~Open THEN Fail(d, FALSE) /\ UNCHANGED box
     ELSE /\ box' = IF box.state = "running" THEN [box EXCEPT !.state = "exited"]
                    ELSE box
          /\ Next1(d) /\ UNCHANGED <<failed, calm>>
  /\ NoDisks /\ Quiet

\* cut: docker start after the power went.
PowerOn(d) ==
  /\ At(d, "power")
  /\ IF box.state = "absent"
     THEN Fail(d, FALSE) /\ UNCHANGED <<box, inodes>>
     ELSE /\ IF box.state = "running" THEN UNCHANGED <<box, inodes>>
             ELSE box' = Powered(box) /\ inodes' = Confirmed(box)
          /\ Next1(d) /\ UNCHANGED <<failed, calm>>
  /\ UNCHANGED names /\ Quiet

\* A verb that wants the container running; waitEmptyPassword; waitSSH; the
\* blackhole routes and the registry's credential, which this state leaves out.
Running(d) == Looks(d, "running", box.state = "running")
WaitEmpty(d) == Looks(d, "empty", Open)
WaitSSH(d) == \E o \in {"ssh", "back", "routes"} : Looks(d, o, Ssh(d))

\* A step that logs in and writes.
Writes(d, o, login, set, key, password) ==
  /\ At(d, o)
  /\ IF login
     THEN Write(set, key, password) /\ Next1(d) /\ UNCHANGED <<failed, calm>>
     ELSE Fail(d, FALSE) /\ UNCHANGED inodes
  /\ UNCHANGED <<names, box>> /\ Quiet

SetUp(d) == Writes(d, "setup", Open, Guest.set \cup {"name"}, Dir(d), Guest.password)
InstallPackage(d) ==
  Writes(d, "package", Ssh(d), Guest.set \cup {"package"}, Guest.key, Guest.password)
TakeKey(d) == Writes(d, "takekey", Ssh(d), Guest.set, None, Guest.password)
Use(d) == Writes(d, "use", Ssh(d), Guest.set \cup {"used"}, Guest.key, Guest.password)

\* grantAccess: a router that has a key is left as it is.
GrantAccess(d) ==
  Writes(d, "access", Ssh(d), Guest.set,
         IF Guest.key = None THEN Dir(d) ELSE Guest.key,
         IF Guest.key = None THEN Dir(d) ELSE Guest.password)

\* DeviceMode: the change is asked for, and confirmed by a power cut.
DeviceMode(d) ==
  /\ At(d, "mode")
  /\ IF ~Ssh(d) THEN Fail(d, FALSE) /\ UNCHANGED box
     ELSE /\ UNCHANGED <<failed, calm>>
          /\ IF "mode" \in Guest.set THEN Next1(d) /\ UNCHANGED box
             ELSE /\ box' = [box EXCEPT !.asked = TRUE]
                  /\ Then(d, Cut(Head(todo[d]).disk)
                             \o StepsOn(Head(todo[d]).disk, <<"confirmed">>))
  /\ NoDisks /\ Quiet

ModeIsOn(d) == Looks(d, "confirmed", Ssh(d) /\ "mode" \in Guest.set)
-----------------------------------------------------------------------------
(* What goes wrong.                                                        *)

Fault == faults < MaxFaults /\ faults' = faults + 1 /\ UNCHANGED <<home, verb, runs>>

\* A step fails, or the run is canceled or killed before it.
Break(d) ==
  /\ todo[d] # <<>> /\ Head(todo[d]).op \notin {"done", "session"}
  /\ Fault /\ Fail(d, TRUE)
  /\ NoDisks /\ UNCHANGED <<box, turned>>

\* One fails half way: a base half converted; one that could not be grown,
\* and is removed; a container created that would not start; the key given
\* and not the password.
HalfDone(d) ==
  /\ Fault /\ Fail(d, TRUE) /\ UNCHANGED turned
  /\ \/ /\ At(d, "base") /\ File(d, "base") = 0
        /\ inodes' = Append(inodes, Inode(0, {"torn"}))
        /\ Rename(d, "base", Len(inodes')) /\ UNCHANGED box
     \/ At(d, "grow") /\ Rename(d, "base", 0) /\ UNCHANGED <<inodes, box>>
     \/ /\ At(d, "start") /\ box.state = "absent" /\ NoDisks
        /\ box' = [Absent EXCEPT !.state = "created", !.home = home[d],
                                 !.disk = Head(todo[d]).disk]
     \/ /\ At(d, "access") /\ Ssh(d) /\ Guest.key = None
        /\ Write(Guest.set, Dir(d), Guest.password) /\ UNCHANGED <<names, box>>

\* docker rm -f fails, which removeContainer does not look at.
RemoveFails(d) ==
  /\ At(d, "remove") /\ box.state # "absent"
  /\ Fault /\ Next1(d) /\ turned' = TRUE
  /\ calm' = [calm EXCEPT ![d] = FALSE]
  /\ NoDisks /\ UNCHANGED <<box, failed>>

\* The run that holds the lock is killed, and what it started goes on.
KillHolder(d) ==
  /\ inherits[d] /\ lock[Dir(d)] = d
  /\ Fault /\ turned' = TRUE
  /\ lock' = [lock EXCEPT ![Dir(d)] = None]
  /\ UNCHANGED <<inodes, names, box, inherits, todo, failed, calm>>

\* The container ends: QEMU does, or the host's power goes.
PowerLoss ==
  /\ box.state = "running"
  /\ Fault /\ box' = [box EXCEPT !.state = "exited"]
  /\ calm' = [d \in Drivers |-> FALSE]
  /\ NoDisks /\ UNCHANGED <<lock, inherits, todo, failed, turned>>
-----------------------------------------------------------------------------
Drive(d) ==
  \/ Begin(d)
  \/ GuardState(d)
  \/ TakeLock(d)
  \/ GiveUp(d)
  \/ GuardROS(d)
  \/ EndSession(d)
  \/ Done(d)
  \/ NeedClean(d)
  \/ Provision(d)
  \/ Convert(d)
  \/ Grow(d)
  \/ Wipe(d)
  \/ Layer(d)
  \/ Live(d)
  \/ Snapshot(d)
  \/ Start(d)
  \/ Remove(d)
  \/ Rm(d)
  \/ Off(d)
  \/ Shutdown(d)
  \/ PowerOn(d)
  \/ Running(d)
  \/ WaitEmpty(d)
  \/ WaitSSH(d)
  \/ SetUp(d)
  \/ InstallPackage(d)
  \/ TakeKey(d)
  \/ Use(d)
  \/ GrantAccess(d)
  \/ DeviceMode(d)
  \/ ModeIsOn(d)
  \/ Break(d)
  \/ HalfDone(d)
  \/ RemoveFails(d)
  \/ KillHolder(d)

Next == PowerLoss \/ \E d \in Drivers : Drive(d)

Spec == Init /\ [][Next]_vars
-----------------------------------------------------------------------------
(* Properties.                                                             *)

\* The variables hold what they can hold: a file is an inode there is, a
\* running machine has one, and whoever has a lock is driving.
TypeOK ==
  /\ home \in [Drivers -> Homes]
  /\ \A i \in DOMAIN inodes :
       /\ inodes[i].over \in 0 .. (i - 1) /\ inodes[i].set \subseteq Things
       /\ {inodes[i].key, inodes[i].password} \subseteq States \cup {None}
  /\ names \in [Homes -> [Disks -> 0 .. Len(inodes)]]
  /\ box \in [state : {"absent", "created", "exited", "running"}, home : Homes,
              disk : {"run", "provision"}, id : 0 .. Len(inodes), asked : BOOLEAN]
  /\ box.state = "running" => box.id # 0
  /\ lock \in [States -> Drivers \cup {None}]
  /\ \A s \in States : lock[s] # None => Dir(lock[s]) = s /\ todo[lock[s]] # <<>>
  /\ inherits \in [Drivers -> BOOLEAN] /\ verb \in [Drivers -> Verbs \cup {"none"}]
  /\ {failed, calm} \subseteq [Drivers -> BOOLEAN]
  /\ turned \in BOOLEAN /\ runs \in 0 .. MaxRuns /\ faults \in 0 .. MaxFaults

\* One state directory, and nothing that leaves two drivers on a container:
\* each state directory has a lock of its own, and the container is one.
OneLab == ~turned /\ \A d, e \in Drivers : Dir(d) = Dir(e)

\* "The snapshot carries no credential" (provision.go, Provision), whatever
\* was cut short before it was taken and whoever waits for the lock; and it
\* has all that provisioning puts on the disk under it, and nothing of a run.
SnapshotExact ==
  \A h \in Homes :
    LET clean == inodes[names[h]["clean"]]
    IN OneLab /\ names[h]["clean"] # 0 =>
         /\ clean.key = None /\ clean.password = None
         /\ clean.set = inodes[clean.over].set \cup Provisioned

\* The router is a boot of the live layer, over the snapshot there is, with
\* what the snapshot has and this lab's key and password.
Restored(d) ==
  /\ box.state = "running" /\ box.home = home[d] /\ box.disk = "run"
  /\ box.id = File(d, "run") /\ Guest.over = File(d, "clean")
  /\ Guest.set = inodes[Guest.over].set
  /\ Guest.key = Dir(d) /\ Guest.password = Dir(d)

\* Whatever earlier runs left half done, a reset that meets no fault of its
\* own puts the lab back: it does not fail, and leaves a clean router.
ResetRestores ==
  \A d \in Drivers :
    verb[d] = "reset" /\ calm[d] /\ OneLab =>
      ~failed[d] /\ (At(d, "done") => Restored(d))
=============================================================================
