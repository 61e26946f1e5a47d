-------------------------- MODULE ControllerService --------------------------
(***************************************************************************)
(* The controller service of pkg/driver: CreateVolume, DeleteVolume,       *)
(* CreateSnapshot, DeleteSnapshot and ControllerExpandVolume, with the     *)
(* operations of pkg/juicefs they are made of, on one file system and its  *)
(* console.                                                                *)
(*                                                                         *)
(* An object is a volume or a snapshot; its directory in the file system   *)
(* is named by the object itself.  Every request runs in a goroutine of    *)
(* its own (a slot); each command, file system call and console call is a  *)
(* step.  The set of locked ids (ObjLocks) is derived from the running     *)
(* handlers: every return releases the handler's id.  An answer that only  *)
(* refuses (Aborted, AlreadyExists) leaves no trace and is no step.        *)
(***************************************************************************)
EXTENDS Naturals, FiniteSets

CONSTANTS
  Vols,        \* volume names, which are also the volume ids
  Snaps,       \* snapshot ids ("<volume>_<name>")
  SnapOf,      \* SnapOf[s]: the volume that s is a snapshot of
  Source,      \* Source[v]: the content source of v, or NoSource
  NoSource,
  SharedPath,  \* the mount path named after the storage class
  Slots,       \* goroutines that serve requests
  Sizes,       \* capacities that are asked for
  ShareMount,  \* STORAGE_CLASS_SHARE_MOUNT
  IsCe,        \* is the source a metadata URL (community edition)?
  Faults,      \* the kinds of fault that may happen
  MaxFaults,   \* bound on the number of faults
  MaxMounts    \* bound on the mounts stacked at a path

Objects    == Vols \cup Snaps
Paths      == Objects \cup {SharedPath}
FaultKinds == {"error", "cli", "late", "plugin"}

ASSUME ObjectsAssumption ==
  /\ Vols \cap Snaps = {}
  /\ SnapOf \in [Snaps -> Vols]
  /\ Source \in [Vols -> Objects \cup {NoSource}]
  /\ NoSource \notin Objects
  /\ SharedPath \notin Objects
ASSUME ServiceAssumption ==
  /\ IsFiniteSet(Slots)
  /\ Sizes \subseteq Nat
  /\ {ShareMount, IsCe} \subseteq BOOLEAN
  /\ Faults \subseteq FaultKinds
  /\ MaxFaults \in Nat
  /\ MaxMounts \in Nat \ {0}

VARIABLES
  dirs,    \* dirs[x]: the directory of x in the file system
  quota,   \* quota[v]: the size of the quota on v's directory, 0 for none
  vols,    \* controllerService.vols: the capacities remembered
  mounts,  \* mounts[p]: how many mounts are stacked at the process mount path p
  call,    \* call[c]: the handler running in slot c
  co,      \* co[x]: the container orchestrator's view of x
  faults

vars == <<dirs, quota, vols, mounts, call, co, faults>>

-----------------------------------------------------------------------------
(* Handlers, and the ids they lock.                                        *)

Ops == {"none", "CreateVolume", "DeleteVolume", "CreateSnapshot", "DeleteSnapshot",
        "ControllerExpandVolume"}
Pcs == {"idle", "mount", "remount", "mkdir", "snap", "snapping", "chmod", "delQuota",
        "createQuota", "setQos", "rmr", "delSnap", "umount", "cleanup", "getQuota", "setQuota"}
Call == [op: Ops, obj: Objects \cup {NoSource}, size: Sizes \cup {0},
         path: Paths \cup {NoSource}, pc: Pcs, waited: BOOLEAN]
NoCall == [op |-> "none", obj |-> NoSource, size |-> 0, path |-> NoSource,
           pc |-> "idle", waited |-> FALSE]

Running(c) == call[c].pc # "idle"

\* The id a handler locks: CreateSnapshot locks the snapshot's NAME, everything
\* else the id of the volume or of the snapshot.
LockId(op, x) == <<IF op = "CreateSnapshot" THEN "name" ELSE "id", x>>

\* Variant: the lock is always granted.
TryAcquireAlways(op, x) == op # "none"

TryAcquire(op, x) ==
  \A c \in Slots : Running(c) => LockId(call[c].op, call[c].obj) # LockId(op, x)

Start(c, op, x, size, pc) ==
  /\ ~Running(c)
  /\ TryAcquire(op, x)
  /\ call' = [call EXCEPT ![c] = [op |-> op, obj |-> x, size |-> size, path |-> NoSource,
                                  pc |-> pc, waited |-> TRUE]]
Goto(c, pc) == call' = [call EXCEPT ![c].pc = pc]
Return(c)   == call' = [call EXCEPT ![c] = NoCall]

Fault(kind) ==
  /\ kind \in Faults
  /\ faults < MaxFaults
  /\ faults' = faults + 1

-----------------------------------------------------------------------------
(* Requests.  The orchestrator (external) repeats a request until it is    *)
(* answered with success, one at a time for each object, and asks for      *)
(* nothing that it has not made sure of before: it snapshots and clones    *)
(* what exists, and protects it until then.                                *)

Waiting(x, ops) == \E c \in Slots : call[c].obj = x /\ call[c].op \in ops /\ call[c].waited

InUse(x) ==
  \/ x \in Vols /\ \E s \in Snaps : SnapOf[s] = x /\ co[s] = "creating"
  \/ \E v \in Vols : Source[v] = x /\ co[v] = "creating"

HasSource(v) == Source[v] # NoSource => co[Source[v]] \in {"bound", "ready"}

\* Variant: a volume whose capacity is remembered is taken for created.
CreateVolumeRemembered(c, v, size) ==
  /\ co[v] = "creating" /\ HasSource(v)
  /\ ~Waiting(v, {"CreateVolume"})
  /\ ~(vols[v].known /\ vols[v].cap < size)
  /\ vols' = [vols EXCEPT ![v] = [known |-> TRUE, cap |-> size]]
  /\ IF vols[v].known
     THEN TryAcquire("CreateVolume", v) /\ co' = [co EXCEPT ![v] = "bound"] /\ UNCHANGED call
     ELSE Start(c, "CreateVolume", v, size, "mount") /\ UNCHANGED co
  /\ UNCHANGED <<dirs, quota, mounts, faults>>

CreateVolume(c, v, size) ==
  /\ co[v] = "creating" /\ HasSource(v)
  /\ ~Waiting(v, {"CreateVolume"})
  /\ ~(vols[v].known /\ vols[v].cap < size)
  /\ vols' = [vols EXCEPT ![v] = [known |-> TRUE, cap |-> size]]
  /\ Start(c, "CreateVolume", v, size, "mount")
  /\ UNCHANGED <<dirs, quota, mounts, co, faults>>

DeleteVolume(c, v) ==
  /\ co[v] = "deleting"
  /\ ~Waiting(v, {"DeleteVolume"})
  /\ Start(c, "DeleteVolume", v, 0, "mount")
  /\ UNCHANGED <<dirs, quota, vols, mounts, co, faults>>

CreateSnapshot(c, s) ==
  /\ co[s] = "creating"
  /\ ~Waiting(s, {"CreateSnapshot"})
  /\ Start(c, "CreateSnapshot", s, 0, "mount")
  /\ UNCHANGED <<dirs, quota, vols, mounts, co, faults>>

DeleteSnapshot(c, s) ==
  /\ co[s] = "deleting"
  /\ ~Waiting(s, {"DeleteSnapshot"})
  /\ Start(c, "DeleteSnapshot", s, 0, "mount")
  /\ UNCHANGED <<dirs, quota, vols, mounts, co, faults>>

ControllerExpandVolume(c, v, size) ==
  /\ co[v] = "bound" /\ size > 0
  /\ ~Waiting(v, {"ControllerExpandVolume"})
  /\ Start(c, "ControllerExpandVolume", v, size, "getQuota")
  /\ UNCHANGED <<dirs, quota, vols, mounts, co, faults>>

-----------------------------------------------------------------------------
(* JfsMount and JfsUnmount.                                                *)

\* A volume's PersistentVolume exists from the success of CreateVolume to that
\* of DeleteVolume; a snapshot's id is no PersistentVolume's name.
GetUniqueId(x) ==
  IF ShareMount /\ x \in Vols /\ co[x] \in {"bound", "deleting"} THEN SharedPath ELSE x

MountedFor(op, x) == IF op = "CreateSnapshot" THEN SnapOf[x] ELSE x

FirstStep(op, x) ==
  CASE op = "CreateVolume" /\ Source[x] = NoSource -> "mkdir"
    [] op = "CreateVolume" /\ Source[x] # NoSource -> "snap"
    [] op = "CreateSnapshot" -> "snap"
    [] op = "DeleteVolume"   -> "rmr"
    [] op = "DeleteSnapshot" -> "delSnap"

MountPath(c) == GetUniqueId(MountedFor(call[c].op, call[c].obj))

\* umount may find files in use as long as a snapshot command runs below the path.
Busy(c, p) == \E d \in Slots \ {c} : call[d].path = p /\ call[d].pc = "snapping"

\* ProcessMount.JMount of the community edition unmounts what it finds.
UnmountBeforeMount(c) ==
  LET p == MountPath(c)
  IN /\ IsCe
     /\ call[c].pc = "mount" /\ mounts[p] > 0
     /\ \/ mounts' = [mounts EXCEPT ![p] = @ - 1] /\ Goto(c, "remount")
        \/ Busy(c, p) /\ Return(c) /\ UNCHANGED mounts
     /\ UNCHANGED <<dirs, quota, vols, co, faults>>

\* The mount command.  Where something is mounted already, the mount helper may
\* put another mount on top or be content with what it finds (external).
JfsMount(c) ==
  LET p == MountPath(c)
  IN /\ call[c].pc = "remount" \/ (call[c].pc = "mount" /\ ~(IsCe /\ mounts[p] > 0))
     /\ \/ mounts[p] < MaxMounts /\ mounts' = [mounts EXCEPT ![p] = @ + 1]
        \/ mounts[p] > 0 /\ UNCHANGED mounts
     /\ call' = [call EXCEPT ![c].pc = FirstStep(call[c].op, call[c].obj), ![c].path = p]
     /\ UNCHANGED <<dirs, quota, vols, co, faults>>

\* Is the file system mounted where the call has mounted it?
Mounted(c) == mounts[call[c].path] > 0

\* JfsUnmount, first half: umount fails where nothing is mounted.
JfsUnmount(c) ==
  /\ call[c].pc = "umount"
  /\ \/ /\ Mounted(c)
        /\ mounts' = [mounts EXCEPT ![call[c].path] = @ - 1]
        /\ Goto(c, "cleanup")
     \/ /\ ~Mounted(c) \/ Busy(c, call[c].path)
        /\ Return(c)
        /\ UNCHANGED mounts
  /\ UNCHANGED <<dirs, quota, vols, co, faults>>

\* What the orchestrator makes of a success it still waits for.
Succeeded(c) ==
  LET x == call[c].obj
  IN co' = IF ~call[c].waited THEN co
           ELSE CASE call[c].op = "CreateVolume"   -> [co EXCEPT ![x] = "bound"]
                  [] call[c].op = "CreateSnapshot" -> [co EXCEPT ![x] = "ready"]
                  [] call[c].op \in {"DeleteVolume", "DeleteSnapshot"} ->
                       [co EXCEPT ![x] = "deleted"]
                  [] OTHER -> co

\* Second half, CleanupMountPoint: one more mount is taken off the path, and it
\* fails if the path is a mount point even then.  The request succeeds with it.
JfsCleanupMountPoint(c) ==
  LET p == call[c].path
  IN /\ call[c].pc = "cleanup"
     /\ mounts' = [mounts EXCEPT ![p] = IF @ > 0 THEN @ - 1 ELSE 0]
     /\ IF mounts[p] <= 1 THEN Succeeded(c) ELSE UNCHANGED co
     /\ Return(c)
     /\ UNCHANGED <<dirs, quota, vols, faults>>

-----------------------------------------------------------------------------
(* CreateVol, CreateVolFromSnap, CreateVolFromVol and CreateSnap.          *)

AfterDirectory(c) ==
  CASE call[c].op = "CreateSnapshot" -> "umount"
    [] call[c].op = "CreateVolume" /\ call[c].size > 0 -> "delQuota"
    [] OTHER -> "setQos"

\* CreateVol's directory: found or made, and its mode set.  On a path where
\* nothing is mounted it is made there, on the disk of the controller itself.
MkdirAll(c) ==
  LET x == call[c].obj
  IN /\ call[c].pc = "mkdir"
     /\ dirs' = IF Mounted(c) /\ dirs[x] = "none" THEN [dirs EXCEPT ![x] = "full"] ELSE dirs
     /\ Goto(c, AfterDirectory(c))
     /\ UNCHANGED <<quota, vols, mounts, co, faults>>

SnapSource(c) ==
  IF call[c].op = "CreateSnapshot" THEN SnapOf[call[c].obj] ELSE Source[call[c].obj]

\* createSnap: a directory that exists is taken for the finished snapshot; the
\* snapshot command fails without its source.
createSnap(c) ==
  LET x == call[c].obj
  IN /\ call[c].pc = "snap"
     /\ \/ /\ Mounted(c) /\ dirs[x] # "none"
           /\ Goto(c, "chmod")
           /\ UNCHANGED dirs
        \/ /\ Mounted(c) /\ dirs[x] = "none" /\ dirs[SnapSource(c)] # "none"
           /\ dirs' = [dirs EXCEPT ![x] = "partial"]
           /\ Goto(c, "snapping")
        \/ /\ ~Mounted(c) \/ (dirs[x] = "none" /\ dirs[SnapSource(c)] = "none")
           /\ Return(c)
           /\ UNCHANGED dirs
     /\ UNCHANGED <<quota, vols, mounts, co, faults>>

\* The command ends.  It copies the source as it is.  A umount that succeeds meanwhile does
\* not take the file system from it: it would be refused while the command has files open.
SnapshotDone(c) ==
  /\ call[c].pc = "snapping"
  /\ dirs' = [dirs EXCEPT ![call[c].obj] = dirs[SnapSource(c)]]
  /\ Goto(c, "chmod")
  /\ UNCHANGED <<quota, vols, mounts, co, faults>>

\* The end of createSnap: stat and chmod fail on a directory that is not there.
Chmod(c) ==
  /\ call[c].pc = "chmod"
  /\ IF Mounted(c) /\ dirs[call[c].obj] # "none" THEN Goto(c, AfterDirectory(c)) ELSE Return(c)
  /\ UNCHANGED <<dirs, quota, vols, mounts, co, faults>>

\* Variant: CreateVolume leaves the quota of an earlier attempt.
DeleteQuotaKept(c) ==
  /\ call[c].pc = "delQuota"
  /\ quota' = IF call[c].op = "DeleteVolume" THEN [quota EXCEPT ![call[c].obj] = 0] ELSE quota
  /\ Goto(c, IF call[c].op = "DeleteVolume" THEN "umount" ELSE "createQuota")
  /\ UNCHANGED <<dirs, vols, mounts, co, faults>>

\* DeleteQuota.  CreateVolume ignores its error, DeleteVolume does not; only
\* after it does DeleteVolume forget the capacity.
DeleteQuota(c) ==
  LET x == call[c].obj
  IN /\ call[c].pc = "delQuota"
     /\ quota' = [quota EXCEPT ![x] = 0]
     /\ IF call[c].op = "DeleteVolume"
        THEN /\ vols' = [vols EXCEPT ![x] = [known |-> FALSE, cap |-> 0]]
             /\ Goto(c, "umount")
        ELSE Goto(c, "createQuota") /\ UNCHANGED vols
     /\ UNCHANGED <<dirs, mounts, co, faults>>

\* Variant: DeleteVolume ignores the error too.
DeleteQuotaIgnoredToo(c) ==
  /\ call[c].pc = "delQuota"
  /\ Fault("error")
  /\ Goto(c, IF call[c].op = "DeleteVolume" THEN "umount" ELSE "createQuota")
  /\ UNCHANGED <<dirs, quota, vols, mounts, co>>

DeleteQuotaIgnored(c) ==
  /\ call[c].pc = "delQuota" /\ call[c].op = "CreateVolume"
  /\ Fault("error")
  /\ Goto(c, "createQuota")
  /\ UNCHANGED <<dirs, quota, vols, mounts, co>>

\* The console has one quota for a path and refuses a second one.
CreateQuota(c) ==
  LET x == call[c].obj
  IN /\ call[c].pc = "createQuota"
     /\ IF quota[x] = 0
        THEN quota' = [quota EXCEPT ![x] = call[c].size] /\ Goto(c, "setQos")
        ELSE Return(c) /\ UNCHANGED quota
     /\ UNCHANGED <<dirs, vols, mounts, co, faults>>

\* ParseQosParams always gives a value, so the default export is always updated.
SetQos(c) ==
  /\ call[c].pc = "setQos"
  /\ Goto(c, "umount")
  /\ UNCHANGED <<dirs, quota, vols, mounts, co, faults>>

-----------------------------------------------------------------------------
(* DeleteVol and DeleteSnap: nothing is removed where nothing is found.    *)

\* Variant: a directory that is gone already is an error.
RmrDirMissing(c) ==
  /\ call[c].pc = "rmr"
  /\ dirs' = [dirs EXCEPT ![call[c].obj] = "none"]
  /\ IF dirs[call[c].obj] = "none" THEN Return(c) ELSE Goto(c, "delQuota")
  /\ UNCHANGED <<quota, vols, mounts, co, faults>>

RmrDir(c) ==
  /\ call[c].pc = "rmr"
  /\ dirs' = IF Mounted(c) THEN [dirs EXCEPT ![call[c].obj] = "none"] ELSE dirs
  /\ Goto(c, "delQuota")
  /\ UNCHANGED <<quota, vols, mounts, co, faults>>

DeleteSnap(c) ==
  /\ call[c].pc = "delSnap"
  /\ dirs' = IF Mounted(c) THEN [dirs EXCEPT ![call[c].obj] = "none"] ELSE dirs
  /\ Goto(c, "umount")
  /\ UNCHANGED <<quota, vols, mounts, co, faults>>

-----------------------------------------------------------------------------
(* ControllerExpandVolume: read the quota, then create or update it.       *)

GetQuota(c) ==
  /\ call[c].pc = "getQuota"
  /\ Goto(c, "setQuota")
  /\ UNCHANGED <<dirs, quota, vols, mounts, co, faults>>

SetQuota(c) ==
  /\ call[c].pc = "setQuota"
  /\ quota' = [quota EXCEPT ![call[c].obj] = call[c].size]
  /\ Return(c)
  /\ UNCHANGED <<dirs, vols, mounts, co, faults>>

-----------------------------------------------------------------------------
(* Failures.                                                               *)

\* A command or a call fails: the handler returns, and leaves its mount.  One that
\* took effect before it failed is that step and the failure of the next.
CallFails(c) ==
  /\ Running(c) /\ call[c].pc # "snapping"
  /\ Fault("error")
  /\ Return(c)
  /\ UNCHANGED <<dirs, quota, vols, mounts, co>>

\* The snapshot command fails halfway.
SnapshotFails(c) ==
  /\ call[c].pc = "snapping"
  /\ Fault("cli")
  /\ Return(c)
  /\ UNCHANGED <<dirs, quota, vols, mounts, co>>

\* The orchestrator stops waiting; the handler knows nothing of it.
CallTimesOut(c) ==
  /\ Running(c) /\ call[c].waited
  /\ Fault("late")
  /\ call' = [call EXCEPT ![c].waited = FALSE]
  /\ UNCHANGED <<dirs, quota, vols, mounts, co>>

\* The controller restarts: handlers, capacities and mounts are gone.  (Two
\* handlers that touch the unsynchronised map vols at once can bring it down.)
PluginRestarts ==
  /\ Fault("plugin")
  /\ call' = [c \in Slots |-> NoCall]
  /\ vols' = [v \in Vols |-> [known |-> FALSE, cap |-> 0]]
  /\ mounts' = [p \in Paths |-> 0]
  /\ UNCHANGED <<dirs, quota, co>>

-----------------------------------------------------------------------------
(* The users of the orchestrator (external).                               *)

TakeSnapshot(s) ==
  /\ co[s] = "none" /\ co[SnapOf[s]] = "bound"
  /\ co' = [co EXCEPT ![s] = "creating"]
  /\ UNCHANGED <<dirs, quota, vols, mounts, call, faults>>

Discard(x) ==
  /\ co[x] \in {"bound", "ready"} /\ ~InUse(x)
  /\ co' = [co EXCEPT ![x] = "deleting"]
  /\ UNCHANGED <<dirs, quota, vols, mounts, call, faults>>

-----------------------------------------------------------------------------
Init ==
  /\ dirs = [x \in Objects |-> "none"]
  /\ quota = [v \in Vols |-> 0]
  /\ vols = [v \in Vols |-> [known |-> FALSE, cap |-> 0]]
  /\ mounts = [p \in Paths |-> 0]
  /\ call = [c \in Slots |-> NoCall]
  /\ co = [x \in Objects |-> IF x \in Vols THEN "creating" ELSE "none"]
  /\ faults = 0

Request(c) ==
  \/ \E v \in Vols :
       \/ \E size \in Sizes : CreateVolume(c, v, size) \/ ControllerExpandVolume(c, v, size)
       \/ DeleteVolume(c, v)
  \/ \E s \in Snaps : CreateSnapshot(c, s) \/ DeleteSnapshot(c, s)

Step(c) ==
  \/ UnmountBeforeMount(c) \/ JfsMount(c) \/ JfsUnmount(c) \/ JfsCleanupMountPoint(c)
  \/ MkdirAll(c) \/ createSnap(c) \/ SnapshotDone(c) \/ Chmod(c)
  \/ DeleteQuota(c) \/ CreateQuota(c) \/ SetQos(c)
  \/ RmrDir(c) \/ DeleteSnap(c) \/ GetQuota(c) \/ SetQuota(c)

Failure(c) == DeleteQuotaIgnored(c) \/ CallFails(c) \/ SnapshotFails(c) \/ CallTimesOut(c)

Users == (\E s \in Snaps : TakeSnapshot(s)) \/ (\E x \in Objects : Discard(x))

Quiet ==
  /\ \A c \in Slots : ~Running(c)
  /\ \A x \in Objects : co[x] \in {"none", "deleted"} \/ (x \in Vols /\ ~HasSource(x))
  /\ UNCHANGED vars

Next ==
  \/ \E c \in Slots : Request(c) \/ Step(c) \/ Failure(c)
  \/ PluginRestarts
  \/ Users
  \/ Quiet

Spec == Init /\ [][Next]_vars

-----------------------------------------------------------------------------
\* Every variable has its type.
TypeOK ==
  /\ dirs \in [Objects -> {"none", "partial", "full"}]
  /\ quota \in [Vols -> Sizes \cup {0}]
  /\ vols \in [Vols -> [known: BOOLEAN, cap: Sizes \cup {0}]]
  /\ mounts \in [Paths -> 0..MaxMounts]
  /\ call \in [Slots -> Call]
  /\ co \in [Objects -> {"none", "creating", "bound", "ready", "deleting", "deleted"}]
  /\ faults \in 0..MaxFaults

\* A volume or snapshot that the orchestrator was told exists is there, whole: no
\* handler that is late, repeated or running beside it (CreateVolume, CreateSnapshot
\* and their createSnap) takes a directory another one is filling for finished.
BoundIsIntact == \A x \in Objects : co[x] \in {"bound", "ready"} => dirs[x] = "full"

\* What the orchestrator was told exists is there, under every fault and in every
\* configuration: a CreateVolume or CreateSnapshot that follows one the controller's
\* restart has cut short, or one that failed halfway, reports no success without it.
BoundIsThere == \A x \in Objects : co[x] \in {"bound", "ready"} => dirs[x] # "none"

\* What the orchestrator was told is deleted is gone, directory and quota, and no
\* late handler of CreateVolume or CreateSnapshot brings it back.
DeletedStaysGone ==
  \A x \in Objects : co[x] = "deleted" => dirs[x] = "none" /\ (x \in Vols => quota[x] = 0)

\* The success of CreateVolume means the quota this request asked for, whatever an
\* attempt that failed, or one the orchestrator gave up on, has put in place.
QuotaAsAsked ==
  [][\A c \in Slots :
       call[c].op = "CreateVolume" /\ call[c].size > 0 /\ co[call[c].obj] # co'[call[c].obj]
         => quota'[call[c].obj] = call[c].size]_vars

-----------------------------------------------------------------------------
(* Why these hold: the inductive invariant behind them.                    *)

Making   == {"CreateVolume", "CreateSnapshot"}
Removing == {"DeleteVolume", "DeleteSnapshot"}

\* What a handler can be doing: each step belongs to some operations.
StepsOf(op) ==
  CASE op = "none"                   -> {"idle"}
    [] op = "CreateVolume"           -> {"mount", "remount", "mkdir", "snap", "snapping", "chmod",
                                         "delQuota", "createQuota", "setQos", "umount", "cleanup"}
    [] op = "CreateSnapshot"         -> {"mount", "remount", "snap", "snapping", "chmod", "umount",
                                         "cleanup"}
    [] op = "DeleteVolume"           -> {"mount", "remount", "rmr", "delQuota", "umount", "cleanup"}
    [] op = "DeleteSnapshot"         -> {"mount", "remount", "delSnap", "umount", "cleanup"}
    [] op = "ControllerExpandVolume" -> {"getQuota", "setQuota"}

CallsShaped ==
  \A c \in Slots :
    /\ call[c].pc \in StepsOf(call[c].op)
    /\ call[c].op \in {"CreateVolume", "DeleteVolume", "ControllerExpandVolume"} => call[c].obj \in Vols
    /\ call[c].op \in {"CreateSnapshot", "DeleteSnapshot"} => call[c].obj \in Snaps
    /\ call[c].op = "CreateVolume" =>
         /\ call[c].pc = "mkdir" => Source[call[c].obj] = NoSource
         /\ call[c].pc \in {"snap", "snapping", "chmod"} => Source[call[c].obj] # NoSource

OneHandlerPerId ==
  \A c, d \in Slots :
    Running(c) /\ Running(d) /\ LockId(call[c].op, call[c].obj) = LockId(call[d].op, call[d].obj)
      => c = d

\* A handler works on what the orchestrator still wants of it, even one it no longer
\* waits for: the lock keeps the request from being answered by another.
AskedFor ==
  \A c \in Slots :
    LET x == call[c].obj
    IN /\ call[c].op \in Making => co[x] = "creating"
       /\ call[c].op \in Removing => co[x] = "deleting"
       /\ call[c].op = "ControllerExpandVolume" => co[x] \in {"bound", "deleting"} /\ call[c].size > 0
       /\ call[c].op = "CreateVolume" => HasSource(x)

SourcesKept == \A s \in Snaps : co[s] = "creating" => co[SnapOf[s]] = "bound"

NeedsMount(c) == call[c].pc = "mkdir" \/ (~ShareMount /\ call[c].pc \in {"rmr", "delSnap"})

\* Whoever shares no mount path has its mount while it works.
OwnMount ==
  \A c \in Slots :
    /\ call[c].op # "none" /\ call[c].pc \notin {"mount", "remount", "getQuota", "setQuota"} =>
         \/ call[c].path = MountedFor(call[c].op, call[c].obj)
         \/ ShareMount /\ call[c].path = SharedPath /\ call[c].op # "CreateVolume"
    /\ NeedsMount(c) => mounts[call[c].obj] > 0

QuotaSet ==
  \A c \in Slots :
    call[c].op = "CreateVolume" /\ call[c].size > 0 /\ call[c].pc \in {"setQos", "umount", "cleanup"}
      => quota[call[c].obj] = call[c].size

RemovedInOrder ==
  \A c \in Slots :
    /\ call[c].op \in Removing /\ call[c].pc \in {"delQuota", "umount", "cleanup"} =>
         dirs[call[c].obj] = "none"
    /\ call[c].op = "DeleteVolume" /\ call[c].pc \in {"umount", "cleanup"} =>
         quota[call[c].obj] = 0

CopiedInFull ==
  /\ \A x \in Objects : dirs[x] = "partial" =>
       \E c \in Slots : call[c].op \in Making /\ call[c].obj = x /\ call[c].pc = "snapping"
  /\ \A c \in Slots :
       call[c].op \in Making
         /\ call[c].pc \in {"chmod", "delQuota", "createQuota", "setQos", "umount", "cleanup"}
           => dirs[call[c].obj] = "full"

\* A handler fills its directory or has found it before it goes on to quotas and unmounting.
MadeBeforeGoingOn ==
  \A c \in Slots :
    call[c].op \in Making =>
      /\ call[c].pc = "snapping" => dirs[call[c].obj] = "partial"
      /\ call[c].pc \in {"delQuota", "createQuota", "setQos", "umount", "cleanup"} =>
           dirs[call[c].obj] # "none"

NoHalfCopies == Faults \cap {"cli", "plugin"} = {}

\* One handler per id, each for something that is still asked for, each with its own
\* mount unless the path is shared, and each with its directory made before it goes on;
\* then what they report created is there, what DeleteVolume and DeleteSnapshot have
\* reported is gone (without a shared path), and what CreateVolume and CreateSnapshot
\* have reported is whole (without snapshot commands that die).
HandlersInv ==
  /\ CallsShaped /\ OneHandlerPerId /\ AskedFor /\ SourcesKept /\ OwnMount /\ QuotaSet
  /\ MadeBeforeGoingOn /\ BoundIsThere
  /\ ~ShareMount => RemovedInOrder /\ DeletedStaysGone
  /\ NoHalfCopies => CopiedInFull /\ BoundIsIntact

-----------------------------------------------------------------------------
(* The abstract store that the handlers implement.                         *)

Store == INSTANCE VolumeStore WITH CopiesEnd <- NoHalfCopies, OwnPaths <- ~ShareMount

\* Seen without its handlers, locks, mounts and retries, the controller service does
\* to the file system and the quotas what VolumeStore specifies: CreateVol, CreateSnap
\* and the quota calls touch an object only while it is asked for or in use, RmrDir and
\* DeleteSnap only once it is discarded, and a success is reported of what is so.
ImplementsVolumeStore == Store!Spec

-----------------------------------------------------------------------------
(* Liveness.  Goroutines run, commands and calls end (the console's have a *)
(* timeout), and the orchestrator repeats what was not answered.           *)

Repeats(x) ==
  \E c \in Slots :
    \/ x \in Vols /\ (DeleteVolume(c, x) \/ \E size \in Sizes : CreateVolume(c, x, size))
    \/ x \in Snaps /\ (DeleteSnapshot(c, x) \/ CreateSnapshot(c, x))

Fairness ==
  /\ \A c \in Slots : WF_vars(Step(c))
  /\ \A x \in Objects : SF_vars(Repeats(x))

FairSpec == Spec /\ Fairness

\* A volume or snapshot that is asked for comes to be: the mounts, quotas and locks
\* that failed attempts of CreateVolume and CreateSnapshot leave behind do not keep
\* the ones that follow from succeeding.
Provisioned ==
  \A x \in Objects :
    (co[x] = "creating" /\ (x \in Vols => HasSource(x))) ~> (co[x] # "creating")

\* A volume or snapshot that is discarded goes: neither a mount that was left behind
\* nor a directory or quota that is gone already makes DeleteVolume or DeleteSnapshot
\* fail for ever.
Reclaimed == \A x \in Objects : (co[x] = "deleting") ~> (co[x] = "deleted")

=============================================================================
