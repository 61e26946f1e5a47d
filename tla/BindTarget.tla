----------------------------- MODULE BindTarget -----------------------------
(***************************************************************************)
(* The mount table under one target: NodePublishVolume binds the target to *)
(* the mount path, NodeUnpublishVolume takes the binding off, and the pod  *)
(* driver binds it again after the client that served it has died.         *)
(*                                                                         *)
(* MountPod says which target is bound to what; here a bind mount is an    *)
(* entry of /proc/self/mountinfo.  Mounts stack: the last entry for a path *)
(* is the one that is seen.  A client is known by the minor device number  *)
(* of its file system, counted from 1, the file systems of the node itself *)
(* by 0; an entry whose client is not the live one answers with "transport *)
(* endpoint is not connected".                                             *)
(***************************************************************************)
EXTENDS Naturals, Sequences, SequencesExt

CONSTANTS
  MaxClients,  \* bound on the clients that are started at the mount path
  MaxFaults,   \* bound on the calls that fail
  MaxRaces     \* bound on the recoveries that fall into the unpublishing

ASSUME BoundsAssumption == MaxClients \in Nat \ {0} /\ MaxFaults \in Nat /\ MaxRaces \in Nat

VARIABLES
  table,    \* the mount table, in the order of mounting
  dir,      \* does the target directory exist?
  client,   \* the live client, 0 for none
  started,  \* clients started so far
  ref,      \* is the target's reference on the mount pod?
  pc,       \* where kubelet's request for the target is
  bound,    \* checkBindAndMount: has it found an entry for the target?
  rec,      \* podReadyHandler: what it does next
  src,      \* podReadyHandler: the source of its bind
  races,    \* recoveries begun while the target is unpublished
  faults

vars == <<table, dir, client, started, ref, pc, bound, rec, src, races, faults>>

-----------------------------------------------------------------------------
(* The mount table (external).                                             *)

Entry == [at: {"mountPath", "target", "other"}, minor: 0..MaxClients]

Find(p)   == SelectLastInSeq(table, LAMBDA e : e.at = p)
On(p)     == Find(p) # 0
Add(p, m) == table' = Append(table, [at |-> p, minor |-> m])
Pop(p)    == table' = IF On(p) THEN RemoveAt(table, Find(p)) ELSE table

\* What the top of a path is served by, and what stat says of the target.
Dead(p)    == On(p) /\ table[Find(p)].minor \notin {0, client}
Serves(p)  == On(p) /\ client # 0 /\ table[Find(p)].minor = client
Corrupted  == dir /\ Dead("target")

Wanted == pc \notin {"umount", "cleanup", "remove", "done", "gone"}

Fault == faults < MaxFaults /\ faults' = faults + 1

-----------------------------------------------------------------------------
(* NodePublishVolume.                                                      *)

NodePublishVolume ==
  /\ pc \in {"idle", "published"}
  /\ pc' = "create"
  /\ UNCHANGED <<table, dir, client, started, ref, bound, rec, src, races, faults>>

\* One turn of the loop: a corrupted mount is taken off and looked at again.
CreateTarget ==
  /\ pc = "create"
  /\ IF Corrupted
     THEN Pop("target") /\ UNCHANGED <<dir, pc>>
     ELSE dir' = TRUE /\ pc' = "mount" /\ UNCHANGED table
  /\ UNCHANGED <<client, started, ref, bound, rec, src, races, faults>>

\* JfsMount and CreateVol: the reference is added and the client waited for.  That the
\* reference cannot be written is not noticed.
JfsMount ==
  /\ pc = "mount" /\ Serves("mountPath")
  /\ pc' = "check"
  /\ \/ ref' = TRUE /\ UNCHANGED faults
     \/ Fault /\ UNCHANGED ref
  /\ UNCHANGED <<table, dir, client, started, bound, rec, src, races>>

\* Variant: the minors are compared without asking whether there is a mount on the target.
checkBindAndMountUnasked ==
  /\ pc = "check"
  /\ LET mountMinor  == table[Find("mountPath")].minor
         targetMinor == Last(table).minor
     IN pc' = IF ~On("mountPath") THEN "idle"
              ELSE IF targetMinor = mountMinor THEN "published"
              ELSE "unbind"
  /\ bound' = On("target")
  /\ UNCHANGED <<table, dir, client, started, ref, rec, src, races, faults>>

\* checkBindAndMount reads the table.  targetMinor points at the loop's variable,
\* so it is the minor of the LAST entry of the whole table that is compared.
checkBindAndMount ==
  /\ pc = "check"
  /\ LET mountMinor  == table[Find("mountPath")].minor
         targetMinor == Last(table).minor
     IN pc' = IF ~On("mountPath") THEN "idle"
              ELSE IF On("target") /\ targetMinor = mountMinor THEN "published"
              ELSE "unbind"
  /\ bound' = On("target")
  /\ UNCHANGED <<table, dir, client, started, ref, rec, src, races, faults>>

UmountPath ==
  /\ pc = "unbind"
  /\ IF bound THEN Pop("target") ELSE UNCHANGED table
  /\ pc' = "bind"
  /\ UNCHANGED <<dir, client, started, ref, bound, rec, src, races, faults>>

\* The bind mount, of what the mount path shows: it fails on a dead client, and
\* then the target is removed where nothing is mounted on it.
Mount ==
  /\ pc = "bind"
  /\ IF dir /\ Serves("mountPath")
     THEN Add("target", client) /\ pc' = "published" /\ UNCHANGED dir
     ELSE dir' = (dir /\ On("target")) /\ pc' = "idle" /\ UNCHANGED table
  /\ UNCHANGED <<client, started, ref, bound, rec, src, races, faults>>

\* stat takes too long, or JfsMount fails, before or after it has added the reference:
\* the request is repeated.
PublishFails ==
  /\ pc \in {"create", "mount"} /\ Fault
  /\ pc' = "idle"
  /\ ref' \in IF pc = "mount" THEN {ref, TRUE} ELSE {ref}
  /\ UNCHANGED <<table, dir, client, started, bound, rec, src, races>>

-----------------------------------------------------------------------------
(* NodeUnpublishVolume, until it succeeds.                                 *)

NodeUnpublishVolume ==
  /\ pc \in {"idle", "published"}
  /\ pc' = "umount"
  /\ UNCHANGED <<table, dir, client, started, ref, bound, rec, src, races, faults>>

\* Variant: a mount that is in use is left to CleanupMountPoint as well.
UmountLoopNotLazy ==
  /\ pc = "umount"
  /\ \/ On("target") /\ Pop("target") /\ UNCHANGED pc
     \/ On("target") /\ UNCHANGED table /\ pc' = "cleanup"
     \/ ~On("target") /\ pc' = "cleanup" /\ UNCHANGED table
  /\ UNCHANGED <<dir, client, started, ref, bound, rec, src, races, faults>>

\* umount, again and again until nothing is mounted; where a mount is in use it is
\* detached lazily, and what may lie below it is left to CleanupMountPoint.
UmountLoop ==
  /\ pc = "umount"
  /\ \/ On("target") /\ Pop("target") /\ UNCHANGED pc
     \/ On("target") /\ Pop("target") /\ pc' = "cleanup"
     \/ ~On("target") /\ pc' = "cleanup" /\ UNCHANGED table
  /\ UNCHANGED <<dir, client, started, ref, bound, rec, src, races, faults>>

\* Variant: a target that is no longer mounted is left as it is.
CleanupMountPointKeepsDir ==
  /\ pc = "cleanup"
  /\ Pop("target") /\ pc' = "done"
  /\ UNCHANGED <<dir, client, started, ref, bound, rec, src, races, faults>>

\* CleanupMountPoint: one mount more is taken off (not, if it is in use) ...
CleanupMountPoint ==
  /\ pc = "cleanup"
  /\ \/ ~dir /\ pc' = "done" /\ UNCHANGED table
     \/ dir /\ Pop("target") /\ pc' = "remove"
     \/ dir /\ On("target") /\ pc' = "umount" /\ UNCHANGED table
  /\ UNCHANGED <<dir, client, started, ref, bound, rec, src, races, faults>>

\* ... and the directory removed, unless it is a mount point even so.
RemoveTarget ==
  /\ pc = "remove"
  /\ dir' = On("target")
  /\ pc' = IF On("target") THEN "umount" ELSE "done"
  /\ UNCHANGED <<table, client, started, ref, bound, rec, src, races, faults>>

\* JUmount: the reference goes with the target.
JUmount ==
  /\ pc = "done"
  /\ ref' = FALSE /\ pc' = "gone"
  /\ UNCHANGED <<table, dir, client, started, bound, rec, src, races, faults>>

\* umount -l, GetUniqueId or JUmount fails: the request is repeated.
UnpublishFails ==
  /\ pc \in {"umount", "done"} /\ Fault
  /\ pc' = "umount"
  /\ UNCHANGED <<table, dir, client, started, ref, bound, rec, src, races>>

-----------------------------------------------------------------------------
(* podReadyHandler, in a round of the reconciler that may have seen the    *)
(* reference before it was removed.  Rounds are seconds apart, and the     *)
(* umounts of an unpublishing are not: few rounds fall between them.       *)

\* The directory of the volume, below the mount path, is the source if it can be read;
\* it is missing where nothing is mounted.
podReadyHandler ==
  /\ rec = "source" /\ (ref \/ pc = "gone")
  /\ \/ Serves("mountPath") /\ rec' = "stat" /\ src' = "volume"
     \/ ~On("mountPath") /\ rec' = "fallback" /\ UNCHANGED src
  /\ IF Wanted THEN UNCHANGED races ELSE races < MaxRaces /\ races' = races + 1
  /\ UNCHANGED <<table, dir, client, started, ref, pc, bound, faults>>

\* It is missing: the mount path is taken instead, whatever it is.
RecoverFallback ==
  /\ rec = "fallback"
  /\ IF Dead("mountPath") THEN rec' = "source" /\ UNCHANGED src
                           ELSE rec' = "stat" /\ src' = "mntPath"
  /\ UNCHANGED <<table, dir, client, started, ref, pc, bound, races, faults>>

\* Variant: only a target that is missing is recovered.
RecoverStatMissing ==
  /\ rec = "stat"
  /\ rec' = IF ~dir THEN "bind" ELSE "source"
  /\ UNCHANGED <<table, dir, client, started, ref, pc, bound, src, races, faults>>

\* The target is there, but dead.
RecoverStat ==
  /\ rec = "stat"
  /\ rec' = IF Corrupted THEN "bind" ELSE "source"
  /\ UNCHANGED <<table, dir, client, started, ref, pc, bound, src, races, faults>>

\* What the source shows by then: the client that is mounted there, or, of a mount path
\* where nothing is mounted, the disk of the node.
SourceMinor ==
  IF Serves("mountPath") THEN {client}
  ELSE IF src = "mntPath" /\ ~On("mountPath") THEN {0} ELSE {}

\* The bind mount goes on top of what the target shows; an error is only logged.
RecoverBind ==
  /\ rec = "bind"
  /\ IF dir /\ SourceMinor # {} THEN \E m \in SourceMinor : Add("target", m) ELSE UNCHANGED table
  /\ rec' = "source"
  /\ UNCHANGED <<dir, client, started, ref, pc, bound, src, races, faults>>

-----------------------------------------------------------------------------
(* The mount pod and the other mounts of the node.                         *)

ClientDies ==
  /\ client # 0
  /\ client' = 0
  /\ UNCHANGED <<table, dir, started, ref, pc, bound, rec, src, races, faults>>

\* podDeletedHandler unmounts the mount path and deploys the mount pod again, with the
\* annotations its round had read: they may be older than the reference.
podDeletedHandler ==
  /\ client = 0 /\ On("mountPath") /\ Pop("mountPath")
  /\ ref' \in {ref, FALSE}
  /\ UNCHANGED <<dir, client, started, pc, bound, rec, src, races, faults>>

\* Variant: a client starts over the dead mount of the one before.
ClientStartsOver ==
  /\ client = 0 /\ started < MaxClients
  /\ client' = started + 1 /\ started' = started + 1
  /\ Add("mountPath", started + 1)
  /\ UNCHANGED <<dir, ref, pc, bound, rec, src, races, faults>>

\* A client mounts, in a mount pod that may have counted as ready for a while.
ClientStarts ==
  /\ client = 0 /\ started < MaxClients /\ ~On("mountPath")
  /\ client' = started + 1 /\ started' = started + 1
  /\ Add("mountPath", started + 1)
  /\ UNCHANGED <<dir, ref, pc, bound, rec, src, races, faults>>

OtherMount ==
  /\ IF On("other") THEN Pop("other") ELSE Add("other", 0)
  /\ UNCHANGED <<dir, client, started, ref, pc, bound, rec, src, races, faults>>

-----------------------------------------------------------------------------
Init ==
  /\ table = <<>>
  /\ dir = FALSE /\ ref = FALSE /\ bound = FALSE
  /\ client = 0 /\ started = 0 /\ faults = 0 /\ races = 0
  /\ pc = "idle" /\ rec = "source" /\ src = "volume"

Publish   == CreateTarget \/ JfsMount \/ checkBindAndMount \/ UmountPath \/ Mount
Unpublish == UmountLoop \/ CleanupMountPoint \/ RemoveTarget \/ JUmount
Recover   == podReadyHandler \/ RecoverFallback \/ RecoverStat \/ RecoverBind

Next ==
  \/ NodePublishVolume \/ NodeUnpublishVolume
  \/ Publish \/ Unpublish \/ PublishFails \/ UnpublishFails
  \/ Recover
  \/ ClientDies \/ podDeletedHandler \/ ClientStarts \/ OtherMount

Spec == Init /\ [][Next]_vars

\* The last client that is started may stay; kubelet repeats what failed, handlers
\* and the rounds of the reconciler go on.
Fairness ==
  /\ WF_vars(Publish) /\ WF_vars(Unpublish)
  /\ WF_vars(pc = "idle" /\ (NodePublishVolume \/ NodeUnpublishVolume))
  /\ WF_vars(Recover) /\ WF_vars(podDeletedHandler) /\ WF_vars(ClientStarts)

FairSpec == Spec /\ Fairness

-----------------------------------------------------------------------------
\* Every variable has its type, and the table has at most one mount at the mount path.
TypeOK ==
  /\ table \in Seq(Entry)
  /\ \A i, j \in 1..Len(table) : table[i].at = "mountPath" /\ table[j].at = "mountPath" => i = j
  /\ {dir, ref, bound} \subseteq BOOLEAN
  /\ client \in {0, started} /\ started \in 0..MaxClients
  /\ pc \in {"idle", "create", "mount", "check", "unbind", "bind", "published",
             "umount", "cleanup", "remove", "done", "gone"}
  /\ rec \in {"source", "fallback", "stat", "bind"} /\ src \in {"volume", "mntPath"}
  /\ faults \in 0..MaxFaults /\ races \in 0..MaxRaces

\* After the success of NodeUnpublishVolume nothing is mounted on the target and its
\* directory is gone, whatever was stacked there, whatever was in use, and although
\* podReadyHandler may have decided to bind the target again just before.
UnpublishedIsClean == pc \in {"done", "gone"} => ~dir /\ ~On("target")

\* As long as a target counts as published something is mounted on its directory,
\* whatever clients, recoveries and other mounts come and go: a client, live or dead, or
\* what the recovery's fallback has put on top of it.
PublishedIsMounted == pc = "published" => dir /\ On("target")

\* A published target is not left dead: checkBindAndMount may take a dead binding for the
\* right one, but the pod driver's recovery binds it again, to the next client or, by its
\* fallback, to the bare mount path, as long as its reference is with the mount pod.
TargetHeals ==
  (pc = "published" /\ Corrupted) ~>
     (~Corrupted \/ ~Wanted \/ ~ref \/ (client = 0 /\ started = MaxClients))

\* Every NodeUnpublishVolume ends, with busy mounts, dead clients and mounts stacked on
\* one another by recovery.
UnpublishEnds == (pc = "umount") ~> (pc = "gone")

\* Where checkBindAndMount is content, the target is bound to the client at the mount
\* path ("target already binded mountpath").
AlreadyBound == [][pc = "check" /\ pc' = "published" =>
                      table[Find("target")].minor = table[Find("mountPath")].minor]_vars

=============================================================================
