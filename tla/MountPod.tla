------------------------------ MODULE MountPod ------------------------------
(***************************************************************************)
(* One mount pod of one node, shared by the application pods that use the  *)
(* volume: NodePublishVolume and NodeUnpublishVolume of pkg/driver,        *)
(* PodMount of pkg/juicefs/mount, and the PodDriver of pkg/controller that *)
(* the reconciler runs over the mount pod.                                 *)
(*                                                                         *)
(* A target is the CSI target path of one application pod; the reference   *)
(* annotation "mosfs-<sha of target>" is named by the target itself.       *)
(* Every call on the API server is one step: it addresses the mount pod by *)
(* NAME, with no UID or resourceVersion precondition (client.go:129-142).  *)
(* A mutex is held exactly while its holder's program counter is inside    *)
(* the locked section, so the holders are derived from the counters.       *)
(***************************************************************************)
EXTENDS Naturals, FiniteSets

CONSTANTS
  Targets,          \* the target paths (one application pod each)
  Delayed,          \* may mountpod/mount-delete-delay be given (TRUE) or not (FALSE)?
  HasResources,     \* does the mount pod have resource requests?
  ShareMount,       \* STORAGE_CLASS_SHARE_MOUNT: one mount pod per StorageClass?
  Churn,            \* are application pods deleted while the system runs?
  Faults,           \* the kinds of fault that may happen
  MaxFaults         \* bound on the number of faults

DelayKey == "mosfs-delete-delay"
AtKey    == "mosfs-delete-at"

Keys     == Targets \cup {DelayKey, AtKey}

FaultKinds == {"api", "client", "plugin", "kubelet", "late", "force", "slow", "resources",
               "umount"}

ASSUME TargetsAssumption == Targets \cap {DelayKey, AtKey} = {}
ASSUME ConfigAssumption ==
  /\ Delayed \subseteq BOOLEAN
  /\ {HasResources, ShareMount, Churn} \subseteq BOOLEAN
  /\ Faults \subseteq FaultKinds
  /\ MaxFaults \in Nat

VARIABLES
  pod,    \* the mount pod object in the API server, with its container's phase
  mnt,    \* what is mounted at the mount path: none, a live or a dead client
  bind,   \* bind[t]: what the target path t shows
  app,    \* app[t]: the application pod that owns t
  pub,    \* pub[t]: program counter of NodePublishVolume for t
  ann,    \* ann[t]: the annotation map AddRefOfMount is about to write
  unp,    \* unp[t]: program counter of NodeUnpublishVolume for t
  rec,    \* the reconciler: counter, pod snapshot, application pods it listed
  faults  \* how many faults have happened

vars == <<pod, mnt, bind, app, pub, ann, unp, rec, faults>>

-----------------------------------------------------------------------------
(* The mount pod object and the API server's answers (external).           *)

Phases == {"none", "pending", "starting", "serving", "failed", "succeeded", "outof"}
Pod == [exists: BOOLEAN, deleting: BOOLEAN, fin: BOOLEAN, res: BOOLEAN,
        phase: Phases, annos: SUBSET Keys]

NoPod == [exists |-> FALSE, deleting |-> FALSE, fin |-> FALSE, res |-> FALSE,
          phase |-> "none", annos |-> {}]

\* NewMountPod, and the copies the handlers deploy: always with the finalizer.
MountPodWith(annos, res) ==
  [exists |-> TRUE, deleting |-> FALSE, fin |-> TRUE, res |-> res,
   phase |-> "pending", annos |-> annos]

\* A JSON patch that removes keys fails when one is absent; one that replaces
\* the annotation map or the finalizer list does not.  Every call but a create
\* fails on a pod that does not exist, and a create leaves an existing pod alone.
CanRemove(ks) == pod.exists /\ ks \subseteq pod.annos

CreatePod(annos, res) ==
  pod' = IF pod.exists THEN pod ELSE MountPodWith(annos, res)
DeletePod == pod' = [pod EXCEPT !.deleting = TRUE]

-----------------------------------------------------------------------------
(* References on the pod.                                                  *)

Refs(p) == p.annos \cap Targets

\* hasRef looks at the prefix "mosfs-" only, which the delay keys share.
hasRef(p) == p.annos \cap (Targets \cup {DelayKey, AtKey}) # {}

-----------------------------------------------------------------------------
(* The two locks: jfsConfig.JLock and the lock of this pod's name.         *)

InPodLock(t) == pub[t] \in {"get", "addRef", "replace", "ready"}

RecInPodLock == rec.pc \in {"wait", "errDelete", "errWait"}
PodLockFree  == ~RecInPodLock /\ \A t \in Targets : ~InPodLock(t)

PubInJLock(t) == pub[t] = "replace"

\* Variant: JUmount drops its reference outside JLock.
UnpDelRefUnlocked(t) == unp[t] = "delete"

UnpInJLock(t) == unp[t] \in {"remove", "delete"}
JLockFree     == \A t \in Targets : ~PubInJLock(t) /\ ~UnpInJLock(t)

Fault(kind) ==
  /\ kind \in Faults
  /\ faults < MaxFaults
  /\ faults' = faults + 1

-----------------------------------------------------------------------------
(* NodePublishVolume(t).                                                   *)

\* CreateTarget: a corrupted target is unmounted, a missing one is created.
CreateTarget(t) ==
  bind' = [bind EXCEPT ![t] = IF @ \in {"absent", "dead"} THEN "dir" ELSE @]

NodePublishVolume(t) ==
  /\ app[t] = "live"
  /\ pub[t] = "idle"
  /\ CreateTarget(t)
  /\ pub' = [pub EXCEPT ![t] = "lock"]
  /\ UNCHANGED <<pod, mnt, app, ann, unp, rec, faults>>

\* The kubelet restarts and publishes again what is already published.
Republish(t) ==
  /\ app[t] = "live"
  /\ pub[t] = "ok"
  /\ Fault("kubelet")
  /\ CreateTarget(t)
  /\ pub' = [pub EXCEPT ![t] = "lock"]
  /\ UNCHANGED <<pod, mnt, app, ann, unp, rec>>

waitUntilMount(t) ==
  /\ pub[t] = "lock"
  /\ PodLockFree
  /\ pub' = [pub EXCEPT ![t] = "get"]
  /\ UNCHANGED <<pod, mnt, bind, app, ann, unp, rec, faults>>

\* Get finds no pod: create it, with its first reference and the delay of this
\* publish's volume, if it has one, and look again.  No one else creates the pod
\* while the pod lock is held.
CreateMountPod(t) ==
  /\ pub[t] = "get"
  /\ ~pod.exists
  /\ \E delayed \in Delayed :
       CreatePod({t} \cup (IF delayed THEN {DelayKey} ELSE {}), HasResources)
  /\ UNCHANGED <<mnt, bind, app, pub, ann, unp, rec, faults>>

\* Variant: a pod that exists is taken to have the reference already.
CheckMountPodNoAddRef(t) ==
  /\ pub[t] = "get"
  /\ pod.exists /\ ~pod.deleting
  /\ pub' = [pub EXCEPT ![t] = "ready"]
  /\ UNCHANGED <<pod, mnt, bind, app, ann, unp, rec, faults>>

\* Get finds a pod: go on unless it is being deleted.
CheckMountPod(t) ==
  /\ pub[t] = "get"
  /\ pod.exists /\ ~pod.deleting
  /\ pub' = [pub EXCEPT ![t] = "addRef"]
  /\ UNCHANGED <<pod, mnt, bind, app, ann, unp, rec, faults>>

\* The loop runs out while the old pod is still being deleted.
WaitLoopTimeout(t) ==
  /\ pub[t] = "get"
  /\ pod.exists /\ pod.deleting
  /\ pub' = [pub EXCEPT ![t] = "idle"]
  /\ UNCHANGED <<pod, mnt, bind, app, ann, unp, rec, faults>>

\* Variant: the map is started afresh.
AddRefGetFresh(t) ==
  /\ pub[t] = "addRef"
  /\ JLockFree
  /\ LET new == pod.exists /\ t \notin pod.annos
     IN /\ pub' = [pub EXCEPT ![t] = IF new THEN "replace" ELSE IF pod.exists THEN "ready" ELSE "idle"]
        /\ ann' = [ann EXCEPT ![t] = IF new THEN {t} ELSE {}]
  /\ UNCHANGED <<pod, mnt, bind, app, unp, rec, faults>>

\* AddRefOfMount, first half: read the annotations under JLock.
AddRefGet(t) ==
  /\ pub[t] = "addRef"
  /\ JLockFree
  /\ \/ /\ ~pod.exists
        /\ pub' = [pub EXCEPT ![t] = "idle"]
        /\ UNCHANGED ann
     \/ /\ pod.exists /\ t \in pod.annos
        /\ pub' = [pub EXCEPT ![t] = "ready"]
        /\ UNCHANGED ann
     \/ /\ pod.exists /\ t \notin pod.annos
        /\ pub' = [pub EXCEPT ![t] = "replace"]
        /\ ann' = [ann EXCEPT ![t] = (pod.annos \cup {t}) \ {AtKey}]
  /\ UNCHANGED <<pod, mnt, bind, app, unp, rec, faults>>

\* AddRefOfMount, second half: replace the whole map.  An error other than a
\* conflict is swallowed, so a pod that is gone by now makes no difference.
AddRefReplace(t) ==
  /\ pub[t] = "replace"
  /\ pod' = IF pod.exists THEN [pod EXCEPT !.annos = ann[t]] ELSE pod
  /\ ann' = [ann EXCEPT ![t] = {}]
  /\ pub' = [pub EXCEPT ![t] = "ready"]
  /\ UNCHANGED <<mnt, bind, app, unp, rec, faults>>

\* The mount path shows the root of a live client, or the 30 seconds run out: where a
\* pod is on its way up, or a client is mounted but does not answer the stat in time,
\* only if the node is slow.
waitUtilMountReady(t) ==
  /\ pub[t] = "ready"
  /\ \/ /\ mnt = "live"
        /\ pub' = [pub EXCEPT ![t] = "bind"]
        /\ UNCHANGED faults
     \/ /\ pub' = [pub EXCEPT ![t] = "idle"]
        /\ IF mnt = "live" \/ pod.phase \in {"pending", "starting"}
           THEN Fault("slow") ELSE UNCHANGED faults
  /\ UNCHANGED <<pod, mnt, bind, app, ann, unp, rec>>

\* CreateVol and checkBindAndMount.  Both fail unless a live client is mounted,
\* and the bind fails on a target that has been removed.  For a target that is
\* in the mount table the minor it compares is that of the LAST entry of the
\* table (node.go:178 keeps a pointer to the loop variable), so the target may
\* be left as it is or be unmounted and bound again.
checkBindAndMount(t) ==
  /\ pub[t] = "bind"
  /\ \/ /\ mnt = "live" /\ bind[t] # "absent"
        /\ pub' = [pub EXCEPT ![t] = "ok"]
        /\ \/ bind' = [bind EXCEPT ![t] = "live"]
           \/ bind[t] # "dir" /\ UNCHANGED bind
     \/ /\ mnt # "live" \/ bind[t] = "absent"
        /\ pub' = [pub EXCEPT ![t] = "idle"]
        /\ UNCHANGED bind
  /\ UNCHANGED <<pod, mnt, app, ann, unp, rec, faults>>

-----------------------------------------------------------------------------
(* NodeUnpublishVolume(t) and JUmount.  An error goes back to the kubelet, *)
(* which calls again.                                                      *)

\* The umount loop and CleanupMountPoint leave no mount and no directory.
Unmount(t) ==
  /\ unp[t] = "idle"
  /\ app[t] \in {"term", "gone"}
  /\ bind' = [bind EXCEPT ![t] = "absent"]
  /\ unp' = [unp EXCEPT ![t] = "get"]
  /\ UNCHANGED <<pod, mnt, app, pub, ann, rec>>

NodeUnpublishVolume(t) ==
  /\ pub[t] \in {"idle", "ok"}
  /\ Unmount(t)
  /\ UNCHANGED faults

\* The kubelet gave up on a publish call that is still running.
UnpublishBeforeLatePublish(t) ==
  /\ pub[t] \notin {"idle", "ok"}
  /\ Fault("late")
  /\ Unmount(t)

JUmountGet(t) ==
  /\ unp[t] = "get"
  /\ unp' = [unp EXCEPT ![t] = IF pod.exists THEN "delRef" ELSE "done"]
  /\ UNCHANGED <<pod, mnt, bind, app, pub, ann, rec, faults>>

\* Under JLock: read the pod again, and drop the reference if it is there.
DelRefGet(t) ==
  /\ unp[t] = "delRef"
  /\ JLockFree
  /\ \/ ~pod.exists /\ unp' = [unp EXCEPT ![t] = "idle"]
     \/ pod.exists /\ t \notin pod.annos /\ unp' = [unp EXCEPT ![t] = "check"]
     \/ pod.exists /\ t \in pod.annos /\ unp' = [unp EXCEPT ![t] = "remove"]
  /\ UNCHANGED <<pod, mnt, bind, app, pub, ann, rec, faults>>

DelRefRemove(t) ==
  /\ unp[t] = "remove"
  /\ \/ /\ CanRemove({t})
        /\ pod' = [pod EXCEPT !.annos = @ \ {t}]
        /\ unp' = [unp EXCEPT ![t] = "check"]
     \/ /\ ~CanRemove({t})
        /\ unp' = [unp EXCEPT ![t] = "idle"]
        /\ UNCHANGED pod
  /\ UNCHANGED <<mnt, bind, app, pub, ann, rec, faults>>

CheckRefs(t) ==
  /\ unp[t] = "check"
  /\ \/ ~pod.exists /\ unp' = [unp EXCEPT ![t] = "idle"]
     \/ pod.exists /\ hasRef(pod) /\ unp' = [unp EXCEPT ![t] = "done"]
     \/ pod.exists /\ ~hasRef(pod) /\ unp' = [unp EXCEPT ![t] = "delPod"]
  /\ UNCHANGED <<pod, mnt, bind, app, pub, ann, rec, faults>>

\* deleteMountPod, under JLock.  A pod with a delete delay always "has refs",
\* so ShouldDelay is false whenever it is reached here.
DelPodGet(t) ==
  /\ unp[t] = "delPod"
  /\ JLockFree
  /\ \/ ~pod.exists /\ unp' = [unp EXCEPT ![t] = "idle"]
     \/ pod.exists /\ hasRef(pod) /\ unp' = [unp EXCEPT ![t] = "done"]
     \/ pod.exists /\ ~hasRef(pod) /\ unp' = [unp EXCEPT ![t] = "delete"]
  /\ UNCHANGED <<pod, mnt, bind, app, pub, ann, rec, faults>>

DelPodDelete(t) ==
  /\ unp[t] = "delete"
  /\ \/ /\ pod.exists
        /\ DeletePod
        /\ unp' = [unp EXCEPT ![t] = "done"]
     \/ /\ ~pod.exists
        /\ unp' = [unp EXCEPT ![t] = "idle"]
        /\ UNCHANGED pod
  /\ UNCHANGED <<mnt, bind, app, pub, ann, rec, faults>>

-----------------------------------------------------------------------------
(* One round of the reconciler over the mount pod: PodController.Reconcile *)
(* (or doReconcile) and PodDriver.Run.                                     *)

\* What a round holds: the pod it has read, the application pods it has listed, and in
\* podReadyHandler the source of the binds, the targets still to be looked at and the
\* one that was found dead.
Round == [pc: {"idle", "list", "run", "patch", "checked", "handle", "recover",
              "wait", "errDelete", "errWait", "fallback", "targets", "bind"},
          snap: Pod, seen: SUBSET Targets,
          src: {"none", "volume", "mntPath"}, todo: SUBSET Targets, dead: SUBSET Targets]
NoRound == [pc |-> "idle", snap |-> NoPod, seen |-> {},
            src |-> "none", todo |-> {}, dead |-> {}]
RecGoto(pc) == rec' = [rec EXCEPT !.pc = pc]
RoundOver   == rec' = NoRound
RecLocal    == UNCHANGED <<mnt, bind, app, pub, ann, unp, faults>>

ReconcileGet ==
  /\ rec.pc = "idle"
  /\ pod.exists
  /\ rec' = [NoRound EXCEPT !.pc = "list", !.snap = pod]
  /\ UNCHANGED pod /\ RecLocal

\* Variant: an application pod counts only once its volume is published.
ReconcileListRunning ==
  /\ rec.pc = "list"
  /\ rec' = [rec EXCEPT !.pc = "run",
       !.seen = {t \in Targets : app[t] \in {"live", "term"} /\ pub[t] = "ok"}]
  /\ UNCHANGED pod /\ RecLocal

ReconcileList ==
  /\ rec.pc = "list"
  /\ rec' = [rec EXCEPT !.pc = "run", !.seen = {t \in Targets : app[t] \in {"live", "term"}}]
  /\ UNCHANGED pod /\ RecLocal

\* What Run derives from the snapshot and the list.
StaleRefs    == Refs(rec.snap) \ rec.seen
ExistTargets == Refs(rec.snap) \cap rec.seen
DelAnnos     == StaleRefs \cup
                IF ExistTargets # {} THEN rec.snap.annos \cap {AtKey} ELSE {}

\* Run, lines 94-105: the annotations to delete are there, and the pod read
\* now must have as many references as the snapshot.
RunCheck ==
  /\ rec.pc = "run"
  /\ DelAnnos # {}
  /\ IF pod.exists /\ Cardinality(Refs(pod)) = Cardinality(Refs(rec.snap))
     THEN RecGoto("patch") ELSE RoundOver
  /\ UNCHANGED pod /\ RecLocal

RunPatch ==
  /\ rec.pc = "patch"
  /\ \/ /\ CanRemove(DelAnnos)
        /\ pod' = [pod EXCEPT !.annos = @ \ DelAnnos]
        /\ RecGoto("checked")
     \/ /\ ~CanRemove(DelAnnos)
        /\ RoundOver
        /\ UNCHANGED pod
  /\ RecLocal

Checked == rec.pc = "checked" \/ (rec.pc = "run" /\ DelAnnos = {})
Unused  == ExistTargets = {} /\ ~rec.snap.deleting

\* Nothing in the snapshot needs the pod and no delay holds it: delete it.  A
\* delete-at time that is set may have passed or not.
RunDelete ==
  /\ Checked /\ Unused
  /\ DelayKey \in rec.snap.annos => AtKey \in rec.snap.annos
  /\ IF pod.exists THEN DeletePod ELSE UNCHANGED pod
  /\ RoundOver
  /\ RecLocal

\* ShouldDelay notes the time to delete at, and the pod is handled as usual.
RunDelay ==
  /\ Checked /\ Unused
  /\ DelayKey \in rec.snap.annos /\ AtKey \notin rec.snap.annos
  /\ IF pod.exists
     THEN pod' = [pod EXCEPT !.annos = @ \cup {AtKey}] /\ RecGoto("handle")
     ELSE RoundOver /\ UNCHANGED pod
  /\ RecLocal

RunStillDelayed ==
  /\ Checked /\ Unused
  /\ {DelayKey, AtKey} \subseteq rec.snap.annos
  /\ RecGoto("handle")
  /\ UNCHANGED pod /\ RecLocal

-----------------------------------------------------------------------------
(* The handlers of PodDriver, chosen by the status of the SNAPSHOT.        *)

\* The mount pod has no readiness probe: it is Ready as soon as its container runs,
\* with or without the client having mounted.
Handling(status) ==
  /\ rec.pc = "handle" \/ (Checked /\ ~Unused)
  /\ status = IF rec.snap.deleting THEN "podDeleted" ELSE
              CASE rec.snap.phase \in {"failed", "outof"} -> "podError"
                [] rec.snap.phase \in {"starting", "serving"} -> "podReady"
                [] OTHER -> "podPending"

\* Variant: a pod without references keeps its finalizer.
podDeletedHandlerRefsOnly ==
  /\ Handling("podDeleted")
  /\ IF rec.snap.fin /\ rec.snap.phase # "outof" /\ pod.exists /\ Refs(rec.snap) # {}
     THEN pod' = [pod EXCEPT !.fin = FALSE] /\ RecGoto("recover")
     ELSE RoundOver /\ UNCHANGED pod
  /\ RecLocal

\* podDeletedHandler up to the lock: take the finalizer off the pod of this
\* name, and go on to recovery if the snapshot has references.
podDeletedHandler ==
  /\ Handling("podDeleted")
  /\ IF rec.snap.fin /\ rec.snap.phase # "outof" /\ pod.exists
     THEN /\ pod' = [pod EXCEPT !.fin = FALSE]
          /\ IF Refs(rec.snap) # {} THEN RecGoto("recover") ELSE RoundOver
     ELSE RoundOver /\ UNCHANGED pod
  /\ RecLocal

\* Variant: the dead mount is left in place.
RecoverNoUmount ==
  /\ rec.pc = "recover"
  /\ PodLockFree
  /\ RecGoto("wait")
  /\ UNCHANGED <<pod, mnt, bind, app, pub, ann, unp, faults>>

\* Under the pod lock: unmount the mount path.  That the umount fails, and the lazy one
\* after it, is only logged.
RecoverUmount ==
  /\ rec.pc = "recover"
  /\ PodLockFree
  /\ \/ mnt' = "none" /\ UNCHANGED faults
     \/ Fault("umount") /\ UNCHANGED mnt
  /\ RecGoto("wait")
  /\ UNCHANGED <<pod, bind, app, pub, ann, unp>>

\* Variant: the annotations are not copied to the new pod.
RecoverCreateBare ==
  /\ rec.pc = "wait"
  /\ ~pod.exists
  /\ CreatePod({}, rec.snap.res)
  /\ RoundOver
  /\ RecLocal

\* The deferred function: once the pod is gone, deploy the snapshot again.
RecoverCreate ==
  /\ rec.pc = "wait"
  /\ ~pod.exists
  /\ CreatePod(rec.snap.annos, rec.snap.res)
  /\ RoundOver
  /\ RecLocal

\* A pod of this name outlasts either handler's wait: one that is not being
\* deleted or still has its finalizer always does (no one else takes it off),
\* any other only if the kubelet is slow.  Creating a pod that exists is no error.
RecoverTimeout ==
  /\ rec.pc \in {"wait", "errWait"}
  /\ pod.exists
  /\ IF pod.deleting /\ ~pod.fin THEN Fault("slow") ELSE UNCHANGED faults
  /\ RoundOver
  /\ UNCHANGED <<pod, mnt, bind, app, pub, ann, unp>>

\* podErrorHandler, no resource error: delete the pod if its mount is broken.
podErrorHandler ==
  /\ Handling("podError") /\ rec.snap.phase = "failed"
  /\ PodLockFree
  /\ IF mnt # "live" /\ pod.exists THEN DeletePod ELSE UNCHANGED pod
  /\ RoundOver
  /\ RecLocal

\* podErrorHandler, resource error: without requests there is nothing to do;
\* with requests the pod is deployed again without them.
ResourceError ==
  /\ Handling("podError") /\ rec.snap.phase = "outof"
  /\ PodLockFree
  /\ IF rec.snap.res /\ pod.exists
     THEN pod' = [pod EXCEPT !.fin = FALSE] /\ RecGoto("errDelete")
     ELSE RoundOver /\ UNCHANGED pod
  /\ RecLocal

ResourceErrorDelete ==
  /\ rec.pc = "errDelete"
  /\ IF pod.exists THEN DeletePod /\ RecGoto("errWait") ELSE RoundOver /\ UNCHANGED pod
  /\ RecLocal

ResourceErrorCreate ==
  /\ rec.pc = "errWait"
  /\ ~pod.exists
  /\ CreatePod(rec.snap.annos, FALSE)
  /\ RoundOver
  /\ RecLocal

\* podReadyHandler turns to the references of the snapshot, with a source for the binds.
RecoverFrom(src) ==
  rec' = IF Refs(rec.snap) = {} THEN NoRound
         ELSE [rec EXCEPT !.pc = "targets", !.src = src, !.todo = Refs(rec.snap)]
NextTarget(t) ==
  rec' = IF rec.todo = {t} THEN NoRound
         ELSE [rec EXCEPT !.pc = "targets", !.todo = @ \ {t}, !.dead = {}]

\* podReadyHandler, the stat of the directory of the volume, which it takes to be named
\* as the mount path is.  A shared mount path is named after the storage class, and has
\* no such directory; nor has a mount path at which nothing is mounted.
podReadyHandler ==
  /\ Handling("podReady")
  /\ \/ mnt = "dead" /\ RoundOver
     \/ mnt = "live" /\ ~ShareMount /\ RecoverFrom("volume")
     \/ (mnt = "none" \/ (mnt = "live" /\ ShareMount)) /\ RecGoto("fallback")
  /\ UNCHANGED pod /\ RecLocal

\* The directory is missing: the mount path itself will do if it can be read.
podReadyFallback ==
  /\ rec.pc = "fallback"
  /\ IF mnt = "dead" THEN RoundOver ELSE RecoverFrom("mntPath")
  /\ UNCHANGED pod /\ RecLocal

\* The stat of one target after the other, in any order: one that is there and can be
\* read, or is missing, is passed over.
podReadyStat(t) ==
  /\ rec.pc = "targets" /\ t \in rec.todo
  /\ IF bind[t] = "dead" THEN rec' = [rec EXCEPT !.pc = "bind", !.dead = {t}] ELSE NextTarget(t)
  /\ UNCHANGED pod /\ RecLocal

\* What the source shows when it is bound: the directory of the volume, if the client is
\* still there; of the mount path, the root of the file system, or the bare directory
\* where nothing is mounted.
RecoverySource ==
  CASE mnt = "live" -> {IF rec.src = "volume" THEN "live" ELSE "root"}
    [] mnt = "none" /\ rec.src = "mntPath" -> {"bare"}
    [] OTHER -> {}

\* The bind mount; that it fails, as on a target that was removed, is only logged.
podReadyBind(t) ==
  /\ rec.pc = "bind" /\ t \in rec.dead
  /\ IF RecoverySource = {} \/ bind[t] = "absent" THEN UNCHANGED bind
     ELSE \E shown \in RecoverySource : bind' = [bind EXCEPT ![t] = shown]
  /\ NextTarget(t)
  /\ UNCHANGED <<pod, mnt, app, pub, ann, unp, faults>>

\* Variant: a completed pod is left alone.
podPendingHandlerWaits ==
  /\ Handling("podPending")
  /\ RoundOver
  /\ UNCHANGED pod /\ RecLocal

podPendingHandler ==
  /\ Handling("podPending")
  /\ IF rec.snap.phase = "succeeded" /\ pod.exists THEN DeletePod ELSE UNCHANGED pod
  /\ RoundOver
  /\ RecLocal

-----------------------------------------------------------------------------
(* The kubelet, the client in the mount pod's container, and the           *)
(* application pods (external).                                            *)

\* A pod that asks for more than the node has left is refused admission.
AdmitPod ==
  /\ pod.exists /\ ~pod.deleting /\ pod.phase = "pending"
  /\ \/ pod' = [pod EXCEPT !.phase = "starting"] /\ UNCHANGED faults
     \/ pod.res /\ Fault("resources") /\ pod' = [pod EXCEPT !.phase = "outof"]
  /\ UNCHANGED <<mnt, bind, app, pub, ann, unp, rec>>

\* The client mounts; over a dead mount it fails to start.
ClientMounts ==
  /\ pod.phase = "starting"
  /\ \/ mnt = "dead" /\ pod' = [pod EXCEPT !.phase = "failed"] /\ UNCHANGED mnt
     \/ mnt # "dead" /\ pod' = [pod EXCEPT !.phase = "serving"] /\ mnt' = "live"
  /\ UNCHANGED <<bind, app, pub, ann, unp, rec, faults>>

Corrupt == [t \in Targets |-> IF bind[t] \in {"live", "root"} THEN "dead" ELSE bind[t]]

\* The client exits; RestartPolicy is Never.
ClientExits ==
  /\ pod.phase \in {"starting", "serving"}
  /\ Fault("client")
  /\ \E phase \in {"failed", "succeeded"} : pod' = [pod EXCEPT !.phase = phase]
  /\ mnt' = IF mnt = "live" THEN "dead" ELSE mnt
  /\ bind' = Corrupt
  /\ UNCHANGED <<app, pub, ann, unp, rec>>

\* A client whose file system is mounted nowhere any more has nothing to serve.
ClientEnds ==
  /\ pod.phase = "serving"
  /\ mnt # "live" /\ \A t \in Targets : bind[t] \notin {"live", "root"}
  /\ \E phase \in {"failed", "succeeded"} : pod' = [pod EXCEPT !.phase = phase]
  /\ UNCHANGED <<mnt, bind, app, pub, ann, unp, rec, faults>>

\* A deleted pod is stopped; the preStop hook of NewMountPod unmounts.
TerminatePod ==
  /\ pod.deleting /\ pod.phase \in {"pending", "starting", "serving"}
  /\ pod' = [pod EXCEPT !.phase = "succeeded"]
  /\ mnt' = IF pod.phase = "pending" THEN mnt ELSE "none"
  /\ bind' = IF pod.phase = "serving" THEN Corrupt ELSE bind
  /\ UNCHANGED <<app, pub, ann, unp, rec, faults>>

RemovePod ==
  /\ pod.deleting /\ ~pod.fin /\ pod.phase \in {"failed", "succeeded", "outof"}
  /\ pod' = NoPod
  /\ UNCHANGED <<mnt, bind, app, pub, ann, unp, rec, faults>>

AppCreated(t) ==
  /\ app[t] = "none"
  /\ app' = [app EXCEPT ![t] = "live"]
  /\ UNCHANGED <<pod, mnt, bind, pub, ann, unp, rec, faults>>

AppDeleted(t) ==
  /\ Churn
  /\ app[t] = "live"
  /\ app' = [app EXCEPT ![t] = "term"]
  /\ UNCHANGED <<pod, mnt, bind, pub, ann, unp, rec, faults>>

\* The kubelet lets go of the object once its volume is unpublished; a forced
\* deletion does not wait for that.
AppGone(t) ==
  /\ app[t] = "term"
  /\ IF unp[t] = "done" THEN UNCHANGED faults ELSE Fault("force")
  /\ app' = [app EXCEPT ![t] = "gone"]
  /\ UNCHANGED <<pod, mnt, bind, pub, ann, unp, rec>>

-----------------------------------------------------------------------------
(* Faults of the API server and of the plugin's own process.               *)

\* A call of NodePublishVolume's fails.  AddRefOfMount hides the failure of its
\* patch; everything else fails the publish.
PublishCallFails(t) ==
  /\ pub[t] \in {"get", "addRef", "replace"}
  /\ Fault("api")
  /\ pub' = [pub EXCEPT ![t] = IF @ = "replace" THEN "ready" ELSE "idle"]
  /\ ann' = [ann EXCEPT ![t] = {}]
  /\ UNCHANGED <<pod, mnt, bind, app, unp, rec>>

UnpublishCallFails(t) ==
  /\ unp[t] \notin {"idle", "done"}
  /\ Fault("api")
  /\ unp' = [unp EXCEPT ![t] = "idle"]
  /\ UNCHANGED <<pod, mnt, bind, app, pub, ann, rec>>

\* A failed call ends the round; a failed create is only logged.
ReconcileCallFails ==
  /\ rec.pc \in {"list", "run", "patch", "checked", "handle", "wait", "errDelete", "errWait"}
  /\ Fault("api")
  /\ RoundOver
  /\ UNCHANGED <<pod, mnt, bind, app, pub, ann, unp>>

\* The plugin restarts: its calls and its round are gone, nothing is persisted.
PluginRestarts ==
  /\ Fault("plugin")
  /\ pub' = [t \in Targets |-> IF pub[t] = "ok" THEN "ok" ELSE "idle"]
  /\ ann' = [t \in Targets |-> {}]
  /\ unp' = [t \in Targets |-> IF unp[t] = "done" THEN "done" ELSE "idle"]
  /\ RoundOver
  /\ UNCHANGED <<pod, mnt, bind, app>>

-----------------------------------------------------------------------------
Init ==
  /\ pod = NoPod
  /\ mnt = "none"
  /\ bind = [t \in Targets |-> "absent"]
  /\ app = [t \in Targets |-> "none"]
  /\ pub = [t \in Targets |-> "idle"]
  /\ ann = [t \in Targets |-> {}]
  /\ unp = [t \in Targets |-> "idle"]
  /\ rec = NoRound
  /\ faults = 0

Publish(t) ==
  \/ NodePublishVolume(t) \/ Republish(t) \/ waitUntilMount(t)
  \/ CreateMountPod(t) \/ CheckMountPod(t) \/ WaitLoopTimeout(t)
  \/ AddRefGet(t) \/ AddRefReplace(t) \/ waitUtilMountReady(t)
  \/ checkBindAndMount(t) \/ PublishCallFails(t)

Unpublish(t) ==
  \/ NodeUnpublishVolume(t) \/ UnpublishBeforeLatePublish(t)
  \/ JUmountGet(t) \/ DelRefGet(t) \/ DelRefRemove(t) \/ CheckRefs(t)
  \/ DelPodGet(t) \/ DelPodDelete(t) \/ UnpublishCallFails(t)

Reconcile ==
  \/ ReconcileGet \/ ReconcileList
  \/ RunCheck \/ RunPatch \/ RunDelete \/ RunDelay \/ RunStillDelayed
  \/ podDeletedHandler \/ RecoverUmount \/ RecoverCreate \/ RecoverTimeout
  \/ podErrorHandler \/ ResourceError \/ ResourceErrorDelete \/ ResourceErrorCreate
  \/ podReadyHandler \/ podReadyFallback
  \/ \E t \in Targets : podReadyStat(t) \/ podReadyBind(t)
  \/ podPendingHandler \/ ReconcileCallFails

Environment ==
  \/ AdmitPod \/ ClientMounts \/ ClientExits \/ ClientEnds \/ TerminatePod \/ RemovePod
  \/ \E t \in Targets : AppCreated(t) \/ AppDeleted(t) \/ AppGone(t)
  \/ PluginRestarts

\* Every application pod has come and gone and the node is clean.
Quiet ==
  /\ ~pod.exists /\ rec.pc = "idle"
  /\ \A t \in Targets : app[t] = "gone" /\ unp[t] = "done" /\ pub[t] \in {"idle", "ok"}
  /\ UNCHANGED vars

Next ==
  \/ \E t \in Targets : Publish(t) \/ Unpublish(t)
  \/ Reconcile
  \/ Environment
  \/ Quiet

Spec == Init /\ [][Next]_vars

-----------------------------------------------------------------------------
\* Every variable has its type; in particular a pod carries no annotation but
\* references and the two delay keys, whatever map AddRefOfMount wrote back.
TypeOK ==
  /\ pod \in Pod
  /\ mnt \in {"none", "live", "dead"}
  /\ bind \in [Targets -> {"absent", "dir", "live", "root", "dead", "bare"}]
  /\ app \in [Targets -> {"none", "live", "term", "gone"}]
  /\ pub \in [Targets -> {"idle", "lock", "get", "addRef", "replace", "ready", "bind", "ok"}]
  /\ ann \in [Targets -> SUBSET Keys]
  /\ unp \in [Targets -> {"idle", "get", "delRef", "remove", "check", "delPod", "delete", "done"}]
  /\ rec \in Round
  /\ faults \in 0..MaxFaults

-----------------------------------------------------------------------------
(* What holds on every schedule and through every fault.                   *)

SameObject == pod.exists /\ pod'.exists

KeepsLiveRefs ==
  \A t \in Targets : SameObject /\ app[t] = "live" /\ t \in pod.annos => t \in pod'.annos

\* The reference of an application pod that runs is never taken off the mount
\* pod: not by the whole-map write of another publish (AddRefOfMount), not by
\* JUmount, not by the stale list that PodDriver.Run works from.
LiveRefsKept == [][KeepsLiveRefs]_vars

AddsOwnRef ==
  \A t \in Targets :
    SameObject /\ t \notin pod.annos /\ t \in pod'.annos =>
      pub[t] = "replace" \/ app[t] = "gone"

\* A reference comes onto an existing pod by its own publish only.  The map that
\* AddRefOfMount writes back may bring one back to life, but only one whose
\* application pod is gone: JLock keeps JUmount's removals out, and Run, which
\* takes no lock, removes no other.
RefsAddedByPublish == [][AddsOwnRef]_vars

RefSetOfPod == INSTANCE RefSet WITH exists <- pod.exists, refs <- Refs(pod)

\* The calls of NodePublishVolume, NodeUnpublishVolume and PodDriver.Run, however
\* they interleave and fail, treat the annotations of the mount pod as the set of
\* references that RefSet specifies.
ImplementsRefSet == RefSetOfPod!Spec

\* The map AddRefOfMount has read and is about to write holds every reference
\* that is on the pod by then: nobody adds one, or replaces the pod, meanwhile.
AddRefSeesAllRefs ==
  \A t \in Targets : pub[t] = "replace" /\ pod.exists => Refs(pod) \subseteq ann[t]

LeavesRef ==
  \A t \in Targets :
    app[t] = "live" /\ pub[t] = "ready" /\ pub'[t] = "bind" => pod.exists /\ t \in pod.annos

\* Run deletes the mount pod only when every application pod whose reference it has read
\* is gone for good: neither the time between the two reads, nor removals and publishes
\* beside it, make it take a pod in use for one out of use.  (It deletes by name; a
\* reference that came after it read the pod goes with it.)
RunDeletesUnused == [][RunDelete => \A t \in Refs(rec.snap) : app[t] = "gone"]_vars

NoCallFailed == "api" \in Faults => faults = 0

\* A publish for a running application pod that is let through by waitUtilMountReady
\* finds its reference on the mount pod, as long as no API call has failed: until it
\* leaves the pod lock no unpublish and no round of Run beside it, however stale what
\* it acts on, takes the reference away.
PublishLeavesRef == [][NoCallFailed => LeavesRef]_vars

-----------------------------------------------------------------------------
(* Why these hold: the inductive invariant behind them.                    *)

LocksExclusive ==
  /\ \A t, u \in Targets : InPodLock(t) /\ InPodLock(u) => t = u
  /\ \A t \in Targets : InPodLock(t) => ~RecInPodLock
  /\ \A t, u \in Targets : PubInJLock(t) => ~UnpInJLock(u)

AddRefMapFresh ==
  \A t \in Targets : pub[t] = "replace" /\ pod.exists =>
    /\ Refs(pod) \cup {t} \subseteq ann[t]
    /\ \A u \in ann[t] \cap Targets : u = t \/ u \in pod.annos \/ app[u] = "gone"

UnpublishAfterDeletion ==
  \A t \in Targets : unp[t] # "idle" => app[t] \in {"term", "gone"}

StaleRefsGone ==
  rec.pc \notin {"idle", "list"} => \A t \in StaleRefs : app[t] = "gone"

RefsHaveOwners ==
  \A t \in Targets :
    (\/ pub[t] # "idle" \/ t \in pod.annos \/ t \in rec.snap.annos
     \/ \E u \in Targets : t \in ann[u]) => app[t] # "none"

\* At most one goroutine is inside each lock; AddRefOfMount's map is the pod's, up
\* to itself and to references of application pods that are gone; what Run takes
\* for stale in its snapshot really is: the list is taken AFTER the snapshot, so
\* an application pod it misses had come, and gone.
RefsInv ==
  /\ LocksExclusive
  /\ AddRefMapFresh
  /\ UnpublishAfterDeletion
  /\ StaleRefsGone
  /\ RefsHaveOwners

-----------------------------------------------------------------------------
(* What recovery promises.                                                 *)

\* The target is recorded: on the mount pod, or in the annotations the recovering
\* reconciler will deploy again.
RecoveryHolds(t) ==
  rec.pc \in {"recover", "wait", "errDelete", "errWait"} /\ t \in rec.snap.annos
Recorded(t) == (pod.exists /\ t \in pod.annos) \/ RecoveryHolds(t)

\* While its application pod runs, a published target is recorded: on the mount
\* pod, or in the annotations the recovering reconciler will deploy again.
PublishedIsRecorded ==
  \A t \in Targets : pub[t] = "ok" /\ app[t] = "live" => Recorded(t)

KeepsRecords ==
  \A t \in Targets :
    app[t] = "live" /\ Recorded(t) /\ pod' # pod /\ pod'.exists => Recorded(t)'

\* No write to the mount pod loses the record of a running application pod's target:
\* not a patch, and not the pod's being deployed again, by podDeletedHandler, by
\* podErrorHandler or by another publish, whose copy of the annotations may be old.
\* (It is lost where the pod is removed with no recovery that knows the target, and
\* where such a recovery is given up.)
WritesKeepRecords == [][KeepsRecords]_vars

\* Recovery shows a target its own volume: no target is bound to the root of the file
\* system, where the application sees every volume of the storage class, or to the
\* bare directory under the mount path, where it writes to the disk of the node
\* (podReadyHandler's fallback).
ShowsOwnVolume == \A t \in Targets : bind[t] \notin {"root", "bare"}

\* There is a pod, deployed after the one that is being recovered.
NewerPod == pod.exists /\ ~pod.deleting

-----------------------------------------------------------------------------
(* Liveness.  A step of the code that is not a fault is not put off for    *)
(* ever: goroutines are scheduled, Go's mutexes are starvation free (hence *)
(* SF for steps that wait for a lock), both loops of waitUntilMount are    *)
(* bounded, the reconciler polls for ever and a delete-at time passes.     *)

PublishStep(t) ==
  \/ NodePublishVolume(t) \/ waitUntilMount(t) \/ CreateMountPod(t) \/ CheckMountPod(t)
  \/ WaitLoopTimeout(t) \/ AddRefGet(t) \/ AddRefReplace(t) \/ checkBindAndMount(t)
  \/ (waitUtilMountReady(t) /\ UNCHANGED faults)

UnpublishStep(t) ==
  \/ NodeUnpublishVolume(t) \/ JUmountGet(t) \/ DelRefGet(t) \/ DelRefRemove(t)
  \/ CheckRefs(t) \/ DelPodGet(t) \/ DelPodDelete(t) \/ (unp[t] = "done" /\ AppGone(t))

ReconcileStep ==
  \/ ReconcileGet \/ ReconcileList
  \/ RunCheck \/ RunPatch \/ RunDelete \/ RunDelay \/ RunStillDelayed
  \/ podDeletedHandler \/ (RecoverUmount /\ UNCHANGED faults) \/ RecoverCreate
  \/ (RecoverTimeout /\ UNCHANGED faults)
  \/ podErrorHandler \/ ResourceError \/ ResourceErrorDelete \/ ResourceErrorCreate
  \/ podReadyHandler \/ podReadyFallback
  \/ \E t \in Targets : podReadyStat(t) \/ podReadyBind(t)
  \/ podPendingHandler

KubeletStep ==
  \/ (AdmitPod /\ UNCHANGED faults) \/ ClientMounts \/ ClientEnds
  \/ TerminatePod \/ RemovePod

Fairness ==
  /\ \A t \in Targets :
       /\ SF_vars(PublishStep(t))
       /\ SF_vars(CheckMountPod(t) \/ WaitLoopTimeout(t))
       /\ SF_vars(UnpublishStep(t))
  /\ SF_vars(ReconcileStep)
  /\ SF_vars(RunDelete)
  /\ WF_vars(KubeletStep)

FairSpec == Spec /\ Fairness

\* Once every application pod is gone, the mount pod goes, and stays away.
MountPodReclaimed ==
  (\A t \in Targets : app[t] = "gone") ~> [](~pod.exists)

\* A published target whose client died is bound again, as long as its application
\* pod runs (podErrorHandler or podPendingHandler, then podDeletedHandler, then
\* podReadyHandler, each in a round of its own): to its volume, or to what stands at
\* the mount path, where podReadyHandler falls back on that.
Recovers ==
  \A t \in Targets :
    (pub[t] = "ok" /\ app[t] = "live" /\ bind[t] = "dead")
      ~> (bind[t] \in {"live", "root", "bare"} \/ app[t] # "live")

\* A publish that the kubelet keeps retrying succeeds, unless podDeletedHandler
\* keeps unmounting the mount of pods newer than the one it recovers.
PublishSucceeds ==
  (<>[][RecoverUmount => ~NewerPod]_vars) =>
    \A t \in Targets : app[t] = "live" ~> pub[t] = "ok" \/ app[t] # "live"

=============================================================================
