----------------------- MODULE MountPodRecoveryProofs -----------------------
(***************************************************************************)
(* Proofs about publishing and recovery in MountPod, for every set of      *)
(* targets, every configuration and every bound on the faults.             *)
(***************************************************************************)
EXTENDS MountPodProofs

-----------------------------------------------------------------------------
(* The mount path and the mount pod.                                       *)

\* A live client is the client of the pod that is there.
MountedIsServed == mnt = "live" => pod.exists /\ pod.phase = "serving"

\* Where the API server's object appears, goes, or has its container's phase changed.
LEMMA MountedStep ==
  TypeOK /\ AbsentIsBare /\ MountedIsServed /\ [Next]_vars => MountedIsServed'
<1> SUFFICES ASSUME TypeOK, AbsentIsBare, MountedIsServed, [Next]_vars
             PROVE  MountedIsServed'
  OBVIOUS
<1> USE DEF TypeOK, Pod, MountedIsServed
<1>1. ASSUME NEW t \in Targets, Publish(t) PROVE MountedIsServed'
  BY <1>1 DEF Publish, NodePublishVolume, Republish, waitUntilMount, CreateMountPod, CreatePod,
              CheckMountPod, WaitLoopTimeout, AddRefGet, AddRefReplace,
              waitUtilMountReady, checkBindAndMount, PublishCallFails
<1>2. ASSUME NEW t \in Targets, Unpublish(t) PROVE MountedIsServed'
  <2>1. CASE DelRefRemove(t) \/ DelPodDelete(t)
    BY <2>1 DEF DelRefRemove, DelPodDelete, DeletePod
  <2>2. CASE ~DelRefRemove(t) /\ ~DelPodDelete(t)
    BY <1>2, <2>2 DEF Unpublish, Unmount, NodeUnpublishVolume, UnpublishBeforeLatePublish,
                      JUmountGet, DelRefGet, CheckRefs, DelPodGet, UnpublishCallFails
  <2> QED
    BY <2>1, <2>2
<1>3. CASE Reconcile
  <2>1. CASE RecoverUmount
    BY <2>1 DEF RecoverUmount
  <2>2. CASE RunPatch \/ RunDelay \/ RecoverCreate \/ ResourceErrorCreate
    BY <2>2 DEF RunPatch, RunDelay, RecoverCreate, ResourceErrorCreate, RecLocal, CreatePod
  <2>3. CASE RunDelete \/ podDeletedHandler \/ podErrorHandler \/ ResourceError
             \/ ResourceErrorDelete \/ podPendingHandler
    BY <2>3 DEF RunDelete, podDeletedHandler, podErrorHandler, ResourceError,
                ResourceErrorDelete, podPendingHandler, RecLocal, DeletePod
  <2>4. CASE \/ ReconcileGet \/ ReconcileList \/ RunCheck \/ RunStillDelayed \/ RecoverTimeout
             \/ ReconcileCallFails \/ ReadyStep
    BY <2>4, ReadySteps DEF ReconcileGet, ReconcileList, RunCheck, RunStillDelayed,
                            RecoverTimeout, ReconcileCallFails, RecLocal
  <2> QED
    BY <1>3, <2>1, <2>2, <2>3, <2>4 DEF Reconcile, ReadyStep
<1>4. CASE AdmitPod \/ ClientMounts \/ ClientExits \/ ClientEnds
  BY <1>4 DEF AdmitPod, ClientMounts, ClientExits, ClientEnds, AbsentIsBare, NoPod
<1>5. CASE TerminatePod \/ RemovePod \/ PluginRestarts \/ AppStep
  BY <1>5 DEF TerminatePod, RemovePod, PluginRestarts, AppStep, AppCreated, AppDeleted, AppGone
<1>6. CASE Quiet \/ UNCHANGED vars
  BY <1>6 DEF Quiet, vars
<1> QED
  BY <1>1, <1>2, <1>3, <1>4, <1>5, <1>6 DEF Next, Environment, AppStep

\* What holds for every configuration, schedule and fault.
BaseInv == TypeOK /\ RefsInv /\ AbsentIsBare /\ MountedIsServed

\* These facts are invariants of the specification as it is.
LEMMA BaseInvariant == Spec => []BaseInv
<1>1. Init => AbsentIsBare /\ MountedIsServed
  BY DEF Init, AbsentIsBare, MountedIsServed
<1>2. BaseInv /\ [Next]_vars => AbsentIsBare' /\ MountedIsServed'
  BY PodAppSteps, MountedStep DEF BaseInv
<1>3. Spec => [](AbsentIsBare /\ MountedIsServed)
  BY <1>1, <1>2, TypeCorrect, RefsInvariant, PTL DEF Spec, BaseInv
<1> QED
  BY <1>3, TypeCorrect, RefsInvariant, PTL DEF BaseInv

-----------------------------------------------------------------------------
(* The reference of a publish that is inside the pod lock.                 *)

\* A pod is deployed by a publish or by a recovery, each inside the pod lock.
LEMMA PodAppears ==
  TypeOK /\ [Next]_vars /\ ~pod.exists /\ pod'.exists =>
    (\E t \in Targets : CreateMountPod(t)) \/ RecoverCreate \/ ResourceErrorCreate
<1> SUFFICES ASSUME TypeOK, [Next]_vars, ~pod.exists, pod'.exists,
                    \A t \in Targets : ~CreateMountPod(t), ~RecoverCreate, ~ResourceErrorCreate
             PROVE  FALSE
  OBVIOUS
<1> USE DEF TypeOK, Pod
<1>1. ASSUME NEW t \in Targets, Publish(t) PROVE FALSE
  BY <1>1 DEF Publish, NodePublishVolume, Republish, waitUntilMount, CheckMountPod,
              WaitLoopTimeout, AddRefGet, AddRefReplace, waitUtilMountReady,
              checkBindAndMount, PublishCallFails
<1>2. ASSUME NEW t \in Targets, Unpublish(t) PROVE FALSE
  BY <1>2 DEF Unpublish, Unmount, NodeUnpublishVolume, UnpublishBeforeLatePublish, JUmountGet,
              DelRefGet, DelRefRemove, CanRemove, CheckRefs, DelPodGet, DelPodDelete,
              UnpublishCallFails
<1>3. CASE Reconcile
  BY <1>3, ReadySteps
     DEF Reconcile, ReadyStep, ReconcileGet, ReconcileList, RunCheck, RunPatch, CanRemove, RunDelete,
              RunDelay, RunStillDelayed, podDeletedHandler, RecoverUmount, RecoverTimeout,
              podErrorHandler, ResourceError, ResourceErrorDelete,
              podPendingHandler, ReconcileCallFails, RecLocal
<1>4. CASE AdmitPod \/ ClientMounts \/ ClientExits \/ ClientEnds
  BY <1>4 DEF AdmitPod, ClientMounts, ClientExits, ClientEnds
<1>5. CASE TerminatePod \/ RemovePod \/ PluginRestarts \/ AppStep
  BY <1>5 DEF TerminatePod, RemovePod, NoPod, PluginRestarts, AppStep, AppCreated, AppDeleted, AppGone
<1>6. CASE Quiet \/ UNCHANGED vars
  BY <1>6 DEF Quiet, vars
<1> QED
  BY <1>1, <1>2, <1>3, <1>4, <1>5, <1>6 DEF Next, Environment, AppStep

\* A publish moves in its own steps, or stops when the plugin restarts.
LEMMA PublishMoves ==
  ASSUME TypeOK, [Next]_vars, NEW t \in Targets
  PROVE  \/ pub'[t] = pub[t]
         \/ Publish(t)
         \/ pub'[t] \in {"idle", "ok"} /\ (pub'[t] = "ok" => pub[t] = "ok")
<1> USE DEF TypeOK
<1>1. ASSUME NEW u \in Targets, Publish(u), u # t PROVE pub'[t] = pub[t]
  BY <1>1 DEF Publish, NodePublishVolume, Republish, waitUntilMount, CreateMountPod,
              CheckMountPod, WaitLoopTimeout, AddRefGet, AddRefReplace, waitUtilMountReady,
              checkBindAndMount, PublishCallFails
<1>2. ASSUME NEW u \in Targets, Unpublish(u) PROVE UNCHANGED pub
  BY <1>2 DEF Unpublish, Unmount, NodeUnpublishVolume, UnpublishBeforeLatePublish, JUmountGet,
              DelRefGet, DelRefRemove, CheckRefs, DelPodGet, DelPodDelete, UnpublishCallFails
<1>3. CASE Reconcile
  BY <1>3, ReadySteps
     DEF Reconcile, ReadyStep, ReconcileGet, ReconcileList, RunCheck, RunPatch, RunDelete,
              RunDelay, RunStillDelayed, podDeletedHandler, RecoverUmount, RecoverCreate,
              RecoverTimeout, podErrorHandler, ResourceError, ResourceErrorDelete,
              ResourceErrorCreate, podPendingHandler, ReconcileCallFails, RecLocal
<1>4. CASE PluginRestarts
  BY <1>4 DEF PluginRestarts
<1>5. CASE AdmitPod \/ ClientMounts \/ ClientExits \/ ClientEnds \/ TerminatePod \/ RemovePod
           \/ AppStep
  BY <1>5 DEF AdmitPod, ClientMounts, ClientExits, ClientEnds, TerminatePod, RemovePod,
              AppStep, AppCreated, AppDeleted, AppGone
<1>6. CASE Quiet \/ UNCHANGED vars
  BY <1>6 DEF Quiet, vars
<1> QED
  BY <1>1, <1>2, <1>3, <1>4, <1>5, <1>6 DEF Next, Environment, AppStep

\* The count of the faults never falls.
LEMMA FaultsGrow == TypeOK /\ [Next]_vars /\ NoCallFailed' => NoCallFailed
<1> SUFFICES ASSUME TypeOK, [Next]_vars PROVE UNCHANGED faults \/ faults' = faults + 1
  BY ConfigAssumption DEF NoCallFailed, TypeOK
<1> USE DEF Fault
<1>1. ASSUME NEW t \in Targets, Publish(t) PROVE UNCHANGED faults \/ faults' = faults + 1
  BY <1>1 DEF Publish, NodePublishVolume, Republish, waitUntilMount, CreateMountPod,
              CheckMountPod, WaitLoopTimeout, AddRefGet, AddRefReplace, waitUtilMountReady,
              checkBindAndMount, PublishCallFails
<1>2. ASSUME NEW t \in Targets, Unpublish(t) PROVE UNCHANGED faults \/ faults' = faults + 1
  BY <1>2 DEF Unpublish, Unmount, NodeUnpublishVolume, UnpublishBeforeLatePublish, JUmountGet,
              DelRefGet, DelRefRemove, CheckRefs, DelPodGet, DelPodDelete, UnpublishCallFails
<1>3. CASE Reconcile
  BY <1>3, ReadySteps
     DEF Reconcile, ReadyStep, ReconcileGet, ReconcileList, RunCheck, RunPatch, RunDelete,
              RunDelay, RunStillDelayed, podDeletedHandler, RecoverUmount, RecoverCreate,
              RecoverTimeout, podErrorHandler, ResourceError, ResourceErrorDelete,
              ResourceErrorCreate, podPendingHandler, ReconcileCallFails, RecLocal
<1>4. CASE Environment
  BY <1>4 DEF Environment, AdmitPod, ClientMounts, ClientExits, ClientEnds, TerminatePod, RemovePod,
              AppCreated, AppDeleted, AppGone, PluginRestarts
<1>5. CASE Quiet \/ UNCHANGED vars
  BY <1>5 DEF Quiet, vars
<1> QED
  BY <1>1, <1>2, <1>3, <1>4, <1>5 DEF Next

\* A publish that waits for the client has its reference on the pod, if there is one.
WaitsWithRef ==
  NoCallFailed =>
    \A t \in Targets : app[t] = "live" /\ pub[t] = "ready" /\ pod.exists => t \in pod.annos

\* AddRefOfMount put the reference there, and nothing takes it away or replaces the pod.
LEMMA WaitsStep == BaseInv /\ WaitsWithRef /\ [Next]_vars => WaitsWithRef'
<1> SUFFICES ASSUME BaseInv, WaitsWithRef, [Next]_vars, NoCallFailed',
                    NEW t \in Targets, app'[t] = "live", pub'[t] = "ready", pod'.exists
             PROVE  t \in pod'.annos
  BY DEF WaitsWithRef
<1> USE DEF BaseInv, TypeOK, Pod
<1>1. NoCallFailed
  BY FaultsGrow
<1>2. app[t] \in {"none", "live"}
  BY PodAppSteps DEF AppStep, AppCreated, AppDeleted, AppGone
\* It waits already: the pod that is there is not a new one, and keeps the reference.
<1>3. CASE pub[t] = "ready"
  <2>1. app[t] = "live"
    BY <1>2, <1>3 DEF RefsInv, RefsHaveOwners
  <2>2. CASE pod.exists
    BY <1>1, <1>3, <2>1, <2>2, LiveRefsStep DEF WaitsWithRef, KeepsLiveRefs, SameObject, vars
  <2>3. CASE ~pod.exists
    <3>1. InPodLock(t)
      BY <1>3 DEF InPodLock
    <3>2. ASSUME NEW u \in Targets, CreateMountPod(u) PROVE FALSE
      BY <1>3, <3>1, <3>2 DEF CreateMountPod, InPodLock, RefsInv, LocksExclusive
    <3>3. ~RecInPodLock
      BY <3>1 DEF RefsInv, LocksExclusive
    <3> QED
      BY <2>3, <3>2, <3>3, PodAppears DEF RecoverCreate, ResourceErrorCreate, RecInPodLock
  <2> QED
    BY <2>2, <2>3
\* It comes from AddRefOfMount, whose patch did not fail.
<1>4. CASE pub[t] # "ready"
  <2>1. Publish(t)
    BY <1>4, PublishMoves
  <2>2. CASE AddRefGet(t)
    BY <1>4, <2>2 DEF AddRefGet
  <2>3. CASE AddRefReplace(t)
    BY <2>3 DEF AddRefReplace, RefsInv, AddRefMapFresh
  <2>4. CASE PublishCallFails(t)
    BY <2>4, ConfigAssumption DEF PublishCallFails, Fault, NoCallFailed
  <2> QED
    BY <1>4, <2>1, <2>2, <2>3, <2>4
       DEF Publish, NodePublishVolume, Republish, waitUntilMount, CreateMountPod,
           CheckMountPod, WaitLoopTimeout, waitUtilMountReady, checkBindAndMount
<1> QED
  BY <1>3, <1>4

\* So every wait for the client is a wait with the reference.
LEMMA WaitsInvariant == Spec => [](BaseInv /\ WaitsWithRef)
<1>1. Init => WaitsWithRef
  BY DEF Init, WaitsWithRef
<1> QED
  BY <1>1, WaitsStep, BaseInvariant, PTL DEF Spec

\* A publish that gets through waitUtilMountReady has its reference on the mount pod:
\* for any targets, any configuration and any fault but a failing API call.
THEOREM PublishKeepsRef == Spec => PublishLeavesRef
<1>1. BaseInv /\ WaitsWithRef /\ [Next]_vars => [NoCallFailed => LeavesRef]_vars
  <2> SUFFICES ASSUME BaseInv, WaitsWithRef, [Next]_vars, NoCallFailed,
                      NEW t \in Targets, app[t] = "live", pub[t] = "ready", pub'[t] = "bind"
               PROVE  pod.exists /\ t \in pod.annos
    BY DEF LeavesRef
  <2>1. Publish(t)
    BY PublishMoves DEF BaseInv
  <2>2. waitUtilMountReady(t)
    BY <2>1 DEF BaseInv, TypeOK, Publish, NodePublishVolume, Republish, waitUntilMount,
                CreateMountPod, CheckMountPod, WaitLoopTimeout, AddRefGet, AddRefReplace,
                checkBindAndMount, PublishCallFails
  <2>3. mnt = "live"
    BY <2>2 DEF waitUtilMountReady, BaseInv, TypeOK
  <2> QED
    BY <2>3 DEF BaseInv, MountedIsServed, WaitsWithRef
<1> QED
  BY <1>1, WaitsInvariant, PTL DEF Spec, PublishLeavesRef

-----------------------------------------------------------------------------
(* The record of a target: on the pod, or with the recovery.               *)

\* A round that holds the references of its snapshot ends by deploying the pod, or
\* leaves the pod as it is.
LEMMA RecoveryEnds ==
  ASSUME TypeOK, [Next]_vars, NEW t \in Targets, RecoveryHolds(t)
  PROVE  RecoveryHolds(t)' \/ RecoverCreate \/ ResourceErrorCreate \/ UNCHANGED pod
<1> USE DEF TypeOK, Round, RecoveryHolds
<1>1. ASSUME NEW u \in Targets, Publish(u) PROVE UNCHANGED rec
  BY <1>1 DEF Publish, NodePublishVolume, Republish, waitUntilMount, CreateMountPod,
              CheckMountPod, WaitLoopTimeout, AddRefGet, AddRefReplace, waitUtilMountReady,
              checkBindAndMount, PublishCallFails
<1>2. ASSUME NEW u \in Targets, Unpublish(u) PROVE UNCHANGED rec
  BY <1>2 DEF Unpublish, Unmount, NodeUnpublishVolume, UnpublishBeforeLatePublish, JUmountGet,
              DelRefGet, DelRefRemove, CheckRefs, DelPodGet, DelPodDelete, UnpublishCallFails
<1>3. CASE RecoverUmount
  BY <1>3 DEF RecoverUmount
<1>4. CASE ResourceErrorDelete
  BY <1>4 DEF ResourceErrorDelete, RecGoto
<1>5. CASE RecoverTimeout \/ ReconcileCallFails \/ PluginRestarts
  BY <1>5 DEF RecoverTimeout, ReconcileCallFails, PluginRestarts
<1>6. CASE Reconcile
  BY <1>3, <1>4, <1>5, <1>6, ReadySteps
     DEF Reconcile, ReadyStep, ReconcileGet, ReconcileList, RunCheck, RunPatch, RunDelete, RunDelay,
         RunStillDelayed, podDeletedHandler, podErrorHandler, ResourceError,
         podPendingHandler, Handling, Checked
<1>7. CASE AdmitPod \/ ClientMounts \/ ClientExits \/ ClientEnds \/ TerminatePod \/ RemovePod
           \/ AppStep
  BY <1>7 DEF AdmitPod, ClientMounts, ClientExits, ClientEnds, TerminatePod, RemovePod,
              AppStep, AppCreated, AppDeleted, AppGone
<1>8. CASE Quiet \/ UNCHANGED vars
  BY <1>8 DEF Quiet, vars
<1> QED
  BY <1>1, <1>2, <1>5, <1>6, <1>7, <1>8 DEF Next, Environment, AppStep

\* No write to the mount pod, by a patch or by its being deployed again, loses the record
\* of a running application pod's target: for any targets, configuration and faults.
THEOREM RecordsOutliveWrites == Spec => WritesKeepRecords
<1>1. TypeOK /\ RefsInv /\ [Next]_vars => [KeepsRecords]_vars
  <2> SUFFICES ASSUME TypeOK, RefsInv, [Next]_vars, NEW t \in Targets, app[t] = "live",
                      Recorded(t), pod' # pod, pod'.exists
               PROVE  Recorded(t)'
    BY DEF KeepsRecords
  <2>1. CASE pod.exists /\ t \in pod.annos
    BY <2>1, LiveRefsStep DEF KeepsLiveRefs, SameObject, Recorded, vars
  <2>2. CASE RecoveryHolds(t)
    <3>1. CASE RecoveryHolds(t)'
      BY <3>1 DEF Recorded
    <3>2. CASE RecoverCreate \/ ResourceErrorCreate
      BY <2>2, <3>2
         DEF RecoverCreate, ResourceErrorCreate, CreatePod, MountPodWith, RecoveryHolds, Recorded
    <3> QED
      BY <2>2, <3>1, <3>2, RecoveryEnds
  <2> QED
    BY <2>1, <2>2 DEF Recorded
<1> QED
  BY <1>1, TypeCorrect, RefsInvariant, PTL DEF Spec, WritesKeepRecords

=============================================================================
