--------------------------- MODULE MountPodProofs ---------------------------
(***************************************************************************)
(* Proofs about MountPod, for every set of targets, every configuration    *)
(* and every bound on the faults.                                          *)
(***************************************************************************)
EXTENDS MountPod, TLAPS

\* The updates of the pod object that the actions make stay within its type.
LEMMA PodTypes ==
  ASSUME NEW p \in Pod
  PROVE  /\ NoPod \in Pod
         /\ [p EXCEPT !.deleting = TRUE] \in Pod
         /\ [p EXCEPT !.fin = FALSE] \in Pod
         /\ \A phase \in Phases : [p EXCEPT !.phase = phase] \in Pod
         /\ \A annos \in SUBSET Keys : [p EXCEPT !.annos = annos] \in Pod
         /\ \A annos \in SUBSET Keys, res \in BOOLEAN : MountPodWith(annos, res) \in Pod
         /\ p.annos \in SUBSET Keys /\ p.res \in BOOLEAN
  BY DEF Pod, Phases, NoPod, MountPodWith

\* So do the updates of the reconciler's round.
LEMMA RoundTypes ==
  ASSUME NEW r \in Round
  PROVE  /\ NoRound \in Round
         /\ \A pc \in {"idle", "list", "run", "patch", "checked", "handle", "recover",
                       "wait", "errDelete", "errWait", "fallback", "targets", "bind"} :
              [r EXCEPT !.pc = pc] \in Round
         /\ r.snap \in Pod /\ r.seen \in SUBSET Targets
  BY DEF Round, NoRound, NoPod, Pod, Phases

\* And those of podReadyHandler.
LEMMA RecoveryTypes ==
  ASSUME rec \in Round, NEW t \in Targets
  PROVE  /\ \A src \in {"volume", "mntPath"} : RecoverFrom(src) => rec' \in Round
         /\ NextTarget(t) => rec' \in Round
         /\ [rec EXCEPT !.pc = "bind", !.dead = {t}] \in Round
<1>1. NoRound \in Round
  BY RoundTypes
<1>2. ASSUME NEW src \in {"volume", "mntPath"}, RecoverFrom(src) PROVE rec' \in Round
  <2>1. Refs(rec.snap) \in SUBSET Targets
    BY DEF Refs
  <2>2. [rec EXCEPT !.pc = "targets", !.src = src, !.todo = Refs(rec.snap)] \in Round
    BY <2>1 DEF Round
  <2> QED
    BY <1>1, <1>2, <2>2 DEF RecoverFrom
<1>3. ASSUME NextTarget(t) PROVE rec' \in Round
  <2>1. [rec EXCEPT !.pc = "targets", !.todo = @ \ {t}, !.dead = {}] \in Round
    BY DEF Round
  <2> QED
    BY <1>1, <1>3, <2>1 DEF NextTarget
<1>4. [rec EXCEPT !.pc = "bind", !.dead = {t}] \in Round
  BY DEF Round
<1> QED
  BY <1>2, <1>3, <1>4

ReadyStep ==
  podReadyHandler \/ podReadyFallback \/ \E t \in Targets : podReadyStat(t) \/ podReadyBind(t)

\* podReadyHandler leaves everything but the targets alone.
LEMMA ReadySteps == ReadyStep => UNCHANGED <<pod, mnt, app, pub, ann, unp, faults>>
<1>1. CASE podReadyHandler
  BY <1>1 DEF podReadyHandler, RecLocal
<1>2. CASE podReadyFallback
  BY <1>2 DEF podReadyFallback, RecLocal
<1>3. ASSUME NEW t \in Targets, podReadyStat(t) PROVE UNCHANGED <<pod, mnt, app, pub, ann, unp, faults>>
  BY <1>3 DEF podReadyStat, RecLocal
<1>4. ASSUME NEW t \in Targets, podReadyBind(t) PROVE UNCHANGED <<pod, mnt, app, pub, ann, unp, faults>>
  BY <1>4 DEF podReadyBind
<1> QED
  BY <1>1, <1>2, <1>3, <1>4 DEF ReadyStep

SameRound ==
  /\ rec.pc \notin {"idle", "list"} /\ rec'.pc \in {"fallback", "targets", "bind"}
  /\ rec'.snap = rec.snap /\ rec'.seen = rec.seen

\* It ends the round, or goes on with the snapshot and the list it has.
LEMMA ReadyRounds == rec \in Round /\ ReadyStep => rec' = NoRound \/ SameRound
<1> SUFFICES ASSUME rec \in Round, ReadyStep PROVE rec' = NoRound \/ SameRound
  OBVIOUS
<1>1. CASE podReadyHandler
  <2>1. rec.pc \notin {"idle", "list"}
    BY <1>1 DEF podReadyHandler, Handling, Checked
  <2> QED
    BY <1>1, <2>1 DEF podReadyHandler, RoundOver, RecGoto, RecoverFrom, Round, SameRound
<1>2. CASE podReadyFallback
  BY <1>2 DEF podReadyFallback, RoundOver, RecoverFrom, Round, SameRound
<1>3. ASSUME NEW t \in Targets, podReadyStat(t) PROVE rec' = NoRound \/ SameRound
  BY <1>3 DEF podReadyStat, NextTarget, Round, SameRound
<1>4. ASSUME NEW t \in Targets, podReadyBind(t) PROVE rec' = NoRound \/ SameRound
  BY <1>4 DEF podReadyBind, NextTarget, Round, SameRound
<1> QED
  BY <1>1, <1>2, <1>3, <1>4 DEF ReadyStep

\* A fault stays within the bound.
LEMMA FaultTypes ==
  ASSUME faults \in 0..MaxFaults, NEW kind, Fault(kind)
  PROVE  faults' \in 0..MaxFaults
  BY ConfigAssumption DEF Fault

\* Every step of the code and of its environment keeps the types.
LEMMA TypeStep == TypeOK /\ [Next]_vars => TypeOK'
<1> SUFFICES ASSUME TypeOK, [Next]_vars PROVE TypeOK'
  OBVIOUS
<1> USE DEF TypeOK
<1>1. ASSUME NEW t \in Targets, NodePublishVolume(t) PROVE TypeOK'
  BY <1>1 DEF NodePublishVolume, CreateTarget
<1>2. ASSUME NEW t \in Targets, Republish(t) PROVE TypeOK'
  BY <1>2, FaultTypes DEF Republish, CreateTarget
<1>3. ASSUME NEW t \in Targets, waitUntilMount(t) PROVE TypeOK'
  BY <1>3 DEF waitUntilMount
<1>4. ASSUME NEW t \in Targets, CreateMountPod(t) PROVE TypeOK'
  <2>1. PICK delayed \in Delayed :
             CreatePod({t} \cup (IF delayed THEN {DelayKey} ELSE {}), HasResources)
    BY <1>4 DEF CreateMountPod
  <2>2. pod' \in Pod
    BY <2>1, PodTypes, ConfigAssumption DEF CreatePod, Keys
  <2> QED
    BY <1>4, <2>2 DEF CreateMountPod
<1>5. ASSUME NEW t \in Targets, CheckMountPod(t) PROVE TypeOK'
  BY <1>5 DEF CheckMountPod
<1>6. ASSUME NEW t \in Targets, WaitLoopTimeout(t) PROVE TypeOK'
  BY <1>6 DEF WaitLoopTimeout
<1>7. ASSUME NEW t \in Targets, AddRefGet(t) PROVE TypeOK'
  <2>1. (pod.annos \cup {t}) \ {AtKey} \in SUBSET Keys
    BY PodTypes DEF Keys
  <2>2. ann' \in [Targets -> SUBSET Keys]
    BY <1>7, <2>1 DEF AddRefGet
  <2> QED
    BY <1>7, <2>2 DEF AddRefGet
<1>8. ASSUME NEW t \in Targets, AddRefReplace(t) PROVE TypeOK'
  BY <1>8, PodTypes DEF AddRefReplace
<1>9. ASSUME NEW t \in Targets, waitUtilMountReady(t) PROVE TypeOK'
  BY <1>9, FaultTypes DEF waitUtilMountReady
<1>10. ASSUME NEW t \in Targets, checkBindAndMount(t) PROVE TypeOK'
  BY <1>10 DEF checkBindAndMount
<1>11. ASSUME NEW t \in Targets, PublishCallFails(t) PROVE TypeOK'
  BY <1>11, FaultTypes DEF PublishCallFails
<1>12. ASSUME NEW t \in Targets, NodeUnpublishVolume(t) PROVE TypeOK'
  BY <1>12 DEF NodeUnpublishVolume, Unmount
<1>13. ASSUME NEW t \in Targets, UnpublishBeforeLatePublish(t) PROVE TypeOK'
  BY <1>13, FaultTypes DEF UnpublishBeforeLatePublish, Unmount
<1>14. ASSUME NEW t \in Targets, JUmountGet(t) PROVE TypeOK'
  BY <1>14 DEF JUmountGet
<1>15. ASSUME NEW t \in Targets, DelRefGet(t) PROVE TypeOK'
  BY <1>15 DEF DelRefGet
<1>16. ASSUME NEW t \in Targets, DelRefRemove(t) PROVE TypeOK'
  <2>1. [pod EXCEPT !.annos = @ \ {t}] \in Pod
    BY DEF Pod, TypeOK
  <2>2. pod' \in Pod
    BY <1>16, <2>1 DEF DelRefRemove
  <2> QED
    BY <1>16, <2>2 DEF DelRefRemove
<1>17. ASSUME NEW t \in Targets, CheckRefs(t) PROVE TypeOK'
  BY <1>17 DEF CheckRefs
<1>18. ASSUME NEW t \in Targets, DelPodGet(t) PROVE TypeOK'
  BY <1>18 DEF DelPodGet
<1>19. ASSUME NEW t \in Targets, DelPodDelete(t) PROVE TypeOK'
  BY <1>19, PodTypes DEF DelPodDelete, DeletePod
<1>20. ASSUME NEW t \in Targets, UnpublishCallFails(t) PROVE TypeOK'
  BY <1>20, FaultTypes DEF UnpublishCallFails
<1>21. CASE ReconcileGet
  <2>1. [NoRound EXCEPT !.pc = "list", !.snap = pod] \in Round
    BY DEF Round, NoRound
  <2> QED
    BY <1>21, <2>1 DEF ReconcileGet, RecLocal
<1>22. CASE ReconcileList
  <2>1. {u \in Targets : app[u] \in {"live", "term"}} \in SUBSET Targets
    OBVIOUS
  <2>2. rec' \in Round
    BY <1>22, <2>1 DEF ReconcileList, Round
  <2> QED
    BY <1>22, <2>2 DEF ReconcileList, RecLocal
<1>23. CASE RunCheck
  BY <1>23, PodTypes, RoundTypes DEF RunCheck, RecGoto, RoundOver, RecLocal
<1>24. CASE RunPatch
  <2>1. [pod EXCEPT !.annos = @ \ DelAnnos] \in Pod
    BY DEF Pod, TypeOK
  <2>2. pod' \in Pod
    BY <1>24, <2>1 DEF RunPatch
  <2>3. rec' \in Round
    BY <1>24, RoundTypes DEF RunPatch, RecGoto, RoundOver
  <2> QED
    BY <1>24, <2>2, <2>3 DEF RunPatch, RecLocal
<1>25. CASE RunDelete
  BY <1>25, PodTypes, RoundTypes DEF RunDelete, DeletePod, RoundOver, RecLocal
<1>26. CASE RunDelay
  <2>1. [pod EXCEPT !.annos = @ \cup {AtKey}] \in Pod
    BY DEF Pod, Keys, TypeOK
  <2>2. pod' \in Pod
    BY <1>26, <2>1 DEF RunDelay
  <2>3. rec' \in Round
    BY <1>26, RoundTypes DEF RunDelay, RecGoto, RoundOver
  <2> QED
    BY <1>26, <2>2, <2>3 DEF RunDelay, RecLocal
<1>27. CASE RunStillDelayed
  BY <1>27, PodTypes, RoundTypes DEF RunStillDelayed, RecGoto, RecLocal
<1>28. CASE podDeletedHandler
  BY <1>28, PodTypes, RoundTypes DEF podDeletedHandler, RecGoto, RoundOver, RecLocal
<1>29. CASE RecoverUmount
  <2>1. faults' \in 0..MaxFaults
    BY <1>29, FaultTypes DEF RecoverUmount
  <2> QED
    BY <1>29, <2>1, RoundTypes DEF RecoverUmount, RecGoto
<1>30. CASE RecoverCreate
  BY <1>30, PodTypes, RoundTypes DEF RecoverCreate, CreatePod, RoundOver, RecLocal
<1>31. CASE RecoverTimeout
  <2>1. rec' \in Round
    BY <1>31, RoundTypes DEF RecoverTimeout, RoundOver
  <2>2. faults' \in 0..MaxFaults
    BY <1>31, FaultTypes DEF RecoverTimeout
  <2> QED
    BY <1>31, <2>1, <2>2 DEF RecoverTimeout
<1>32. CASE podErrorHandler
  BY <1>32, PodTypes, RoundTypes DEF podErrorHandler, DeletePod, RoundOver, RecLocal
<1>33. CASE ResourceError
  BY <1>33, PodTypes, RoundTypes DEF ResourceError, RecGoto, RoundOver, RecLocal
<1>34. CASE ResourceErrorDelete
  BY <1>34, PodTypes, RoundTypes DEF ResourceErrorDelete, DeletePod, RecGoto, RoundOver, RecLocal
<1>35. CASE ResourceErrorCreate
  BY <1>35, PodTypes, RoundTypes DEF ResourceErrorCreate, CreatePod, RoundOver, RecLocal
<1>36. CASE podReadyHandler \/ podReadyFallback
  <2>1. Targets = {} => Refs(rec.snap) = {}
    BY DEF Refs
  <2>2. ASSUME NEW src \in {"volume", "mntPath"}, RecoverFrom(src) PROVE rec' \in Round
    BY <2>1, <2>2, RecoveryTypes, RoundTypes DEF RecoverFrom
  <2>3. rec' \in Round
    BY <1>36, <2>2, RoundTypes DEF podReadyHandler, podReadyFallback, RecGoto, RoundOver
  <2> QED
    BY <1>36, <2>3 DEF podReadyHandler, podReadyFallback, RecLocal
<1>51. ASSUME NEW t \in Targets, podReadyStat(t) PROVE TypeOK'
  BY <1>51, RecoveryTypes DEF podReadyStat, RecLocal
<1>52. ASSUME NEW t \in Targets, podReadyBind(t) PROVE TypeOK'
  <2>1. RecoverySource \subseteq {"live", "root", "bare"}
    BY DEF RecoverySource
  <2>2. bind' \in [Targets -> {"absent", "dir", "live", "root", "dead", "bare"}]
    BY <1>52, <2>1 DEF podReadyBind
  <2> QED
    BY <1>52, <2>2, RecoveryTypes DEF podReadyBind
<1>37. CASE podPendingHandler
  BY <1>37, PodTypes, RoundTypes DEF podPendingHandler, DeletePod, RoundOver, RecLocal
<1>38. CASE ReconcileCallFails
  <2>1. rec' \in Round
    BY <1>38, RoundTypes DEF ReconcileCallFails, RoundOver
  <2>2. faults' \in 0..MaxFaults
    BY <1>38, FaultTypes DEF ReconcileCallFails
  <2> QED
    BY <1>38, <2>1, <2>2 DEF ReconcileCallFails
<1>39. CASE AdmitPod
  <2>1. pod' \in Pod
    BY <1>39, PodTypes DEF AdmitPod, Phases
  <2>2. faults' \in 0..MaxFaults
    BY <1>39, FaultTypes DEF AdmitPod
  <2> QED
    BY <1>39, <2>1, <2>2 DEF AdmitPod
<1>40. CASE ClientMounts
  BY <1>40, PodTypes DEF ClientMounts, Phases
<1>41. CASE ClientExits
  <2>1. \A phase \in {"failed", "succeeded"} : [pod EXCEPT !.phase = phase] \in Pod
    BY PodTypes DEF Phases
  <2>2. pod' \in Pod
    BY <1>41, <2>1 DEF ClientExits
  <2>3. faults' \in 0..MaxFaults
    BY <1>41, FaultTypes DEF ClientExits
  <2> QED
    BY <1>41, <2>2, <2>3 DEF ClientExits, Corrupt
<1>42. CASE ClientEnds
  <2>1. \A phase \in {"failed", "succeeded"} : [pod EXCEPT !.phase = phase] \in Pod
    BY PodTypes DEF Phases
  <2>2. pod' \in Pod
    BY <1>42, <2>1 DEF ClientEnds
  <2> QED
    BY <1>42, <2>2 DEF ClientEnds
<1>43. CASE TerminatePod
  BY <1>43, PodTypes DEF TerminatePod, Corrupt, Phases
<1>44. CASE RemovePod
  BY <1>44, PodTypes DEF RemovePod
<1>45. CASE PluginRestarts
  <2>1. rec' \in Round
    BY <1>45, RoundTypes DEF PluginRestarts, RoundOver
  <2>2. faults' \in 0..MaxFaults
    BY <1>45, FaultTypes DEF PluginRestarts
  <2> QED
    BY <1>45, <2>1, <2>2 DEF PluginRestarts
<1>46. ASSUME NEW t \in Targets, AppCreated(t) PROVE TypeOK'
  BY <1>46 DEF AppCreated
<1>47. ASSUME NEW t \in Targets, AppDeleted(t) PROVE TypeOK'
  BY <1>47 DEF AppDeleted
<1>48. ASSUME NEW t \in Targets, AppGone(t) PROVE TypeOK'
  BY <1>48, FaultTypes DEF AppGone
<1>49. CASE Quiet
  BY <1>49 DEF Quiet, vars
<1>50. CASE UNCHANGED vars
  BY <1>50 DEF vars
<1> QED
  BY <1>1, <1>2, <1>3, <1>4, <1>5, <1>6, <1>7, <1>8, <1>9, <1>10, <1>11, <1>12,
     <1>13, <1>14, <1>15, <1>16, <1>17, <1>18, <1>19, <1>20, <1>21, <1>22, <1>23,
     <1>24, <1>25, <1>26, <1>27, <1>28, <1>29, <1>30, <1>31, <1>32, <1>33, <1>34,
     <1>35, <1>36, <1>37, <1>38, <1>39, <1>40, <1>41, <1>42, <1>43, <1>44, <1>45,
     <1>46, <1>47, <1>48, <1>49, <1>50, <1>51, <1>52
     DEF Next, Publish, Unpublish, Reconcile, Environment

-----------------------------------------------------------------------------
(* The inductive invariant.  Of its parts, LocksExclusive needs only the   *)
(* two locks; AddRefMapFresh needs LocksExclusive to keep other writers    *)
(* out and StaleRefsGone for the one writer that takes no lock, RunPatch;  *)
(* StaleRefsGone needs RefsHaveOwners at ReconcileList: a reference whose  *)
(* application pod is not listed has had one, which is therefore gone.     *)

\* Every step of the code and of its environment keeps RefsInv.
LEMMA RefsStep == TypeOK /\ RefsInv /\ [Next]_vars => RefsInv'
<1> SUFFICES ASSUME TypeOK, RefsInv, [Next]_vars PROVE RefsInv'
  OBVIOUS
<1> USE DEF TypeOK, Pod, Round, RefsInv, LocksExclusive, AddRefMapFresh,
            UnpublishAfterDeletion, StaleRefsGone, RefsHaveOwners, Refs, StaleRefs,
            InPodLock, RecInPodLock, PubInJLock, UnpInJLock
<1>1. ASSUME NEW t \in Targets, NodePublishVolume(t) PROVE RefsInv'
  BY <1>1 DEF NodePublishVolume, CreateTarget
<1>2. ASSUME NEW t \in Targets, Republish(t) PROVE RefsInv'
  BY <1>2 DEF Republish, CreateTarget, Fault
<1>3. ASSUME NEW t \in Targets, waitUntilMount(t) PROVE RefsInv'
  BY <1>3 DEF waitUntilMount, PodLockFree
<1>4. ASSUME NEW t \in Targets, CreateMountPod(t) PROVE RefsInv'
  BY <1>4, TargetsAssumption DEF CreateMountPod, CreatePod, MountPodWith
<1>5. ASSUME NEW t \in Targets, CheckMountPod(t) PROVE RefsInv'
  BY <1>5 DEF CheckMountPod
<1>6. ASSUME NEW t \in Targets, WaitLoopTimeout(t) PROVE RefsInv'
  BY <1>6 DEF WaitLoopTimeout
<1>7. ASSUME NEW t \in Targets, AddRefGet(t) PROVE RefsInv'
  \* JLock and the pod lock are free of others: the map read is the pod's own.
  <2>1. LocksExclusive'
    BY <1>7 DEF AddRefGet, JLockFree
  <2>2. AddRefMapFresh'
    BY <1>7, TargetsAssumption DEF AddRefGet
  <2>3. UnpublishAfterDeletion' /\ StaleRefsGone'
    BY <1>7 DEF AddRefGet
  <2>4. RefsHaveOwners'
    BY <1>7 DEF AddRefGet
  <2> QED
    BY <2>1, <2>2, <2>3, <2>4
<1>8. ASSUME NEW t \in Targets, AddRefReplace(t) PROVE RefsInv'
  BY <1>8 DEF AddRefReplace
<1>9. ASSUME NEW t \in Targets, waitUtilMountReady(t) PROVE RefsInv'
  BY <1>9 DEF waitUtilMountReady, Fault
<1>10. ASSUME NEW t \in Targets, checkBindAndMount(t) PROVE RefsInv'
  BY <1>10 DEF checkBindAndMount
<1>11. ASSUME NEW t \in Targets, PublishCallFails(t) PROVE RefsInv'
  BY <1>11 DEF PublishCallFails, Fault
<1>12. ASSUME NEW t \in Targets, NodeUnpublishVolume(t) PROVE RefsInv'
  BY <1>12 DEF NodeUnpublishVolume, Unmount
<1>13. ASSUME NEW t \in Targets, UnpublishBeforeLatePublish(t) PROVE RefsInv'
  BY <1>13 DEF UnpublishBeforeLatePublish, Unmount, Fault
<1>14. ASSUME NEW t \in Targets, JUmountGet(t) PROVE RefsInv'
  BY <1>14 DEF JUmountGet
<1>15. ASSUME NEW t \in Targets, DelRefGet(t) PROVE RefsInv'
  BY <1>15 DEF DelRefGet, JLockFree
<1>16. ASSUME NEW t \in Targets, DelRefRemove(t) PROVE RefsInv'
  \* JLock keeps AddRefOfMount's map out while the reference goes.
  <2>1. LocksExclusive' /\ UnpublishAfterDeletion' /\ StaleRefsGone' /\ RefsHaveOwners'
    BY <1>16 DEF DelRefRemove
  <2>2. \A u \in Targets : pub[u] # "replace"
    BY <1>16 DEF DelRefRemove
  <2>3. AddRefMapFresh'
    BY <1>16, <2>2 DEF DelRefRemove
  <2> QED
    BY <2>1, <2>3
<1>17. ASSUME NEW t \in Targets, CheckRefs(t) PROVE RefsInv'
  BY <1>17 DEF CheckRefs
<1>18. ASSUME NEW t \in Targets, DelPodGet(t) PROVE RefsInv'
  BY <1>18 DEF DelPodGet, JLockFree
<1>19. ASSUME NEW t \in Targets, DelPodDelete(t) PROVE RefsInv'
  BY <1>19 DEF DelPodDelete, DeletePod
<1>20. ASSUME NEW t \in Targets, UnpublishCallFails(t) PROVE RefsInv'
  BY <1>20 DEF UnpublishCallFails, Fault
<1>21. CASE ReconcileGet
  BY <1>21 DEF ReconcileGet, RecLocal
<1>22. CASE ReconcileList
  \* A reference of the snapshot has had an application pod; if it is in no list
  \* taken later, it is gone.
  <2>1. LocksExclusive' /\ AddRefMapFresh' /\ UnpublishAfterDeletion' /\ RefsHaveOwners'
    BY <1>22 DEF ReconcileList, RecLocal
  <2>2. \A u \in Refs(rec.snap) : app[u] # "none"
    OBVIOUS
  <2>3. StaleRefsGone'
    BY <1>22, <2>2 DEF ReconcileList, RecLocal
  <2> QED
    BY <2>1, <2>3
<1>23. CASE RunCheck
  BY <1>23 DEF RunCheck, RecGoto, RoundOver, RecLocal, DelAnnos, ExistTargets, NoRound, NoPod
<1>24. CASE RunPatch
  \* Run takes no lock, but removes references of application pods that are gone.
  <2>1. \A u \in DelAnnos \cap Targets : app[u] = "gone"
    BY <1>24, TargetsAssumption DEF RunPatch, DelAnnos
  <2>2. pod.exists /\ pod'.exists => pod'.annos \subseteq pod.annos
    BY <1>24 DEF RunPatch
  <2>3. AddRefMapFresh'
    BY <1>24, <2>1 DEF RunPatch, RecLocal, CanRemove
  <2>4. LocksExclusive' /\ UnpublishAfterDeletion' /\ StaleRefsGone' /\ RefsHaveOwners'
    BY <1>24, <2>2 DEF RunPatch, RecGoto, RoundOver, RecLocal, CanRemove, NoRound, NoPod
  <2> QED
    BY <2>3, <2>4
<1>25. CASE RunDelete
  BY <1>25 DEF RunDelete, DeletePod, RoundOver, RecLocal, Checked, NoRound, NoPod
<1>26. CASE RunDelay
  BY <1>26, TargetsAssumption DEF RunDelay, RecGoto, RoundOver, RecLocal, Checked, NoRound, NoPod
<1>27. CASE RunStillDelayed
  BY <1>27 DEF RunStillDelayed, RecGoto, RecLocal, Checked
<1>28. CASE podDeletedHandler
  BY <1>28 DEF podDeletedHandler, RecGoto, RoundOver, RecLocal, NoRound, NoPod, Handling, Checked
<1>29. CASE RecoverUmount
  BY <1>29 DEF RecoverUmount, RecGoto, PodLockFree, Fault
<1>30. CASE RecoverCreate
  BY <1>30 DEF RecoverCreate, CreatePod, RoundOver, RecLocal, MountPodWith, NoRound, NoPod
<1>31. CASE RecoverTimeout
  BY <1>31 DEF RecoverTimeout, Fault, RoundOver, NoRound, NoPod
<1>32. CASE podErrorHandler
  BY <1>32 DEF podErrorHandler, DeletePod, RoundOver, RecLocal, PodLockFree, NoRound, NoPod, Handling, Checked
<1>33. CASE ResourceError
  BY <1>33 DEF ResourceError, RecGoto, RoundOver, RecLocal, PodLockFree, NoRound, NoPod, Handling, Checked
<1>34. CASE ResourceErrorDelete
  BY <1>34 DEF ResourceErrorDelete, DeletePod, RecGoto, RoundOver, RecLocal, NoRound, NoPod
<1>35. CASE ResourceErrorCreate
  BY <1>35 DEF ResourceErrorCreate, CreatePod, RoundOver, RecLocal, MountPodWith, NoRound, NoPod
<1>36. CASE ReadyStep
  <2>1. UNCHANGED <<pod, app, pub, ann, unp>>
    BY <1>36, ReadySteps
  <2>2. CASE rec' = NoRound
    BY <2>1, <2>2 DEF NoRound, NoPod
  <2>3. CASE SameRound
    BY <2>1, <2>3 DEF SameRound
  <2> QED
    BY <1>36, <2>2, <2>3, ReadyRounds
<1>37. CASE podPendingHandler
  BY <1>37 DEF podPendingHandler, DeletePod, RoundOver, RecLocal, NoRound, NoPod, Handling, Checked
<1>38. CASE ReconcileCallFails
  BY <1>38 DEF ReconcileCallFails, Fault, RoundOver, NoRound, NoPod
<1>39. CASE AdmitPod
  BY <1>39 DEF AdmitPod, Fault
<1>40. CASE ClientMounts
  BY <1>40 DEF ClientMounts
<1>41. CASE ClientExits
  BY <1>41 DEF ClientExits, Fault, Corrupt
<1>42. CASE ClientEnds
  BY <1>42 DEF ClientEnds
<1>43. CASE TerminatePod
  BY <1>43 DEF TerminatePod, Corrupt
<1>44. CASE RemovePod
  BY <1>44 DEF RemovePod, NoPod
<1>45. CASE PluginRestarts
  BY <1>45 DEF PluginRestarts, Fault, RoundOver, NoRound, NoPod
<1>46. ASSUME NEW t \in Targets, AppCreated(t) PROVE RefsInv'
  BY <1>46 DEF AppCreated
<1>47. ASSUME NEW t \in Targets, AppDeleted(t) PROVE RefsInv'
  BY <1>47 DEF AppDeleted
<1>48. ASSUME NEW t \in Targets, AppGone(t) PROVE RefsInv'
  BY <1>48 DEF AppGone, Fault
<1>49. CASE Quiet
  BY <1>49 DEF Quiet, vars
<1>50. CASE UNCHANGED vars
  BY <1>50 DEF vars
<1> QED
  BY <1>1, <1>2, <1>3, <1>4, <1>5, <1>6, <1>7, <1>8, <1>9, <1>10, <1>11, <1>12,
     <1>13, <1>14, <1>15, <1>16, <1>17, <1>18, <1>19, <1>20, <1>21, <1>22, <1>23,
     <1>24, <1>25, <1>26, <1>27, <1>28, <1>29, <1>30, <1>31, <1>32, <1>33, <1>34,
     <1>35, <1>36, <1>37, <1>38, <1>39, <1>40, <1>41, <1>42, <1>43, <1>44, <1>45,
     <1>46, <1>47, <1>48, <1>49, <1>50
     DEF Next, Publish, Unpublish, Reconcile, Environment, ReadyStep

-----------------------------------------------------------------------------
(* The steps that take references off a pod or put them on it.             *)

\* The annotations of an existing mount pod change in four steps only.
LEMMA AnnosSteps ==
  TypeOK /\ [Next]_vars /\ SameObject =>
    \/ pod'.annos = pod.annos
    \/ \E t \in Targets : AddRefReplace(t) \/ DelRefRemove(t)
    \/ RunPatch \/ RunDelay
<1> SUFFICES ASSUME TypeOK, [Next]_vars, SameObject,
                    \A t \in Targets : ~AddRefReplace(t) /\ ~DelRefRemove(t),
                    ~RunPatch, ~RunDelay
             PROVE  pod'.annos = pod.annos
  OBVIOUS
<1> USE DEF TypeOK, Pod, SameObject
<1>1. ASSUME NEW t \in Targets, NodePublishVolume(t) PROVE pod'.annos = pod.annos
  BY <1>1 DEF NodePublishVolume
<1>2. ASSUME NEW t \in Targets, Republish(t) PROVE pod'.annos = pod.annos
  BY <1>2 DEF Republish
<1>3. ASSUME NEW t \in Targets, waitUntilMount(t) PROVE pod'.annos = pod.annos
  BY <1>3 DEF waitUntilMount
<1>4. ASSUME NEW t \in Targets, CreateMountPod(t) PROVE pod'.annos = pod.annos
  BY <1>4 DEF CreateMountPod, CreatePod
<1>5. ASSUME NEW t \in Targets, CheckMountPod(t) PROVE pod'.annos = pod.annos
  BY <1>5 DEF CheckMountPod
<1>6. ASSUME NEW t \in Targets, WaitLoopTimeout(t) PROVE pod'.annos = pod.annos
  BY <1>6 DEF WaitLoopTimeout
<1>7. ASSUME NEW t \in Targets, AddRefGet(t) PROVE pod'.annos = pod.annos
  BY <1>7 DEF AddRefGet
<1>8. ASSUME NEW t \in Targets, waitUtilMountReady(t) PROVE pod'.annos = pod.annos
  BY <1>8 DEF waitUtilMountReady
<1>9. ASSUME NEW t \in Targets, checkBindAndMount(t) PROVE pod'.annos = pod.annos
  BY <1>9 DEF checkBindAndMount
<1>10. ASSUME NEW t \in Targets, PublishCallFails(t) PROVE pod'.annos = pod.annos
  BY <1>10 DEF PublishCallFails
<1>11. ASSUME NEW t \in Targets, NodeUnpublishVolume(t) PROVE pod'.annos = pod.annos
  BY <1>11 DEF NodeUnpublishVolume, Unmount
<1>12. ASSUME NEW t \in Targets, UnpublishBeforeLatePublish(t) PROVE pod'.annos = pod.annos
  BY <1>12 DEF UnpublishBeforeLatePublish, Unmount
<1>13. ASSUME NEW t \in Targets, JUmountGet(t) PROVE pod'.annos = pod.annos
  BY <1>13 DEF JUmountGet
<1>14. ASSUME NEW t \in Targets, DelRefGet(t) PROVE pod'.annos = pod.annos
  BY <1>14 DEF DelRefGet
<1>15. ASSUME NEW t \in Targets, CheckRefs(t) PROVE pod'.annos = pod.annos
  BY <1>15 DEF CheckRefs
<1>16. ASSUME NEW t \in Targets, DelPodGet(t) PROVE pod'.annos = pod.annos
  BY <1>16 DEF DelPodGet
<1>17. ASSUME NEW t \in Targets, DelPodDelete(t) PROVE pod'.annos = pod.annos
  BY <1>17 DEF DelPodDelete, DeletePod
<1>18. ASSUME NEW t \in Targets, UnpublishCallFails(t) PROVE pod'.annos = pod.annos
  BY <1>18 DEF UnpublishCallFails
<1>19. CASE ReconcileGet
  BY <1>19 DEF ReconcileGet
<1>20. CASE ReconcileList
  BY <1>20 DEF ReconcileList
<1>21. CASE RunCheck
  BY <1>21 DEF RunCheck
<1>22. CASE RunDelete
  BY <1>22 DEF RunDelete, DeletePod
<1>23. CASE RunStillDelayed
  BY <1>23 DEF RunStillDelayed
<1>24. CASE podDeletedHandler
  BY <1>24 DEF podDeletedHandler
<1>25. CASE RecoverUmount
  BY <1>25 DEF RecoverUmount
<1>26. CASE RecoverCreate
  BY <1>26 DEF RecoverCreate, CreatePod
<1>27. CASE RecoverTimeout
  BY <1>27 DEF RecoverTimeout
<1>28. CASE podErrorHandler
  BY <1>28 DEF podErrorHandler, DeletePod
<1>29. CASE ResourceError
  BY <1>29 DEF ResourceError
<1>30. CASE ResourceErrorDelete
  BY <1>30 DEF ResourceErrorDelete, DeletePod
<1>31. CASE ResourceErrorCreate
  BY <1>31 DEF ResourceErrorCreate, CreatePod
<1>32. CASE ReadyStep
  BY <1>32, ReadySteps
<1>33. CASE podPendingHandler
  BY <1>33 DEF podPendingHandler, DeletePod
<1>34. CASE ReconcileCallFails
  BY <1>34 DEF ReconcileCallFails
<1>35. CASE AdmitPod
  BY <1>35 DEF AdmitPod
<1>36. CASE ClientMounts
  BY <1>36 DEF ClientMounts
<1>37. CASE ClientExits
  BY <1>37 DEF ClientExits
<1>38. CASE ClientEnds
  BY <1>38 DEF ClientEnds
<1>39. CASE TerminatePod
  BY <1>39 DEF TerminatePod
<1>40. CASE RemovePod
  BY <1>40 DEF RemovePod, NoPod
<1>41. CASE PluginRestarts
  BY <1>41 DEF PluginRestarts
<1>42. ASSUME NEW t \in Targets, AppCreated(t) PROVE pod'.annos = pod.annos
  BY <1>42 DEF AppCreated
<1>43. ASSUME NEW t \in Targets, AppDeleted(t) PROVE pod'.annos = pod.annos
  BY <1>43 DEF AppDeleted
<1>44. ASSUME NEW t \in Targets, AppGone(t) PROVE pod'.annos = pod.annos
  BY <1>44 DEF AppGone
<1>45. CASE Quiet \/ UNCHANGED vars
  BY <1>45 DEF Quiet, vars
<1> QED
  BY <1>1, <1>2, <1>3, <1>4, <1>5, <1>6, <1>7, <1>8, <1>9, <1>10, <1>11, <1>12,
     <1>13, <1>14, <1>15, <1>16, <1>17, <1>18, <1>19, <1>20, <1>21, <1>22, <1>23,
     <1>24, <1>25, <1>26, <1>27, <1>28, <1>29, <1>30, <1>31, <1>32, <1>33, <1>34,
     <1>35, <1>36, <1>37, <1>38, <1>39, <1>40, <1>41, <1>42, <1>43, <1>44, <1>45
     DEF Next, Publish, Unpublish, Reconcile, Environment, ReadyStep

\* What LiveRefsKept says of one step.
LEMMA LiveRefsStep == TypeOK /\ RefsInv /\ [Next]_vars => [KeepsLiveRefs]_vars
<1> SUFFICES ASSUME TypeOK, RefsInv, [Next]_vars, SameObject,
                    NEW t \in Targets, app[t] = "live", t \in pod.annos
             PROVE  t \in pod'.annos
  BY DEF KeepsLiveRefs
<1> USE DEF TypeOK, Pod, SameObject
\* The map AddRefOfMount writes holds every reference on the pod.
<1>1. ASSUME NEW u \in Targets, AddRefReplace(u) PROVE t \in pod'.annos
  BY <1>1 DEF AddRefReplace, RefsInv, AddRefMapFresh, Refs
\* JUmount removes the reference of an application pod that was deleted.
<1>2. ASSUME NEW u \in Targets, DelRefRemove(u) PROVE t \in pod'.annos
  BY <1>2 DEF DelRefRemove, RefsInv, UnpublishAfterDeletion
\* Run removes stale references only, and those are gone.
<1>3. CASE RunPatch
  BY <1>3, TargetsAssumption DEF RunPatch, DelAnnos, RefsInv, StaleRefsGone
<1>4. CASE RunDelay
  BY <1>4 DEF RunDelay
<1> QED
  BY <1>1, <1>2, <1>3, <1>4, AnnosSteps

\* What RefsAddedByPublish says of one step.
LEMMA AddedRefsStep == TypeOK /\ RefsInv /\ [Next]_vars => [AddsOwnRef]_vars
<1> SUFFICES ASSUME TypeOK, RefsInv, [Next]_vars, SameObject,
                    NEW t \in Targets, t \notin pod.annos, t \in pod'.annos
             PROVE  pub[t] = "replace" \/ app[t] = "gone"
  BY DEF AddsOwnRef
<1> USE DEF TypeOK, Pod, SameObject
\* Only its own reference is new in the map, or one that Run removed as stale.
<1>1. ASSUME NEW u \in Targets, AddRefReplace(u) PROVE pub[t] = "replace" \/ app[t] = "gone"
  BY <1>1 DEF AddRefReplace, RefsInv, AddRefMapFresh
<1>2. ASSUME NEW u \in Targets, DelRefRemove(u) PROVE FALSE
  BY <1>2 DEF DelRefRemove
<1>3. CASE RunPatch
  BY <1>3 DEF RunPatch
<1>4. CASE RunDelay
  BY <1>4, TargetsAssumption DEF RunDelay
<1> QED
  BY <1>1, <1>2, <1>3, <1>4, AnnosSteps

-----------------------------------------------------------------------------
(* The refinement of RefSet.                                               *)

AbsentIsBare == ~pod.exists => pod = NoPod

AppStep == \E t \in Targets : AppCreated(t) \/ AppDeleted(t) \/ AppGone(t)

\* A pod that does not exist has no annotations, and the application pods move in
\* steps of their own.
LEMMA PodAppSteps ==
  TypeOK /\ AbsentIsBare /\ [Next]_vars => AbsentIsBare' /\ (UNCHANGED app \/ AppStep)
<1> SUFFICES ASSUME TypeOK, AbsentIsBare, [Next]_vars
             PROVE  AbsentIsBare' /\ (UNCHANGED app \/ AppStep)
  OBVIOUS
<1> USE DEF TypeOK, Pod, AbsentIsBare
<1>1. ASSUME NEW t \in Targets, Publish(t) PROVE AbsentIsBare' /\ UNCHANGED app
  BY <1>1 DEF Publish, NodePublishVolume, Republish, waitUntilMount, CreateMountPod, CreatePod,
              MountPodWith, CheckMountPod, WaitLoopTimeout, AddRefGet, AddRefReplace,
              waitUtilMountReady, checkBindAndMount, PublishCallFails
<1>2. ASSUME NEW t \in Targets, Unpublish(t) PROVE AbsentIsBare' /\ UNCHANGED app
  BY <1>2 DEF Unpublish, Unmount, NodeUnpublishVolume, UnpublishBeforeLatePublish, JUmountGet,
              DelRefGet, DelRefRemove, CanRemove, CheckRefs, DelPodGet, DelPodDelete, DeletePod,
              UnpublishCallFails
<1>3. CASE Reconcile
  BY <1>3, ReadySteps
     DEF Reconcile, ReadyStep, ReconcileGet, ReconcileList, RunCheck, RunPatch, CanRemove, RunDelete,
              RunDelay, RunStillDelayed, podDeletedHandler, RecoverUmount, RecoverCreate,
              RecoverTimeout, podErrorHandler, ResourceError, ResourceErrorDelete,
              ResourceErrorCreate, podPendingHandler, ReconcileCallFails, RecLocal, CreatePod, MountPodWith, DeletePod
<1>4. CASE AdmitPod \/ ClientMounts \/ ClientExits \/ ClientEnds \/ TerminatePod \/ RemovePod
           \/ PluginRestarts
  BY <1>4 DEF AdmitPod, ClientMounts, ClientExits, ClientEnds, TerminatePod, RemovePod,
              PluginRestarts, NoPod
<1>5. CASE AppStep
  BY <1>5 DEF AppStep, AppCreated, AppDeleted, AppGone
<1>6. CASE Quiet \/ UNCHANGED vars
  BY <1>6 DEF Quiet, vars
<1> QED
  BY <1>1, <1>2, <1>3, <1>4, <1>5, <1>6 DEF Next, Environment, AppStep

\* Every step is a step of RefSet, or changes nothing RefSet knows of.
LEMMA RefSetStep ==
  TypeOK /\ RefsInv /\ AbsentIsBare /\ [Next]_vars =>
    [RefSetOfPod!Next]_(RefSetOfPod!vars)
<1> SUFFICES ASSUME TypeOK, RefsInv, AbsentIsBare, [Next]_vars
             PROVE  RefSetOfPod!Next \/ UNCHANGED RefSetOfPod!vars
  OBVIOUS
<1>1. TypeOK' /\ RefsInv' /\ AbsentIsBare'
  BY TypeStep, RefsStep, PodAppSteps
<1> USE DEF TypeOK, Pod
<1>2. CASE AppStep
  <2>1. PICK t \in Targets : AppCreated(t) \/ AppDeleted(t) \/ AppGone(t)
    BY <1>2 DEF AppStep
  <2>2. UNCHANGED pod
    BY <2>1 DEF AppCreated, AppDeleted, AppGone
  <2>3. \/ RefSetOfPod!AppMoves(t, "none", "live")
        \/ RefSetOfPod!AppMoves(t, "live", "term")
        \/ RefSetOfPod!AppMoves(t, "term", "gone")
    BY <2>1, <2>2 DEF AppCreated, AppDeleted, AppGone, RefSetOfPod!AppMoves, Refs
  <2> QED
    BY <2>3 DEF RefSetOfPod!Next
<1>3. CASE UNCHANGED app /\ ~pod.exists /\ pod'.exists
  \* Whoever deploys the pod, its references have owners.
  <2>1. RefSetOfPod!Deploy(Refs(pod'))
    BY <1>1, <1>3 DEF AbsentIsBare, RefsInv, RefsHaveOwners, RefSetOfPod!Deploy, RefSetOfPod!Known, Refs
  <2>2. Refs(pod') \in SUBSET Targets
    BY DEF Refs
  <2> QED
    BY <2>1, <2>2 DEF RefSetOfPod!Next
<1>4. CASE UNCHANGED app /\ pod.exists /\ ~pod'.exists
  <2>1. RefSetOfPod!Remove
    BY <1>1, <1>4 DEF AbsentIsBare, NoPod, RefSetOfPod!Remove, Refs
  <2> QED
    BY <2>1 DEF RefSetOfPod!Next
<1>5. CASE UNCHANGED app /\ ~pod.exists /\ ~pod'.exists
  BY <1>1, <1>5 DEF AbsentIsBare, RefSetOfPod!vars, Refs
<1>6. CASE UNCHANGED app /\ SameObject
  <2> USE DEF SameObject
  <2>1. CASE pod'.annos = pod.annos
    BY <1>6, <2>1 DEF RefSetOfPod!vars, Refs
  \* The map AddRefOfMount writes: what was there, its own, and some that are gone.
  <2>2. ASSUME NEW t \in Targets, AddRefReplace(t) PROVE RefSetOfPod!Next
    <3> DEFINE S == (ann[t] \cap Targets) \ (Refs(pod) \cup {t})
    <3>1. S \in SUBSET Targets /\ S \subseteq RefSetOfPod!Gone
      BY <1>6, <2>2 DEF AddRefReplace, RefsInv, AddRefMapFresh, RefSetOfPod!Gone, Refs
    <3>2. app[t] # "none" /\ Refs(pod) \cup {t} \subseteq ann[t] /\ pod'.annos = ann[t]
      BY <1>6, <2>2 DEF AddRefReplace, RefsInv, AddRefMapFresh, RefsHaveOwners
    <3>3. RefSetOfPod!AddRef(t, S)
      BY <1>6, <3>1, <3>2 DEF RefSetOfPod!AddRef, RefSetOfPod!Known, Refs
    <3> QED
      BY <3>1, <3>3 DEF RefSetOfPod!Next
  <2>3. ASSUME NEW t \in Targets, DelRefRemove(t) PROVE RefSetOfPod!Next
    <3>1. pod'.annos = pod.annos \ {t} \/ UNCHANGED pod
      BY <2>3 DEF DelRefRemove
    <3>2. app[t] \in {"term", "gone"}
      BY <2>3 DEF DelRefRemove, RefsInv, UnpublishAfterDeletion
    <3>3. RefSetOfPod!Drop(Refs(pod) \ Refs(pod'))
      BY <1>6, <3>1, <3>2 DEF RefSetOfPod!Drop, Refs
    <3> QED
      BY <3>3 DEF RefSetOfPod!Next, Refs
  <2>4. CASE RunPatch
    <3>1. pod'.annos = pod.annos \ DelAnnos \/ UNCHANGED pod
      BY <2>4 DEF RunPatch
    <3>2. \A u \in DelAnnos \cap Targets : app[u] = "gone"
      BY <2>4, TargetsAssumption DEF RunPatch, DelAnnos, RefsInv, StaleRefsGone
    <3>3. RefSetOfPod!Drop(Refs(pod) \ Refs(pod'))
      BY <1>6, <3>1, <3>2 DEF RefSetOfPod!Drop, Refs
    <3> QED
      BY <3>3 DEF RefSetOfPod!Next, Refs
  <2>5. CASE RunDelay
    <3>1. Refs(pod') = Refs(pod)
      BY <1>6, <2>5, TargetsAssumption DEF RunDelay, Refs
    <3> QED
      BY <1>6, <3>1 DEF RefSetOfPod!vars
  <2> QED
    BY <1>6, <2>1, <2>2, <2>3, <2>4, <2>5, AnnosSteps
<1> QED
  BY <1>2, <1>3, <1>4, <1>5, <1>6, PodAppSteps DEF SameObject

-----------------------------------------------------------------------------
(* The theorems.                                                           *)

\* Type correctness of the whole node: publish and unpublish calls, reconciler,
\* kubelet and application pods.
THEOREM TypeCorrect == Spec => []TypeOK
<1>1. Init => TypeOK
  BY ConfigAssumption DEF Init, TypeOK, NoPod, Pod, Phases, NoRound, Round
<1> QED
  BY <1>1, TypeStep, PTL DEF Spec

\* The locks exclude, and the reconciler's view of stale references is sound.
THEOREM RefsInvariant == Spec => []RefsInv
<1>1. Init => RefsInv
  BY DEF Init, RefsInv, LocksExclusive, AddRefMapFresh, UnpublishAfterDeletion,
         StaleRefsGone, RefsHaveOwners, InPodLock, PubInJLock, NoPod, NoRound
<1> QED
  BY <1>1, TypeCorrect, RefsStep, PTL DEF Spec

\* AddRefOfMount's read-modify-write of the annotation map loses no reference.
THEOREM AddRefLosesNothing == Spec => []AddRefSeesAllRefs
<1>1. RefsInv => AddRefSeesAllRefs
  BY DEF RefsInv, AddRefMapFresh, AddRefSeesAllRefs
<1> QED
  BY <1>1, RefsInvariant, PTL

\* No schedule and no fault makes the code drop the reference of a running
\* application pod from a mount pod that stays.
THEOREM RunningRefsStay == Spec => LiveRefsKept
  BY TypeCorrect, RefsInvariant, LiveRefsStep, PTL DEF Spec, LiveRefsKept

\* A reference that was removed comes back by its own publish only, or as one
\* whose application pod is gone.
THEOREM NoRefResurrected == Spec => RefsAddedByPublish
  BY TypeCorrect, RefsInvariant, AddedRefsStep, PTL DEF Spec, RefsAddedByPublish

\* PodDriver.Run never deletes a mount pod because of a reference that it takes for stale
\* while its application pod is still there.
THEOREM DeletesUnusedOnly == Spec => RunDeletesUnused
<1>1. ASSUME StaleRefsGone, RunDelete PROVE \A t \in Refs(rec.snap) : app[t] = "gone"
  <2>1. rec.pc \notin {"idle", "list"}
    BY <1>1 DEF RunDelete, Checked
  <2>2. Refs(rec.snap) \subseteq StaleRefs
    BY <1>1 DEF RunDelete, Unused, ExistTargets, StaleRefs
  <2> QED
    BY <1>1, <2>1, <2>2 DEF StaleRefsGone
<1>2. RefsInv /\ [Next]_vars => [RunDelete => \A t \in Refs(rec.snap) : app[t] = "gone"]_vars
  BY <1>1 DEF RefsInv
<1> QED
  BY <1>2, RefsInvariant, PTL DEF Spec, RunDeletesUnused

\* The mount pod's annotations, under every interleaving of the calls that write
\* them and under every fault, behave as the reference set of RefSet.
THEOREM Refinement == Spec => ImplementsRefSet
<1>1. Init => RefSetOfPod!Init /\ AbsentIsBare
  BY DEF Init, RefSetOfPod!Init, AbsentIsBare, NoPod, Refs
<1>2. Spec => []AbsentIsBare
  BY <1>1, TypeCorrect, PodAppSteps, PTL DEF Spec
<1> QED
  BY <1>1, <1>2, TypeCorrect, RefsInvariant, RefSetStep, PTL
     DEF Spec, ImplementsRefSet, RefSetOfPod!Spec

=============================================================================
