# A TLA+ model of the SandStone MOSFS CSI driver

The driver makes directories of a shared file system available to Kubernetes
pods. This directory holds TLA+ specifications of its stateful parts, the
configurations with which TLC checks them, and proofs that TLAPS checks.

| file | what it is |
|---|---|
| `MountPod.tla` | a mount pod of one node, from the first publish to its deletion, and its recovery |
| `RefSet.tla` | what the reference annotations of a mount pod promise; `MountPod` and `PodController` implement it |
| `MountPodProofs.tla` | the inductive invariant of the reference annotations and the refinement, proved |
| `MountPodRecoveryProofs.tla` | proofs that a publish leaves its reference, and that no write to the pod loses a record |
| `BindTarget.tla` | the mount table under one target: bind mounts that stack, die and are bound again |
| `BindTargetProofs.tla` | facts about the mount table; that a published target keeps a mount and an unpublished one is clean, proved |
| `PodController.tla` | the watching pod manager: events, queue, requeue, and the delayed deletion |
| `PodControllerProofs.tla` | that rounds act on sound lists and implement `RefSet`, and that the deletion waits for the delay, proved |
| `ReconcileRound.tla` | the polling reconciler's rounds over several mount pods |
| `ReconcileRoundProofs.tla` | that rounds never overlap and back-offs stay bounded, proved |
| `ControllerService.tla` | volumes and snapshots: create, delete, snapshot, clone, expand |
| `VolumeStore.tla` | what the controller service promises its orchestrator; `ControllerService` implements it |
| `ControllerServiceSteps.tla` | lemmas: what one step may touch; locks, requests, mounts and quotas are kept |
| `ControllerServiceProofs.tla` | the inductive invariant of its handlers and the refinement, proved |
| `Warmup.tla`, `WarmupProofs.tla` | the cache warm-up controller, and its invariant proved |
| `MCMountPod.tla`, `MCControllerService.tla`, `MCWarmup.tla` | symmetry sets and constants for TLC |
| `*.cfg` | one run each |
| `PROJECT.json` | which definition models which lines, the runs, the mutants, findings, hazards |

To check: `tlc -config recovery.cfg MCMountPod`, `tlapm MountPodProofs.tla`.
No run turns off the deadlock check: `Quiet` (in `MountPod`, `ControllerService` and
`Warmup`) is the one state in which the system may rest; the other modules have clients,
clocks or rounds that never stop.

## The system

**Node plugin** (one per node). For each application pod that uses a volume the
kubelet calls `NodePublishVolume` (`pkg/driver/node.go`) with a target path. The
file system is not mounted by the plugin itself but by a *mount pod*: a pod named
after the node and the volume (or the storage class, with
`STORAGE_CLASS_SHARE_MOUNT`), which `PodMount` (`pkg/juicefs/mount/pod_mount.go`)
creates when it is first needed. Who uses a mount pod is recorded in its
annotations: `mosfs-<sha of target>` -> target. The plugin waits until the mount
path shows a mounted file system, then bind-mounts the volume's directory to the
target. `NodeUnpublishVolume` undoes this and deletes the mount pod with its last
reference, possibly after a configured delay (`mosfs-delete-delay`,
`mosfs-delete-at`).

**Recovery** runs in the same process. `PodController` (watching) or `doReconcile`
(polling the kubelet) hands each mount pod, with a list of the application pods
that exist, to `PodDriver.Run` (`pkg/controller/pod_driver.go`). It removes stale
references, deletes pods nobody refers to, and calls a handler by status: a pod
whose mount is broken is deleted (`podErrorHandler`, `podPendingHandler`), a
deleted pod that is still referred to is deployed again (`podDeletedHandler`, by
way of a finalizer), and corrupted targets of a ready pod are bound again
(`podReadyHandler`).

Publish, unpublish and recovery meet in the pod object, the mount path and the
targets. Between them stand two locks in memory (`JLock`, and one of 1024 by the
hash of the pod's name); every call on the API server is by name, without a UID or
resource version. The hard behaviours are all here: reads that are stale when they
are used, pods replaced by pods of the same name, calls that fail or come late,
restarts of the plugin, of the client and of the kubelet.

**Controller plugin** (one per cluster). `CreateVolume`, `DeleteVolume`,
`CreateSnapshot`, `DeleteSnapshot` and `ControllerExpandVolume`
(`pkg/driver/controller.go`, `pkg/juicefs/juicefs.go`) mount the file system in the
plugin's own process, make, copy or remove a directory, set quotas and QoS over
HTTP at the console (`pkg/juicefs/console.go`), and unmount. A request is refused
while another one with the same id runs (`ObjLocks`). A handler that fails leaves
behind what it has done, and the orchestrator repeats the request.

**Warm-up controller** (one active per cluster, by leader election). A `Cache` object
names a claim and a path; `Reconcile` (`pkg/warmup/controllers/cache_controller.go`)
finds the nodes whose pods use the claim, runs `dfscli warmup` in the mount pod of each,
and writes `cached` or an error message into the object's status.

| component | state | operations | module |
|---|---|---|---|
| node service | targets, mount table | NodePublishVolume, CreateTarget, checkBindAndMount, NodeUnpublishVolume | `MountPod`, `BindTarget` |
| PodMount | pod object, annotation map, locks | waitUntilMount, AddRefOfMount, waitUtilMountReady, JUmount | `MountPod`, abstractly `RefSet` |
| PodDriver | snapshot, list of application pods | Run, four handlers | `MountPod`; podReadyHandler also `BindTarget` |
| pod manager (watching) | queue, timer, delete-at time | Reconcile, ListAppPod, SetupWithManager | `PodController`, abstractly `RefSet` |
| polling reconciler | back-off, error group | doReconcile | `ReconcileRound` |
| controller service | locks, remembered capacities | five requests | `ControllerService`, abstractly `VolumeStore` |
| provider, console client | process mounts, directories, quotas | CreateVol, createSnap, DeleteVol, JfsMount, JfsUnmount, quotas | `ControllerService` |
| warm-up controller | Cache object, manager's cache, queue, leader | Reconcile, warmUp, warmUpAll | `Warmup` |
| identity, set-up, settings | none | | not modelled |

`MountPod` has the single calls, and treats three things coarsely: the mount table (a
target shows one thing), time (a delete-at time may have passed), and the scheduling of
rounds (there is always another one). `BindTarget`, `PodController` and `ReconcileRound`
are the same code seen from these three sides, with the calls coarse instead: a publish or
an unpublish of the mount pod is one step there.

## MountPod

One mount pod, one node, any set `Targets` of application pods; a reference
annotation is named by its target. Annotation *values* are dropped: a delete-at
time that is set may have passed or not.

| variable | in the code |
|---|---|
| `pod` | the object in the API server: exists, deletion timestamp, finalizer, resource requests, annotations; `phase` is what the kubelet reports of its container |
| `mnt` | the mount path: nothing mounted, a live client, a dead one |
| `bind[t]` | what target `t` shows: absent, an empty directory (`dir`), a live or dead client, or what recovery may bind by mistake: the file system's `root`, the `bare` directory of the node |
| `app[t]` | the application pod, as the API server lists it |
| `pub[t]`, `ann[t]` | the NodePublishVolume of `t` and the annotation map AddRefOfMount has read |
| `unp[t]` | the NodeUnpublishVolume of `t` |
| `rec` | the round of the reconciler, with its snapshot and list |

Every call on the API server, and every stretch of code between two of them, is one
action that carries the name of the function it belongs to. `hasRef`, `Refs` and the
patches behave as the vendored code does: `hasRef` also counts the two delay keys
(so the delay branch of JUmount is dead code and only Run deletes a delayed pod); a
JSON patch that removes an absent key fails; `replace` on `/metadata/annotations`
succeeds even if there is none (evanphx/json-patch v4.12); creating a pod that
exists is no error. The mutexes are not variables: a lock is held exactly while the
holder's counter is between Lock and Unlock (`InPodLock`, `RecInPodLock`,
`PubInJLock`, `UnpInJLock`).

External, and modelled from how the code relies on it: the kubelet starts, stops and
removes pods and honours finalizers; a client that dies leaves dead mounts; a client
does not start over a dead mount; the preStop hook unmounts.

Faults are named in `Faults` and at most `MaxFaults` happen: `api` (a call fails),
`client` (the client exits), `plugin` (the plugin restarts), `kubelet` (it publishes
again), `late` (an unpublish overtakes a publish), `force` (an application pod is
deleted by force), `slow` (a start, a stop or a stat outlasts the code's
timeout), `umount` (recovery's umount of the mount path fails), `resources` (the node
refuses the pod).

A mount pod has no readiness probe (NewMountPod), so it counts as Ready as soon as its
container runs: podReadyHandler may find the mount path bare. It looks for the volume's
directory, falls back to the mount path if that is missing, then stats and binds one target
after the other; these are steps of their own (`podReadyHandler`, `podReadyFallback`,
`podReadyStat`, `podReadyBind`), between which clients, publishes and umounts go on.

Where the code's outcome depends on what the model leaves out, both outcomes are
possible: `checkBindAndMount` takes the address of its loop variable (node.go:178,
go 1.14), so a target in the mount table is left as it is or bound again; `BindTarget`
says which.

### What the runs show

| run | bounds | checks |
|---|---|---|
| `refs_any_fault` | 2 targets, any 1 fault, delay, resources, shared mount | `RefsInv`, `AddRefSeesAllRefs`, `LiveRefsKept`, `RefsAddedByPublish`, `ImplementsRefSet`, `RunDeletesUnused`, `PublishLeavesRef`, `WritesKeepRecords` |
| `recovery` | 1 target, with and without delay, any 1 fault but `resources` | `PublishedIsRecorded`, `PublishSucceeds`, `Recovers`, `MountPodReclaimed` |

Two targets are the fewest with which one publish or unpublish can disturb the other
and Run can see one of two references; the proofs remove the bound. Liveness is
checked with one target, where every action still happens; a fault that happens once
is followed by unboundedly many rounds.

The bounds of `recovery` are where the promises *hold*. Just outside they do not, and the
runs that expect a violation say so:

| run | shows | against |
|---|---|---|
| `publish_during_recovery` | recovery deploys its snapshot's annotations and drops a newer reference | pod_driver.go:386 |
| `recovery_source` | recovery's fallback binds a target to the bare directory of the node, or to the root of a shared file system | pod_driver.go:344 |

Relatives of these are reachable in the same model and have no run of their own:

* podDeletedHandler removes the finalizer before it takes the pod lock, so `RecoverUmount`
  can happen with a newer pod mounted (pod_driver.go:258); `PublishSucceeds` names this as
  the one thing that may keep a publish from succeeding;
* `PublishLeavesRef` holds only while no API call has failed: AddRefOfMount hides every error
  of its patch but a conflict (pod_mount.go:311). It speaks of the end of the section under
  the pod lock. Between it and the bind mount a round with a stale snapshot may delete the
  pod and deploy it again without the reference; this takes three targets and no fault;
* `MountPodReclaimed` fails with the fault `resources` and `HasResources`: a deleted pod
  with a resource error keeps its finalizer for ever (pod_driver.go:251);
* `PublishedIsRecorded` fails without any fault for two targets with `Churn` (a publish
  adds its reference to a pod that has been deleted since waitUntilMount looked,
  pod_mount.go:213), and for one target when the plugin restarts between the removal of
  the finalizer and CreatePod (`Faults = {"client", "plugin"}`, `MaxFaults = 2`);
* the trace of `recovery_source` ends with a `bare` target: the pod that was deployed again
  is Ready, its client has not mounted, the directory of the volume is missing and the mount
  path is taken instead. `ShareMount = FALSE` does not prevent it. With `ShareMount` every
  recovered target shows the `root` once the client has mounted. podReadyHandler binds only
  dead targets, so a target that was bound to the bare directory stays as it is, and the
  application writes to the disk of the node;
* Run deletes a pod that was referred to after the snapshot was taken (pod_driver.go:122).
  `RunDeletesUnused` says how far this goes: whatever the snapshot did refer to is no longer
  in use when the pod is deleted.

`Recovers` therefore promises that a dead target is bound again, and not to what.

### Fairness

`FairSpec` assumes of the code only that goroutines run: strong fairness for the
publish, unpublish and reconcile steps, because they wait for Go mutexes (which are
starvation free) or race with each other for the pod; that a call in waitUntilMount's
loop, which is bounded, sees one of its outcomes; that the reconciler keeps polling
and a delete-at time passes (`RunDelete`; the watching manager, which has a next round only
after an event, a requeue or an error, is `PodController`); and that the kubelet does its work. Nothing
is assumed of faults, application pods or users. `PublishSucceeds` is conditional: it
is promised if podDeletedHandler does not for ever unmount newer pods.

### What is proved

`MountPodProofs` proves for every set of targets, every configuration, any faults and
any `MaxFaults`:

* `TypeCorrect`: `Spec => []TypeOK`;
* `RefsInvariant`: `Spec => []RefsInv`;
* `AddRefLosesNothing`: `Spec => []AddRefSeesAllRefs`;
* `RunningRefsStay`: `Spec => LiveRefsKept`, the central safety property: no step takes
  the reference of a running application pod off its mount pod;
* `NoRefResurrected`: `Spec => RefsAddedByPublish`;
* `Refinement`: `Spec => ImplementsRefSet`, where the mapping takes the pod's existence,
  its reference annotations and the application pods. `RefSet` adds, drops and deploys
  references in single steps, and drops none of a running application pod;
* `DeletesUnusedOnly`: `Spec => RunDeletesUnused`: when Run deletes the pod, the application
  pods of all references in its snapshot are gone.

The assumptions are `TargetsAssumption` (a reference key is not a delay key) and
`ConfigAssumption` (types of the constants). None of the last five is inductive.
AddRefOfMount replaces the *whole* annotation map with one it read a step earlier, so
one has to know that nothing was added in between: every writer that adds holds the
pod lock (`LocksExclusive`), and JUmount, which removes, holds JLock; Run holds
neither, but removes only references of application pods that are gone
(`StaleRefsGone`), because it lists application pods *after* it read the mount pod, a
reference implies that its application pod has existed (`RefsHaveOwners`), and none
comes back. `AddRefMapFresh` ties the map to the pod, and `UnpublishAfterDeletion` says
why JUmount never removes the reference of a running pod. `RefsInv` is the conjunction;
`RefsStep` shows it inductive relative to `TypeOK`, one step per action, and the action
properties and the refinement follow from it step by step (`LiveRefsStep`,
`AddedRefsStep`, `RefSetStep`).

`MountPodRecoveryProofs` builds on these, again for every set of targets and any
`MaxFaults`:

* `PublishKeepsRef`: `Spec => PublishLeavesRef`;
* `RecordsOutliveWrites`: `Spec => WritesKeepRecords`: no write to the mount pod, by a patch
  or by deploying it again, loses the record of a running application pod's target. The record
  is the pod's annotation, or the snapshot a recovery will deploy. It can be lost where the
  pod is removed and no recovery knows the target (`publish_during_recovery`), and where a
  recovery is given up (a restart, a failed call, a pod that outlasts the wait); the proof
  says that there is no other way.

`PublishKeepsRef` needs that a publish which waits for its client has its reference on the
pod, if there is one (`WaitsWithRef`): AddRefOfMount has written it, the pod lock keeps
recovery from deploying another pod, and by `RefsInv` nothing else takes the reference of a
running application pod away. `RecordsOutliveWrites` takes the two places of a record in
turn: on the pod, a reference of a running application pod is kept by every patch
(`LiveRefsStep`); with a recovery, the round keeps its snapshot until it deploys the pod with
all of it, or ends without touching the pod (`RecoveryEnds`).

Only model-checked: `PublishSucceeds`, `Recovers` and `MountPodReclaimed`, which are
liveness.

## BindTarget

One target, one mount path, and what else is mounted on the node, as entries of
`/proc/self/mountinfo` in the order of mounting. The last entry of a path is what it
shows. A client is the minor device number of its file system; an entry of a dead client
is a corrupted mount; the file systems of the node itself have minor 0. `pc` is the kubelet's
request, `rec` and `src` are the podReadyHandler: it looks for its source, falls back to the
mount path, stats the target and binds, each in a step of its own. A reference may fail to be
written (pod_mount.go:311) or be left out when podDeletedHandler deploys an older copy of the
annotations; without it no round binds the target. The umount of podDeletedHandler and the
start of the next client are separate steps, and the mount path is bare between them (that
this umount may fail is part of `MountPod`). External: the table, the clients,
CleanupMountPoint (one umount, then the directory is removed unless it is still a mount
point), and that a umount of a busy mount fails.

| run | bounds | checks |
|---|---|---|
| `bind_target` | 2 clients, 1 failing call, 2 rounds that fall into an unpublishing | `TypeOK`, `UnpublishedIsClean`, `PublishedIsMounted`, `TargetHeals`, `UnpublishEnds` |
| `already_bound` (violation) | 2 clients, no fault | `AlreadyBound` |

Two clients let the next one meet a target with a dead layer, on which recovery has stacked a
bare one or not. `MaxRaces` bounds how
often podReadyHandler interferes with one unpublishing: rounds are five seconds apart; if
one fell between every two umounts the unpublishing would go on for ever. `already_bound`
shows the comparison with the wrong entry of the table (against node.go:186); `TargetHeals`
shows that the target is not left dead: the pod driver binds it again in a later round, as
long as its reference is with the mount pod. It may be bound to the bare mount path (see
`recovery_source`), so the property does not say that the application sees its volume again.
Fairness: handlers run, the kubelet repeats requests that failed, rounds come, and a mount
pod whose client died is started again (up to `MaxClients`).

`BindTargetProofs` proves for any `MaxClients`, `MaxFaults` and `MaxRaces`, from
`BoundsAssumption`:

* `TypeCorrect`: `Spec => []TypeOK`, with the fact that there is at most one mount on the
  mount path;
* `UnpublishedStaysClean`: `Spec => []UnpublishedIsClean`;
* `PublishedStaysMounted`: `Spec => []PublishedIsMounted`: a published target has its
  directory and a mount on it, although checkBindAndMount compares the wrong entry: a client,
  live or dead, or what the fallback of recovery has bound on top. The plain directory of the
  target is not exposed; the bare mount path may be, by that fallback.

The table is a sequence from which a umount removes the last entry of a path, so the module
starts with lemmas about that: `PlaceIsLast` (what SelectLastInSeq finds), `RemoveKeeps` and
`AppendAdds` (which paths have an entry afterwards), and `TableStep` (only Mount and
RecoverBind put something on the target, and only onto a directory). The inductive
invariant `CleanInv` adds `MountedOnDir` to the property: a target with something mounted on
it has its directory, so when CleanupMountPoint or RemoveTarget has removed the directory,
a bind that podReadyHandler decided on earlier fails. `PublishedStaysMounted` builds on it
(`PublishedStep`): where checkBindAndMount is content there is an entry for the target, hence a
directory; and the umounts of the mount path and of other mounts leave the target's entries alone
(`RemoveLeavesOthers`, `OthersLeaveTarget`).

## PodController

One mount pod with a delete delay, `Targets` that refer to it, and the watching pod
manager. Time is kept as time *left*, in ticks: of the delete-at annotation (`at`), of the
requeue (`timer`) and of the annotation that the running round has read (`rec.at`). `Zone`
is how far the plugin's local time is ahead of UTC: GetTimeAfterDelay writes local time and
GetTime reads UTC (util.go:240). `event` is a change the watch has not delivered, `queued`
the work queue, which holds a key once. `idle` and `raced` only observe. An application pod is
published (`bound`), then terminating (`term`), or deleted by force so that it vanishes before
its unpublish comes (`forced`); ListAppPod still lists one that is terminating.

| run | bounds | checks |
|---|---|---|
| `delayed_delete` | 2 targets, a delay of 2 ticks, zone +1, 1 failing call | `TypeOK`, `RoundIsSound`, `ImplementsRefSet`, `DeletedAfterDelay`, `UnusedIsDeleted`, `DelayIsCancelled` |

A delay of two leaves room for a publish and an unpublish inside it. With `Zone = -1`
`DeletedAfterDelay` fails: west of UTC the pod goes too early. `raced` excuses a publish
that falls between the two reads of a round, which is the stale deletion listed above.
A round is taken for the next one when the watch delivers (`Deliver`), when the requeue is
due (`TimerFires`) or when the last one ended with an error. The application pods are not
watched: a reference whose unpublish never comes, as after a deletion by force, is found only if
one of these happens, so `UnusedIsDeleted` begins when the last reference is gone.
Fairness: the watch delivers, time passes, and the controller's worker runs. Nothing is
assumed of application pods.

`PodControllerProofs` proves for any targets, any delay, any zone and any `MaxFaults`, from
`DelayAssumption`:

* `TypeCorrect`: `Spec => []TypeOK`;
* `RoundsAreSound`: `Spec => []RoundIsSound`: what a round takes for stale belongs to
  application pods that no longer exist;
* `Refinement`: `Spec => ImplementsRefSet`, the same abstract set of references that `MountPod`
  implements, with a whole round of Run as a step and the watch, queue and timer around it;
* `DeletedAfterShortestDelay`: no pod is deleted, but for the races that `raced` excuses,
  before it has been unused for `ShortestDelay`, which is the delay, or west of UTC what
  the written time leaves of it;
* `WholeDelayWaited`: `Zone >= 0 => (Spec => DeletedAfterDelay)`.

`RoundIsSound` is inductive: the round reads the pod first and the application pods after it, a
reference is of an application pod that was published by then, and one that is gone never
comes back. The refinement follows step by step (`RunDrops`, `RefSetStep`).

The delete-at time is checked in one step and acted on in another, and the round acts on
the copy it has read. `DelayInv` says that the annotation stands on an unused pod only, that
the time left and the time unused make up the delay (`AtIsOfUnused`), and that the round's
copy is up to date (`RoundIsFresh`): a publish clears the annotation or is noted in `raced`,
and the clocks run together.

## ReconcileRound

doReconcile over the mount pods of the node. Each round has an errgroup; `g[p]` is the
goroutine of pod `p`, `err` the variable of doReconcile that all goroutines assign, `ctx`
the context that the first error, or `ReconcileTimeout`, cancels. Between the assignment
of `err` and the `if err != nil` another goroutine may assign it, so a goroutine can take
another's failure for its own (`Check`), or return nil after all (`ReturnErr`). `backoff`
and `since` are the entries of the flowcontrol.Backoff: the current back-off and the time since
the entry was updated, in periods of five seconds; an entry older than twice the longest
back-off counts as none (`Expired`), which is why it does not matter when `GC` runs. `failing` are the pods whose runs fail
of themselves, `todo` those that have something to be done; both change at any time.

| run | bounds | checks |
|---|---|---|
| `reconcile_round` | 2 pods, back-offs up to 4 periods, 1 failed list or time-out | `TypeOK`, `RoundsApart`, `RunAgain`, `WorkIsDone` |

Two pods are enough for one to disturb the other in every way the code allows. Back-offs
must be able to outlast a round, and a round may take two periods, hence four. The
properties are conditional because the code promises no more: with *two* pods that fail in
turn a third can be left out for ever, if its goroutine always starts after the
cancellation; and a pod that never fails of itself can have every run cancelled by one that
always fails faster. Fairness: the loop and its goroutines run.

`ReconcileRoundProofs` proves for any mount pods, any longest back-off, any lag between two
rounds and any `MaxFaults`, from `BoundsAssumption`:

* `TypeCorrect`: `Spec => []TypeOK`, with the bounds that Backoff keeps: no pod is left out for
  longer than `maxRetryPeriod` at a time (`NextBackOffBound`), no entry outlives twice that;
* `NoOverlap`: `Spec => []RoundsApart`: no goroutine outlives its round, whatever failed, was
  cancelled or timed out, so no mount pod is run twice at once.

`RunAgain` and `WorkIsDone` are liveness and only model-checked.

## ControllerService

An object is a volume or a snapshot; its directory is `none`, `partial` (a snapshot
command is filling it) or `full`. A handler runs in a slot, each command, file-system
call and console call is an action. The locked ids are those of the running handlers.

| variable | in the code |
|---|---|
| `dirs`, `quota` | the file system and the console |
| `vols` | `controllerService.vols` |
| `mounts[p]` | mounts stacked at a process mount path |
| `call[c]` | the handler in slot `c`; `waited` is whether the orchestrator still waits for it |
| `co[x]` | the orchestrator's view: what it was told, what it asks for next |

`GetUniqueId` gives the mount path: the volume's id, or the storage class once the
PersistentVolume exists and `ShareMount` is set. JfsUnmount takes a mount off the path,
and CleanupMountPoint one more if there is one, and fails if the path is still mounted.
Whether mounting a mounted path stacks is left open, `MaxMounts` bounds the stack; the
community edition unmounts first. umount may fail while a snapshot command runs there; one that
succeeds is not taken to spoil the copy, since a plain umount is refused while files are open.
That a command has none open for a moment, and then fails or goes on below the bare path, is
left to the fault `cli`.
The console refuses a second quota on a path. The orchestrator is external: it repeats
requests until they succeed, gives up on slow ones (`late`), asks for sizes that may
change, and does not delete what is being copied. Other faults: `error` (a command or
call fails), `cli` (the snapshot command dies halfway), `plugin` (a restart).

| run | bounds | checks |
|---|---|---|
| `controller_lifecycle` | 1 volume, 1 snapshot, 2 slots, 2 sizes, any 2 faults | `HandlersInv`, `BoundIsThere`, `DeletedStaysGone`, `QuotaAsAsked`, `ImplementsVolumeStore`, `Provisioned`, `Reclaimed` |
| `snapshots` | 2 volumes (one a clone), 2 snapshots, 2 slots, 1 `error` or `late`, shared mount path, community edition | `BoundIsIntact` |
| `shared_delete` (violation) | 3 volumes, shared mount path, no fault | `DeletedStaysGone` |

Two slots let any two handlers meet; two faults let an attempt fail and the next one be
overtaken. `shared_delete` shows what locking by volume does not protect: handlers that
share a mount path take each other's mounts away, DeleteVol takes a directory it does not
see for deleted, and reports success (against controller.go:145).

`BoundIsIntact` is checked without `cli` and `plugin`: createSnap takes any directory
that exists for a finished snapshot, so after a command that died halfway the retry
reports a partial copy. No document of the repository promises otherwise, hence a hazard
and not a finding. With these faults `BoundIsThere` still holds: what was reported created has
a directory.

`ImplementsVolumeStore` puts the promises together. `VolumeStore` knows only what the
orchestrator was told (`co`), the directories and the quotas, which are the same variables
here, so the mapping is the identity on them and leaves out handlers, locks, mounts and
`vols`. Its steps say when each may change: a directory appears only while its object is asked
for, and a copy only of something that was given out; what is given out is there, and whole if
no copy is given up halfway (`CopiesEnd`, here `NoHalfCopies`); a quota of a volume in use
changes but is never taken away; only what was discarded is removed; and what is reported
removed is, if every removal has its own mount path (`OwnPaths`, here `~ShareMount`). The two
parameters are the settings that the hazard of half copies and the run `shared_delete` need.

Fairness: goroutines run and commands end (the console's requests have a timeout), the
orchestrator repeats its requests. Nothing is assumed of users or faults.

### What is proved

`ControllerServiceProofs`, on the lemmas of `ControllerServiceSteps`, proves for any number of
volumes, snapshots, slots and sizes, and any `MaxFaults`:

* `HandlersInvariant`: `Spec => [](TypeOK /\ HandlersInv)`;
* `DeletedIsGone`: `~ShareMount => (Spec => []DeletedStaysGone)`;
* `CreatedIsIntact`: `NoHalfCopies => (Spec => []BoundIsIntact)`, with `NoHalfCopies`
  excluding the faults `cli` and `plugin`, and the mount path shared or not;
* `CreatedIsThere`: `Spec => []BoundIsThere`, under every fault and in every configuration;
* `QuotaIsAsAsked`: `Spec => QuotaAsAsked`;
* `Refinement`: `Spec => ImplementsVolumeStore`;
* `TypeCorrect`: `Spec => []TypeOK`.

The conditions are those without which the run `shared_delete` and the hazard of half copies
break the properties. What makes them inductive: TryAcquire admits one handler per id
(`OneHandlerPerId`); a handler that still runs is for something that is still asked for
(`AskedFor`) and its source is kept (`SourcesKept`); a path that is not shared is mounted as
long as its handler needs it, because no other handler unmounts it (`OwnMount`); hence a
directory that DeleteVol does not find is not there (`RemovedInOrder`), and a directory that
is half filled has the handler that fills it (`CopiedInFull`); and a handler has made or found
its directory before it goes on to quotas and unmounting (`MadeBeforeGoingOn`). The refinement
takes the steps by what they change: reports (`ReportSeen`), directories (`DirectorySeen`) and
quotas (`QuotaSeen`), and everything else is a stutter (`StoreStep`). Assumptions:
`ObjectsAssumption`, `ServiceAssumption` (types of the constants). `Provisioned` and
`Reclaimed` are liveness and only model-checked.

## Warmup

One `Cache` object and the managers, one of which is the leader. `obj` is the object in the
API server with its version; `inf[m]` is the copy in the cache of manager `m` and `podInf[m]`
are the pods there: Reconcile reads both from the cache, which watches bring up to date, each
in its own time (`Deliver`, `DeliverPods`). Only the watch of the object queues anything. `h[m]` is a run of Reconcile with the copy it has read,
the nodes still to do and whether a command has failed. A deposed leader may go on until its
process ends (`Stop`). The API server refuses a status update of an older version. `users`
in a run records, for the property only, the nodes it should have found: those of the pods in
the cache that use the claim and have it before any volume of another kind (`Reached`). External: users who create, edit and delete the object, the binding of the claim, the
scheduler, the API server.

| run | bounds | checks |
|---|---|---|
| `warmup` | 2 managers, 2 pods on 2 nodes, 2 paths, 2 edits, 1 failing call or command, 1 change of the leader | `CopiesInv`, `CachedIsWarm`, `CachedStays`, `CachedInTheEnd` |

Two managers let a deposed leader meet the new one, two nodes a command fail after another
succeeded, two edits change or delete what a run has read; one of the pods has its claim
between another claim and another kind of volume. The search of fromPVCGetUsedPodsNodeName ends
at the first volume that is no claim (cache_controller.go:208), so a pod with volumes
`<<"other", "claim">>` is not found, and neither is one that the cache does not have yet;
`CachedIsWarm` says nothing of these. An object whose path is edited after it was cached stays cached
(line 102); `CachedIsWarm` is about the step in which it becomes so. Fairness: runs of
Reconcile go on, and the watches deliver.

`WarmupProofs` proves for any managers, pods, nodes, paths and bounds `CopiesInvariant`
(`Spec => [](TypeOK /\ CopiesInv)`), `TypeCorrect`, `CachedForGood` (`Spec => CachedStays`) and
`CachedIsLoaded` (`Spec => CachedIsWarm`), from the types of the constants
(`PodsAssumption`, `BoundsAssumption`, `SomeAssumption`). The argument is that of optimistic
concurrency: a copy with the object's version *is* the object (`Current`), a run holds a copy
that was not cached, so an update that is accepted starts from an object that is not cached
and asks for the path that was loaded; and the search, which goes from the first volume to the
last, finds every pod that is to be found (`SearchFinds`, `NodesFound`). `CachedInTheEnd` is only model-checked.

## Mutants

Each property has a mutant: an operator marked "Variant" that changes one definition the
way a plausible bug would (a lock not taken, an error ignored, a map started afresh); with
it TLC finds the property violated.

## Only model-checked

Liveness under fairness is outside the prover's reach, so every `~>` and `<>` property is
checked on its instance only: `PublishSucceeds`, `Recovers`, `MountPodReclaimed`,
`TargetHeals`, `UnpublishEnds`, `UnusedIsDeleted`, `DelayIsCancelled`, `RunAgain`,
`WorkIsDone`, `Provisioned`, `Reclaimed` and `CachedInTheEnd`. Every other
property of a passing run has a theorem, but for `PublishedIsRecorded`, which holds for one
target and one fault and not beyond (see above); `RecordsOutliveWrites` is the part of it that
holds always. Conversely, the type invariants of `MountPod`, `ControllerService` and `Warmup`
say no more than types; they are proved (`TypeCorrect`) and no run repeats them.

## Not modelled

* Parsing of settings and secrets, command lines, logs, capability answers, the gRPC server,
  entry points: no state that outlives a call.
* The naming of mount pods: `MountPod` has one pod with one name. GetUniqueId at unpublish can
  find the PersistentVolume gone and name another pod (juicefs.go:308); for the mount pod this
  is an unpublish that never comes.
* The 1024 pod locks shared by hash (config.go:61), and the goroutine that DoWithContext leaves
  behind after a timeout (util.go:174).
* The file system's default export, whose QoS every CreateVolume rewrites (console.go:278), and
  the capacities in `vols` after an expansion (controller.go:383).
* mountinfo.go's resolution of target items and PodReconciler, which nothing calls.
* `ENABLE_APISERVER_LIST_CACHE` (client.go:87, 200-203), which lets ListAppPod read from the API
  server's cache. It is off unless set, and no manifest sets it; with it the list of application
  pods could be older than the mount pod, on which `RoundIsSound` and `StaleRefsGone` depend.
* A request to the console that is given up after its 15 seconds (console.go:54) and takes effect
  later, and a process mount that comes up after JMount has stopped waiting for it
  (process_mount.go:92): a call or a mount that fails does so for good, or before the next one.
* A `Cache` object whose claim has no storage class *field*: getStorageClassNameAndPVName reads
  through the pointer (cache_controller.go:186). A claim that names none is `noClass`.
