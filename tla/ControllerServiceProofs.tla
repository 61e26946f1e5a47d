----------------------- MODULE ControllerServiceProofs ----------------------
(***************************************************************************)
(* Proofs about ControllerService, for every set of volumes, snapshots and *)
(* goroutines, every configuration and every bound on the faults.          *)
(***************************************************************************)
EXTENDS ControllerServiceSteps

-----------------------------------------------------------------------------
(* Deletion, where no mount path is shared.                                *)

Gone == RemovedInOrder /\ DeletedStaysGone

\* The handler's own progress: it removes under its own mount, then the quota.
LEMMA RemovesOwn ==
  ASSUME TypeOK, Handlers, ~ShareMount, RemovedInOrder, NEW c \in Slots, Step(c) \/ Failure(c),
         call'[c].op \in Removing
  PROVE  /\ call'[c].pc \in {"delQuota", "umount", "cleanup"} => dirs'[call'[c].obj] = "none"
         /\ call'[c].op = "DeleteVolume" /\ call'[c].pc \in {"umount", "cleanup"} =>
              quota'[call'[c].obj] = 0
<1> USE DEF Handlers
<1>0. /\ call'[c].op = call[c].op /\ call'[c].obj = call[c].obj
      /\ call[c].op \in Removing /\ call[c].obj \in Objects
  <2>1. call'[c].op = call[c].op /\ call'[c].obj = call[c].obj
    BY StepMoves, KeepsRequest DEF Removing
  <2> QED
    BY <2>1, StepOps DEF Removing
<1>1. CASE RmrDir(c) \/ DeleteSnap(c)
  <2>1. Mounted(c)
    BY <1>1, <1>0 DEF RmrDir, DeleteSnap, OwnMount, NeedsMount, MountedFor, Mounted, Removing
  <2> QED
    BY <1>0, <1>1, <2>1, StepOps DEF RmrDir, DeleteSnap, TypeOK, Goto, Call
<1>2. CASE DeleteQuota(c)
  BY <1>0, <1>2, StepOps DEF DeleteQuota, RemovedInOrder, TypeOK, Goto, Call
<1>3. CASE JfsUnmount(c)
  BY <1>0, <1>3 DEF JfsUnmount, RemovedInOrder, TypeOK, Goto, Call, Return, NoCall, Removing
<1>4. CASE UnmountBeforeMount(c) \/ JfsCleanupMountPoint(c) \/ GetQuota(c) \/ SetQuota(c)
  BY <1>0, <1>4, StepOps
  DEF UnmountBeforeMount, JfsCleanupMountPoint, GetQuota, SetQuota, TypeOK, Goto, Call, Return,
      NoCall, Removing
<1>5. CASE JfsMount(c)
  BY <1>5, <1>0, MountsOwn, FirstStepShaped
<1>6. CASE MkdirAll(c) \/ createSnap(c) \/ SnapshotDone(c) \/ Chmod(c) \/ CreateQuota(c) \/ SetQos(c)
  BY <1>6, <1>0, StepOps
  DEF MkdirAll, createSnap, SnapshotDone, Chmod, CreateQuota, SetQos, Making, Removing
<1>7. CASE Failure(c)
  BY <1>7, <1>0 DEF Failure, DeleteQuotaIgnored, CallFails, SnapshotFails, CallTimesOut,
      RemovedInOrder, TypeOK, Call, Return, NoCall, Removing
<1> QED
  BY <1>1, <1>2, <1>3, <1>4, <1>5, <1>6, <1>7 DEF Step

\* What DeleteVol and DeleteSnap have removed stays removed until the object is made again.
LEMMA GoneStep == ~ShareMount /\ TypeOK /\ Handlers /\ Gone /\ [Next]_vars => Gone'
<1> SUFFICES ASSUME ~ShareMount, TypeOK, Handlers, Gone, [Next]_vars PROVE Gone'
  OBVIOUS
<1> USE DEF Handlers, Gone
<1>1. ASSUME NEW c \in Slots, Request(c) PROVE Gone'
  <2>1. Starts(c)
    BY <1>1, RequestStarts
  <2> QED
    BY <2>1 DEF Starts, RemovedInOrder, DeletedStaysGone
<1>2. ASSUME NEW c \in Slots, Step(c) \/ Failure(c) PROVE Gone'
  <2>1. Moves(c) /\ call[c].obj \in Objects
    BY <1>2, StepMoves, StepOps DEF Moves, Running
  <2>2. ASSUME NEW d \in Slots, d # c, call[d].op \in Removing
        PROVE  /\ call'[d] = call[d] /\ dirs'[call[d].obj] = dirs[call[d].obj]
               /\ call[d].op = "DeleteVolume" => quota'[call[d].obj] = quota[call[d].obj]
    <3>1. Running(c) /\ Running(d)
      BY <2>1, <2>2, StepOps DEF Moves, Running, Removing
    <3>2. call[d].obj # call[c].obj
      BY <2>2, <3>1, OneHandlerPerObject
    <3>3. call[d].obj \in Objects /\ (call[d].op = "DeleteVolume" => call[d].obj \in Vols)
      BY <2>2, StepOps DEF Removing
    <3> QED
      BY <2>1, <2>2, <3>2, <3>3 DEF Moves
  <2>3. RemovedInOrder'
    <3> SUFFICES ASSUME NEW d \in Slots, call'[d].op \in Removing
                 PROVE  /\ call'[d].pc \in {"delQuota", "umount", "cleanup"} =>
                             dirs'[call'[d].obj] = "none"
                        /\ call'[d].op = "DeleteVolume" /\ call'[d].pc \in {"umount", "cleanup"} =>
                             quota'[call'[d].obj] = 0
      BY DEF RemovedInOrder, Removing
    <3>1. CASE d = c
      BY <1>2, <3>1, RemovesOwn
    <3>2. CASE d # c
      <4>1. call'[d] = call[d]
        BY <2>1, <3>2 DEF Moves
      <4> QED
        BY <2>2, <3>2, <4>1 DEF RemovedInOrder
    <3> QED
      BY <3>1, <3>2
  <2>4. DeletedStaysGone'
    <3> SUFFICES ASSUME NEW x \in Objects, co'[x] = "deleted"
                 PROVE  dirs'[x] = "none" /\ (x \in Vols => quota'[x] = 0)
      BY DEF DeletedStaysGone
    <3>1. CASE co[x] = "deleted"
      <4>1. x # call[c].obj
        <5>1. Running(c)
          BY <2>1 DEF Moves
        <5> QED
          BY <3>1, <5>1, WantedOf
      <4> QED
        BY <2>1, <3>1, <4>1 DEF Moves, DeletedStaysGone
    <3>2. CASE co[x] # "deleted"
      <4>1. /\ x = call[c].obj /\ call[c].pc = "cleanup" /\ UNCHANGED <<dirs, quota>>
            /\ call[c].op \in Removing
        BY <2>1, <3>2, StepOps DEF Moves, Reported, Making
      <4>2. x \in Vols => call[c].op = "DeleteVolume"
        BY <4>1, StepOps, ObjectsAssumption DEF Removing
      <4> QED
        BY <4>1, <4>2 DEF RemovedInOrder
    <3> QED
      BY <3>1, <3>2
  <2> QED
    BY <2>3, <2>4
<1>3. ASSUME PluginRestarts PROVE Gone'
  BY <1>3 DEF PluginRestarts, RemovedInOrder, DeletedStaysGone, NoCall, Removing
<1>4. ASSUME Users PROVE Gone'
  <2>1. UNCHANGED <<dirs, quota, call>> /\ \A x \in Objects : co'[x] = "deleted" => co[x] = "deleted"
    BY <1>4 DEF Users, TakeSnapshot, Discard, TypeOK
  <2> QED
    BY <2>1 DEF RemovedInOrder, DeletedStaysGone
<1>5. ASSUME UNCHANGED vars PROVE Gone'
  BY <1>5 DEF vars, RemovedInOrder, DeletedStaysGone
<1> QED
  BY <1>1, <1>2, <1>3, <1>4, <1>5 DEF Next, Quiet

-----------------------------------------------------------------------------
(* What is reported created is there, in every configuration.              *)

There == MadeBeforeGoingOn /\ BoundIsThere

\* What a handler copies was given out and is kept.
LEMMA CopiesWhatIsKept ==
  ASSUME TypeOK, Handlers, NEW c \in Slots, call[c].pc \in {"snap", "snapping"}
  PROVE  /\ call[c].op \in Making /\ SnapSource(c) \in Objects
         /\ co[SnapSource(c)] \in {"bound", "ready"}
         /\ SnapSource(c) = IF call[c].obj \in Snaps THEN SnapOf[call[c].obj] ELSE Source[call[c].obj]
<1> USE DEF Handlers
<1>1. call[c].op \in Making
  BY StepOps
<1>2. CASE call[c].op = "CreateSnapshot"
  BY <1>2, StepOps, ObjectsAssumption DEF AskedFor, Making, SourcesKept, SnapSource, Objects
<1>3. CASE call[c].op = "CreateVolume"
  BY <1>3, StepOps, ObjectsAssumption DEF CallsShaped, AskedFor, HasSource, SnapSource, Making
<1> QED
  BY <1>1, <1>2, <1>3 DEF Making

\* An expansion changes no directory.
LEMMA ExpandLeavesDirs ==
  ASSUME TypeOK, CallsShaped, NEW c \in Slots, Step(c) \/ Failure(c),
         call[c].op = "ControllerExpandVolume"
  PROVE  dirs' = dirs
  BY StepOps DEF Step, Failure, UnmountBeforeMount, JfsMount, JfsUnmount, JfsCleanupMountPoint,
     MkdirAll, createSnap, SnapshotDone, Chmod, DeleteQuota, CreateQuota, SetQos, RmrDir, DeleteSnap,
     GetQuota, SetQuota, DeleteQuotaIgnored, CallFails, SnapshotFails, CallTimesOut, Making

\* The handler's own progress: it goes on only with the directory in place.
LEMMA MakesOwn ==
  ASSUME TypeOK, Handlers, There, NEW c \in Slots, Step(c) \/ Failure(c), call'[c].op \in Making
  PROVE  /\ call'[c].pc = "snapping" => dirs'[call'[c].obj] = "partial"
         /\ call'[c].pc \in {"delQuota", "createQuota", "setQos", "umount", "cleanup"} =>
              dirs'[call'[c].obj] # "none"
<1> USE DEF Handlers, There
<1>0. /\ call'[c].op = call[c].op /\ call'[c].obj = call[c].obj
      /\ call[c].op \in Making /\ call[c].obj \in Objects
  <2>1. call'[c].op = call[c].op /\ call'[c].obj = call[c].obj
    BY StepMoves, KeepsRequest DEF Making
  <2> QED
    BY <2>1, StepOps DEF Making
<1>1. CASE MkdirAll(c)
  <2>1. Mounted(c)
    BY <1>1, StepOps DEF MkdirAll, OwnMount, NeedsMount, MountedFor, Mounted
  <2>2. dirs'[call[c].obj] # "none"
    BY <1>0, <1>1, <2>1 DEF MkdirAll, TypeOK
  <2>3. call'[c].pc # "snapping"
    BY <1>1 DEF MkdirAll, AfterDirectory, Goto, TypeOK, Call
  <2> QED
    BY <1>0, <2>2, <2>3
<1>2. CASE createSnap(c)
  BY <1>0, <1>2 DEF createSnap, TypeOK, Call, Goto, Return, NoCall, Making
<1>3. CASE SnapshotDone(c) \/ JfsMount(c) \/ UnmountBeforeMount(c)
  <2>1. call'[c].pc \in {"chmod", "remount", "mkdir", "snap", "rmr", "delSnap"} \/ call'[c] = NoCall
    BY <1>0, <1>3, MountsOwn, FirstStepShaped
    DEF SnapshotDone, UnmountBeforeMount, TypeOK, Call, Goto, Return
  <2> QED
    BY <1>0, <2>1 DEF NoCall, Making
<1>4. CASE Chmod(c)
  BY <1>0, <1>4 DEF Chmod, AfterDirectory, TypeOK, Call, Goto, Return, NoCall, Making
<1>5. CASE DeleteQuota(c) \/ CreateQuota(c) \/ SetQos(c)
  BY <1>0, <1>5 DEF DeleteQuota, CreateQuota, SetQos, MadeBeforeGoingOn, TypeOK, Call, Goto, Return,
     NoCall, Making
<1>6. CASE JfsUnmount(c) \/ JfsCleanupMountPoint(c)
  BY <1>0, <1>6 DEF JfsUnmount, JfsCleanupMountPoint, MadeBeforeGoingOn, TypeOK, Call, Goto, Return,
     NoCall, Making
<1>7. CASE RmrDir(c) \/ DeleteSnap(c) \/ GetQuota(c) \/ SetQuota(c)
  BY <1>0, <1>7, StepOps DEF RmrDir, DeleteSnap, GetQuota, SetQuota, Making
<1>8. CASE Failure(c)
  BY <1>0, <1>8 DEF Failure, DeleteQuotaIgnored, CallFails, SnapshotFails, CallTimesOut,
     MadeBeforeGoingOn, TypeOK, Call, Goto, Return, NoCall, Making
<1> QED
  BY <1>1, <1>2, <1>3, <1>4, <1>5, <1>6, <1>7, <1>8 DEF Step

\* No step takes away what is given out: only a handler of a discarded object removes, and a
\* copy is put in place of what is still asked for.
LEMMA ThereStep == TypeOK /\ Handlers /\ There /\ [Next]_vars => There'
<1> SUFFICES ASSUME TypeOK, Handlers, There, [Next]_vars PROVE There'
  OBVIOUS
<1> USE DEF Handlers, There
<1>1. ASSUME NEW c \in Slots, Request(c) PROVE There'
  <2>1. Starts(c)
    BY <1>1, RequestStarts
  <2> QED
    BY <2>1 DEF Starts, MadeBeforeGoingOn, BoundIsThere
<1>2. ASSUME NEW c \in Slots, Step(c) \/ Failure(c) PROVE There'
  <2>1. Moves(c) /\ Running(c) /\ call[c].obj \in Objects
    BY <1>2, StepMoves, StepOps DEF Moves, Running
  <2>2. MadeBeforeGoingOn'
    <3> SUFFICES ASSUME NEW d \in Slots, call'[d].op \in Making
                 PROVE  /\ call'[d].pc = "snapping" => dirs'[call'[d].obj] = "partial"
                        /\ call'[d].pc \in {"delQuota", "createQuota", "setQos", "umount", "cleanup"} =>
                             dirs'[call'[d].obj] # "none"
      BY DEF MadeBeforeGoingOn, Making
    <3>1. CASE d = c
      BY <1>2, <3>1, MakesOwn
    <3>2. CASE d # c
      <4>1. call'[d] = call[d]
        BY <2>1, <3>2 DEF Moves
      <4>2. Running(d) /\ call[d].obj \in Objects
        BY <4>1, StepOps DEF Running, Making
      <4>3. dirs'[call[d].obj] = dirs[call[d].obj]
        BY <2>1, <3>2, <4>2, OneHandlerPerObject DEF Moves
      <4> QED
        BY <4>1, <4>3 DEF MadeBeforeGoingOn
    <3> QED
      BY <3>1, <3>2
  <2>3. BoundIsThere'
    <3> SUFFICES ASSUME NEW x \in Objects, co'[x] \in {"bound", "ready"} PROVE dirs'[x] # "none"
      BY DEF BoundIsThere
    <3>1. CASE x # call[c].obj
      BY <2>1, <3>1 DEF Moves, BoundIsThere
    <3>2. CASE x = call[c].obj /\ co[x] \in {"bound", "ready"}
      <4>1. dirs' = dirs
        BY <1>2, <2>1, <3>2, WantedOf, ExpandLeavesDirs
      <4> QED
        BY <3>2, <4>1 DEF BoundIsThere
    <3>3. CASE x = call[c].obj /\ co[x] \notin {"bound", "ready"}
      <4>1. call[c].pc = "cleanup" /\ dirs' = dirs /\ call[c].op \in Making
        BY <2>1, <3>3, StepOps DEF Moves, Reported, Making
      <4> QED
        BY <3>3, <4>1 DEF MadeBeforeGoingOn
    <3> QED
      BY <3>1, <3>2, <3>3
  <2> QED
    BY <2>2, <2>3
<1>3. ASSUME PluginRestarts PROVE There'
  BY <1>3 DEF PluginRestarts, MadeBeforeGoingOn, BoundIsThere, NoCall, Making
<1>4. ASSUME Users PROVE There'
  <2>1. /\ UNCHANGED <<dirs, call>>
        /\ \A x \in Objects : co'[x] \in {"bound", "ready"} => co[x] \in {"bound", "ready"}
    BY <1>4 DEF Users, TakeSnapshot, Discard, TypeOK
  <2> QED
    BY <2>1 DEF MadeBeforeGoingOn, BoundIsThere
<1>5. ASSUME UNCHANGED vars PROVE There'
  BY <1>5 DEF vars, MadeBeforeGoingOn, BoundIsThere
<1> QED
  BY <1>1, <1>2, <1>3, <1>4, <1>5 DEF Next, Quiet

-----------------------------------------------------------------------------
(* Creation, where no snapshot command dies halfway.                       *)

Whole == CopiedInFull /\ BoundIsIntact

\* The handler's own progress: what it does not find whole it makes whole.
LEMMA CopiesOwn ==
  ASSUME TypeOK, Handlers, NoHalfCopies, Whole, NEW c \in Slots, Step(c) \/ Failure(c)
  PROVE  /\ call[c].obj \in Objects /\ dirs'[call[c].obj] = "partial" =>
              call'[c].op \in Making /\ call'[c].obj = call[c].obj /\ call'[c].pc = "snapping"
         /\ call'[c].op \in Making
              /\ call'[c].pc \in {"chmod", "delQuota", "createQuota", "setQos", "umount", "cleanup"} =>
                dirs'[call'[c].obj] = "full"
<1> USE DEF Handlers, Whole
<1>0. Moves(c) /\ call[c].obj \in Objects
  BY StepMoves, StepOps DEF Moves, Running
<1>1. dirs[call[c].obj] = "partial" => call[c].op \in Making /\ call[c].pc = "snapping"
  <2> SUFFICES ASSUME dirs[call[c].obj] = "partial"
               PROVE  call[c].op \in Making /\ call[c].pc = "snapping"
    OBVIOUS
  <2>1. PICK d \in Slots :
          call[d].op \in Making /\ call[d].obj = call[c].obj /\ call[d].pc = "snapping"
    BY <1>0 DEF CopiedInFull
  <2>2. d = c
    BY <1>0, <2>1, OneHandlerPerObject DEF Moves, Running
  <2> QED
    BY <2>1, <2>2
<1>2. CASE MkdirAll(c)
  <2>1. call[c].op = "CreateVolume" /\ Mounted(c)
    BY <1>2, StepOps DEF MkdirAll, OwnMount, NeedsMount, MountedFor, Mounted
  <2>2. dirs'[call[c].obj] = "full"
    BY <1>0, <1>1, <1>2, <2>1 DEF MkdirAll, TypeOK
  <2>3. call'[c].obj = call[c].obj
    BY <1>2 DEF MkdirAll, Goto, TypeOK, Call
  <2> QED
    BY <2>2, <2>3
<1>3. CASE createSnap(c)
  <2>1. call[c].op \in Making
    BY <1>3, StepOps DEF createSnap
  <2> QED
    BY <1>0, <1>1, <1>3, <2>1 DEF createSnap, TypeOK, Call, Goto, Return, NoCall, Making
<1>4. CASE SnapshotDone(c)
  <2>1. call[c].op \in Making
    BY <1>4, StepOps DEF SnapshotDone
  <2>2. SnapSource(c) \in Objects /\ co[SnapSource(c)] \in {"bound", "ready"}
    BY <1>4, CopiesWhatIsKept DEF SnapshotDone
  <2>3. dirs'[call[c].obj] = "full" /\ call'[c].obj = call[c].obj
    BY <1>0, <1>4, <2>2 DEF SnapshotDone, BoundIsIntact, TypeOK, Goto, Call
  <2> QED
    BY <2>3
<1>5. CASE RmrDir(c) \/ DeleteSnap(c)
  <2>1. call[c].op \in Removing /\ call'[c].op = call[c].op
    BY <1>5, StepOps DEF RmrDir, DeleteSnap, Removing, Goto, TypeOK, Call
  <2>2. dirs'[call[c].obj] # "partial"
    BY <1>0, <1>1, <1>5 DEF RmrDir, DeleteSnap, TypeOK
  <2> QED
    BY <2>1, <2>2 DEF Making, Removing
<1>6. CASE JfsMount(c)
  <2>1. dirs' = dirs /\ dirs[call[c].obj] # "partial"
    BY <1>1, <1>6 DEF JfsMount
  <2> QED
    BY <1>6, <2>1, MountsOwn, FirstStepShaped
<1>7. CASE UnmountBeforeMount(c) \/ JfsUnmount(c) \/ JfsCleanupMountPoint(c)
  <2>1. dirs' = dirs /\ dirs[call[c].obj] # "partial"
    BY <1>1, <1>7 DEF UnmountBeforeMount, JfsUnmount, JfsCleanupMountPoint
  <2>2. \/ call'[c].op = "none"
        \/ call'[c].pc = "remount"
        \/ call[c].pc = "umount" /\ call'[c].op = call[c].op /\ call'[c].obj = call[c].obj
    BY <1>7 DEF UnmountBeforeMount, JfsUnmount, JfsCleanupMountPoint, TypeOK, Call, Goto, Return,
       NoCall
  <2> QED
    BY <2>1, <2>2 DEF CopiedInFull, Making
<1>8. CASE Chmod(c) \/ DeleteQuota(c) \/ CreateQuota(c) \/ SetQos(c)
  BY <1>1, <1>8 DEF Chmod, DeleteQuota, CreateQuota, SetQos, CopiedInFull, TypeOK,
     Call, Goto, Return, NoCall, Making
<1>9. CASE GetQuota(c) \/ SetQuota(c)
  BY <1>1, <1>9 DEF GetQuota, SetQuota, TypeOK, Call, Goto, Return, NoCall, Making
<1>10. CASE DeleteQuotaIgnored(c) \/ CallFails(c) \/ CallTimesOut(c)
  BY <1>1, <1>10 DEF DeleteQuotaIgnored, CallFails, CallTimesOut, CopiedInFull, TypeOK,
     Call, Goto, Return, NoCall, Making
<1>11. CASE SnapshotFails(c)
  BY <1>11 DEF SnapshotFails, Fault, NoHalfCopies
<1> QED
  BY <1>2, <1>3, <1>4, <1>5, <1>6, <1>7, <1>8, <1>9, <1>10, <1>11 DEF Step, Failure

\* A directory that a snapshot command has filled stays whole; one that is being filled has its
\* handler.
LEMMA WholeStep == NoHalfCopies /\ TypeOK /\ Handlers /\ Whole /\ [Next]_vars => Whole'
<1> SUFFICES ASSUME NoHalfCopies, TypeOK, Handlers, Whole, [Next]_vars PROVE Whole'
  OBVIOUS
<1> USE DEF Handlers, Whole
<1>1. ASSUME NEW c \in Slots, Request(c) PROVE Whole'
  <2>1. Starts(c)
    BY <1>1, RequestStarts
  <2>2. \A d \in Slots : Running(d) => d # c /\ call'[d] = call[d]
    BY <2>1 DEF Starts
  <2>3. CopiedInFull'
    <3>1. /\ dirs' = dirs /\ call'[c].pc \in {"mount", "getQuota"} /\ ~Running(c)
          /\ \A d \in Slots \ {c} : call'[d] = call[d]
      BY <2>1 DEF Starts
    <3>2. ASSUME NEW x \in Objects, dirs'[x] = "partial"
          PROVE  \E d \in Slots : call'[d].op \in Making /\ call'[d].obj = x /\ call'[d].pc = "snapping"
      <4>1. PICK d \in Slots : call[d].op \in Making /\ call[d].obj = x /\ call[d].pc = "snapping"
        BY <3>1, <3>2 DEF CopiedInFull
      <4>2. call'[d] = call[d]
        BY <2>2, <4>1 DEF Running
      <4> QED
        BY <4>1, <4>2
    <3>3. ASSUME NEW d \in Slots, call'[d].op \in Making,
                 call'[d].pc \in {"chmod", "delQuota", "createQuota", "setQos", "umount", "cleanup"}
          PROVE  dirs'[call'[d].obj] = "full"
      <4>1. call'[d] = call[d]
        BY <3>1, <3>3
      <4> QED
        BY <3>1, <3>3, <4>1 DEF CopiedInFull
    <3> QED
      BY <3>2, <3>3 DEF CopiedInFull
  <2> QED
    BY <2>1, <2>3 DEF Starts, BoundIsIntact
<1>2. ASSUME NEW c \in Slots, Step(c) \/ Failure(c) PROVE Whole'
  <2>1. Moves(c) /\ call[c].obj \in Objects
    BY <1>2, StepMoves, StepOps DEF Moves, Running
  <2>2. ASSUME NEW x \in Objects, dirs'[x] = "partial"
        PROVE  \E d \in Slots : call'[d].op \in Making /\ call'[d].obj = x /\ call'[d].pc = "snapping"
    <3>1. CASE x = call[c].obj
      BY <1>2, <2>2, <3>1, CopiesOwn
    <3>2. CASE x # call[c].obj
      <4>1. PICK d \in Slots : call[d].op \in Making /\ call[d].obj = x /\ call[d].pc = "snapping"
        BY <2>1, <2>2, <3>2 DEF Moves, CopiedInFull
      <4> QED
        BY <2>1, <3>2, <4>1 DEF Moves
    <3> QED
      BY <3>1, <3>2
  <2>3. ASSUME NEW d \in Slots, call'[d].op \in Making,
               call'[d].pc \in {"chmod", "delQuota", "createQuota", "setQos", "umount", "cleanup"}
        PROVE  dirs'[call'[d].obj] = "full"
    <3>1. CASE d = c
      BY <1>2, <2>3, <3>1, CopiesOwn
    <3>2. CASE d # c
      <4>1. call'[d] = call[d] /\ Running(c) /\ Running(d)
        BY <2>1, <2>3, <3>2 DEF Moves, Running
      <4>2. call[d].obj # call[c].obj /\ call[d].obj \in Objects
        BY <2>3, <3>2, <4>1, OneHandlerPerObject, StepOps DEF Making
      <4>3. dirs'[call[d].obj] = dirs[call[d].obj]
        BY <2>1, <4>2 DEF Moves
      <4> QED
        BY <2>3, <4>1, <4>3 DEF CopiedInFull
    <3> QED
      BY <3>1, <3>2
  <2>4. CopiedInFull'
    BY <2>2, <2>3 DEF CopiedInFull
  <2>5. BoundIsIntact'
    <3> SUFFICES ASSUME NEW x \in Objects, co'[x] \in {"bound", "ready"} PROVE dirs'[x] = "full"
      BY DEF BoundIsIntact
    <3>1. CASE x # call[c].obj
      BY <2>1, <3>1 DEF Moves, BoundIsIntact
    <3>2. CASE x = call[c].obj /\ co[x] \in {"bound", "ready"}
      <4>1. call[c].op = "ControllerExpandVolume"
        <5>1. Running(c)
          BY <2>1 DEF Moves
        <5> QED
          BY <3>2, <5>1, WantedOf
      <4>2. dirs' = dirs
        BY <1>2, <4>1, ExpandLeavesDirs
      <4> QED
        BY <3>2, <4>2 DEF BoundIsIntact
    <3>3. CASE x = call[c].obj /\ co[x] \notin {"bound", "ready"}
      <4>1. /\ call[c].pc = "cleanup" /\ dirs' = dirs /\ call[c].op \in Making
        BY <2>1, <3>3, StepOps DEF Moves, Reported, Making
      <4> QED
        BY <3>3, <4>1 DEF CopiedInFull
    <3> QED
      BY <3>1, <3>2, <3>3
  <2> QED
    BY <2>4, <2>5
<1>3. ASSUME PluginRestarts PROVE Whole'
  BY <1>3 DEF PluginRestarts, Fault, NoHalfCopies
<1>4. ASSUME Users PROVE Whole'
  <2>1. /\ UNCHANGED <<dirs, call>>
        /\ \A x \in Objects : co'[x] \in {"bound", "ready"} => co[x] \in {"bound", "ready"}
    BY <1>4 DEF Users, TakeSnapshot, Discard, TypeOK
  <2> QED
    BY <2>1 DEF CopiedInFull, BoundIsIntact
<1>5. ASSUME UNCHANGED vars PROVE Whole'
  BY <1>5 DEF vars, CopiedInFull, BoundIsIntact
<1> QED
  BY <1>1, <1>2, <1>3, <1>4, <1>5 DEF Next, Quiet

-----------------------------------------------------------------------------
(* The refinement of VolumeStore.                                          *)

\* What becomes of an object when its handler reports success.
LEMMA ReportSeen ==
  ASSUME TypeOK, HandlersInv, NEW c \in Slots, JfsCleanupMountPoint(c)
  PROVE  Store!Next \/ UNCHANGED Store!vars
<1> DEFINE x == call[c].obj
<1>1. Handlers /\ Moves(c) /\ UNCHANGED <<dirs, quota>> /\ call[c].pc = "cleanup"
  BY StepMoves DEF HandlersInv, Handlers, Step, JfsCleanupMountPoint
<1>2. call[c].op \in Making \cup Removing /\ x \in Objects /\ Running(c)
  BY <1>1, StepOps DEF Handlers, Running, Making, Removing
<1>3. co' = co \/ co' = [co EXCEPT ![x] = Reported(c)]
  BY <1>2 DEF JfsCleanupMountPoint, Succeeded, Making, Removing, Reported
<1>4. CASE co' = co
  BY <1>1, <1>4 DEF Store!vars
<1>5. CASE co' = [co EXCEPT ![x] = Reported(c)] /\ call[c].op \in Making
  <2>1. co[x] = "creating" /\ dirs[x] # "none" /\ (NoHalfCopies => dirs[x] = "full")
    BY <1>1, <1>5 DEF HandlersInv, AskedFor, MadeBeforeGoingOn, CopiedInFull
  <2>2. Reported(c) = IF x \in Vols THEN "bound" ELSE "ready"
    BY <1>1, <1>5, StepOps, ObjectsAssumption DEF Handlers, Reported, Making
  <2>3. Store!Give(x)
    BY <1>1, <1>5, <2>1, <2>2 DEF Store!Give
  <2> QED
    BY <1>2, <2>3 DEF Store!Next, Store!Objects, Objects
<1>6. CASE co' = [co EXCEPT ![x] = Reported(c)] /\ call[c].op \in Removing
  <2>1. co[x] = "deleting" /\ Reported(c) = "deleted"
    BY <1>6 DEF HandlersInv, AskedFor, Reported, Removing
  <2>2. ~ShareMount => dirs[x] = "none" /\ (x \in Vols => quota[x] = 0)
    <3>1. x \in Vols => call[c].op = "DeleteVolume"
      BY <1>1, <1>6, StepOps, ObjectsAssumption DEF Handlers, Removing
    <3> QED
      BY <1>1, <1>6, <3>1 DEF HandlersInv, RemovedInOrder
  <2>3. Store!Forget(x)
    BY <1>1, <1>6, <2>1, <2>2 DEF Store!Forget
  <2> QED
    BY <1>2, <2>3 DEF Store!Next, Store!Objects, Objects
<1> QED
  BY <1>2, <1>3, <1>4, <1>5, <1>6

\* Directories are made, copied and removed as the store allows it.
LEMMA DirectorySeen ==
  ASSUME TypeOK, HandlersInv, NEW c \in Slots,
         MkdirAll(c) \/ createSnap(c) \/ SnapshotDone(c) \/ RmrDir(c) \/ DeleteSnap(c)
  PROVE  Store!Next \/ UNCHANGED Store!vars
<1> DEFINE x == call[c].obj
<1>0. Handlers /\ There
  BY DEF HandlersInv, Handlers, There
<1>1. x \in Objects /\ UNCHANGED <<co, quota>>
  BY <1>0, StepOps DEF Handlers, MkdirAll, createSnap, SnapshotDone, RmrDir, DeleteSnap, Making
<1>2. CASE UNCHANGED dirs
  BY <1>1, <1>2 DEF Store!vars
<1>3. CASE MkdirAll(c) /\ dirs' # dirs
  <2>1. x \in Vols /\ co[x] = "creating" /\ Source[x] = NoSource
    BY <1>0, <1>3, StepOps DEF Handlers, MkdirAll, CallsShaped, AskedFor, Making
  <2>2. Store!Make(x)
    BY <1>1, <1>3, <2>1 DEF MkdirAll, Store!Make
  <2> QED
    BY <2>1, <2>2 DEF Store!Next
<1>4. CASE createSnap(c) \/ SnapshotDone(c)
  <2>1. /\ SnapSource(c) = Store!Origin(x) /\ SnapSource(c) # NoSource /\ Store!Given(SnapSource(c))
        /\ call[c].op \in Making
    BY <1>0, <1>4, CopiesWhatIsKept, ObjectsAssumption
    DEF createSnap, SnapshotDone, Store!Origin, Store!Given
  <2>2. co[x] = "creating"
    BY <1>0, <2>1 DEF Handlers, AskedFor
  <2>3. CASE createSnap(c) /\ dirs' # dirs
    <3>1. Store!BeginCopy(x)
      BY <1>1, <2>1, <2>2, <2>3 DEF createSnap, Store!BeginCopy
    <3> QED
      BY <1>1, <3>1 DEF Store!Next, Store!Objects, Objects
  <2>4. CASE SnapshotDone(c)
    <3>1. dirs[x] = "partial"
      BY <1>0, <2>1, <2>4 DEF There, MadeBeforeGoingOn, SnapshotDone
    <3>2. Store!EndCopy(x)
      BY <1>1, <2>1, <2>2, <2>4, <3>1 DEF SnapshotDone, Store!EndCopy
    <3> QED
      BY <1>1, <3>2 DEF Store!Next, Store!Objects, Objects
  <2> QED
    BY <1>2, <1>4, <2>3, <2>4
<1>5. CASE (RmrDir(c) \/ DeleteSnap(c)) /\ dirs' # dirs
  <2>1. co[x] = "deleting"
    BY <1>0, <1>5, StepOps DEF Handlers, AskedFor, RmrDir, DeleteSnap, Removing
  <2>2. Store!Remove(x)
    BY <1>1, <1>5, <2>1 DEF RmrDir, DeleteSnap, Store!Remove
  <2> QED
    BY <1>1, <2>2 DEF Store!Next, Store!Objects, Objects
<1> QED
  BY <1>2, <1>3, <1>4, <1>5

\* Quotas are set as the store allows it.
LEMMA QuotaSeen ==
  ASSUME TypeOK, HandlersInv, NEW c \in Slots, DeleteQuota(c) \/ CreateQuota(c) \/ SetQuota(c)
  PROVE  Store!Next \/ UNCHANGED Store!vars
<1> DEFINE v == call[c].obj
<1>0. Handlers /\ call[c].size \in Sizes \cup {0}
  BY DEF HandlersInv, Handlers, TypeOK, Call
<1>1. v \in Vols /\ UNCHANGED <<co, dirs>>
  BY <1>0, StepOps DEF Handlers, DeleteQuota, CreateQuota, SetQuota
<1>2. CASE DeleteQuota(c)
  <2>1. co[v] \in {"creating", "deleting"}
    BY <1>0, <1>2, StepOps DEF Handlers, AskedFor, DeleteQuota, Making, Removing
  <2>2. Store!SetQuota(v, 0)
    BY <1>1, <1>2, <2>1 DEF DeleteQuota, Store!SetQuota
  <2> QED
    BY <1>1, <2>2 DEF Store!Next
<1>3. CASE CreateQuota(c)
  <2>1. co[v] = "creating"
    BY <1>0, <1>3, StepOps DEF Handlers, AskedFor, CreateQuota, Making
  <2>2. CASE quota[v] = 0
    <3>1. Store!SetQuota(v, call[c].size)
      BY <1>1, <1>3, <2>1, <2>2 DEF CreateQuota, Store!SetQuota
    <3> QED
      BY <1>0, <1>1, <3>1 DEF Store!Next
  <2>3. CASE quota[v] # 0
    BY <1>1, <1>3, <2>3 DEF CreateQuota, Store!vars
  <2> QED
    BY <2>2, <2>3
<1>4. CASE SetQuota(c)
  <2>1. co[v] \in {"bound", "deleting"} /\ call[c].size > 0
    BY <1>0, <1>4, StepOps DEF Handlers, AskedFor, SetQuota
  <2>2. Store!SetQuota(v, call[c].size)
    BY <1>1, <1>4, <2>1 DEF SetQuota, Store!SetQuota
  <2> QED
    BY <1>0, <1>1, <2>2 DEF Store!Next
<1> QED
  BY <1>2, <1>3, <1>4

\* Every step of the controller service is a step of VolumeStore, or changes nothing that
\* VolumeStore knows of.
LEMMA StoreStep == TypeOK /\ HandlersInv /\ [Next]_vars => [Store!Next]_(Store!vars)
<1> SUFFICES ASSUME TypeOK, HandlersInv, [Next]_vars PROVE Store!Next \/ UNCHANGED Store!vars
  OBVIOUS
<1>1. ASSUME NEW c \in Slots, Request(c) PROVE UNCHANGED Store!vars
  BY <1>1, RequestStarts DEF Starts, Store!vars
<1>2. ASSUME NEW c \in Slots, Step(c) PROVE Store!Next \/ UNCHANGED Store!vars
  <2>1. CASE JfsCleanupMountPoint(c)
    BY <2>1, ReportSeen
  <2>2. CASE MkdirAll(c) \/ createSnap(c) \/ SnapshotDone(c) \/ RmrDir(c) \/ DeleteSnap(c)
    BY <2>2, DirectorySeen
  <2>3. CASE DeleteQuota(c) \/ CreateQuota(c) \/ SetQuota(c)
    BY <2>3, QuotaSeen
  <2>4. CASE UnmountBeforeMount(c) \/ JfsMount(c) \/ JfsUnmount(c)
    BY <2>4 DEF UnmountBeforeMount, JfsMount, JfsUnmount, Store!vars
  <2>5. CASE Chmod(c) \/ SetQos(c) \/ GetQuota(c)
    BY <2>5 DEF Chmod, SetQos, GetQuota, Store!vars
  <2> QED
    BY <1>2, <2>1, <2>2, <2>3, <2>4, <2>5 DEF Step
<1>3. ASSUME NEW c \in Slots, Failure(c) PROVE UNCHANGED Store!vars
  BY <1>3 DEF Failure, DeleteQuotaIgnored, CallFails, SnapshotFails, CallTimesOut, Store!vars
<1>4. ASSUME PluginRestarts \/ UNCHANGED vars PROVE UNCHANGED Store!vars
  BY <1>4 DEF PluginRestarts, vars, Store!vars
<1>5. ASSUME NEW s \in Snaps, TakeSnapshot(s) PROVE Store!Next
  <2>1. Store!Ask(s)
    BY <1>5 DEF TakeSnapshot, Store!Ask
  <2> QED
    BY <2>1 DEF Store!Next
<1>6. ASSUME NEW x \in Objects, Discard(x) PROVE Store!Next
  <2>1. ASSUME NEW y \in Objects, Store!Origin(y) = x PROVE co[y] # "creating"
    BY <1>6, <2>1, ObjectsAssumption DEF Discard, InUse, Store!Origin, Objects
  <2>2. Store!Discard(x)
    BY <1>6, <2>1 DEF Discard, Store!Discard, Store!Given, Store!Objects, Objects
  <2> QED
    BY <2>2 DEF Store!Next, Store!Objects, Objects
<1> QED
  BY <1>1, <1>2, <1>3, <1>4, <1>5, <1>6 DEF Next, Users, Quiet

-----------------------------------------------------------------------------
(* The theorems.                                                           *)

\* The inductive invariant of the controller's handlers: locks, requests, mounts, and the
\* directories that are made in order, and the results that rest on them.
THEOREM HandlersInvariant == Spec => [](TypeOK /\ HandlersInv)
<1>1. Init => TypeOK /\ HandlersInv
  <2> SUFFICES ASSUME Init PROVE TypeOK /\ HandlersInv
    OBVIOUS
  <2>1. TypeOK
    BY ServiceAssumption DEF Init, TypeOK, Call, NoCall, Ops, Pcs, Objects
  <2>2. CallsShaped /\ OneHandlerPerId /\ AskedFor /\ OwnMount /\ QuotaSet
    BY DEF Init, NoCall, CallsShaped, StepsOf, OneHandlerPerId, Running, AskedFor, OwnMount,
       QuotaSet, NeedsMount, Making, Removing
  <2>3. SourcesKept
    BY ObjectsAssumption DEF Init, SourcesKept, Objects
  <2>4. RemovedInOrder /\ DeletedStaysGone /\ CopiedInFull /\ BoundIsIntact
    BY DEF Init, NoCall, RemovedInOrder, DeletedStaysGone, CopiedInFull, BoundIsIntact, Making,
       Removing
  <2>5. MadeBeforeGoingOn /\ BoundIsThere
    BY DEF Init, NoCall, MadeBeforeGoingOn, BoundIsThere, Making
  <2> QED
    BY <2>1, <2>2, <2>3, <2>4, <2>5 DEF HandlersInv
<1>2. TypeOK /\ HandlersInv /\ [Next]_vars => (TypeOK /\ HandlersInv)'
  <2> SUFFICES ASSUME TypeOK, HandlersInv, [Next]_vars PROVE (TypeOK /\ HandlersInv)'
    OBVIOUS
  <2>1. Handlers /\ QuotaSet /\ There /\ (~ShareMount => Gone) /\ (NoHalfCopies => Whole)
    BY DEF HandlersInv, Handlers, There, Gone, Whole
  <2>2. TypeOK' /\ CallsShaped'
    BY <2>1, TypeStep DEF Handlers
  <2>3. OneHandlerPerId' /\ AskedFor' /\ SourcesKept' /\ OwnMount' /\ QuotaSet'
    BY <2>1, LocksStep, AskedStep, OwnMountStep, QuotaStep
  <2>4. (~ShareMount => Gone') /\ (NoHalfCopies => Whole')
    BY <2>1, GoneStep, WholeStep
  <2>5. There'
    BY <2>1, ThereStep
  <2> QED
    BY <2>2, <2>3, <2>4, <2>5 DEF HandlersInv, There, Gone, Whole, NoHalfCopies
<1> QED
  BY <1>1, <1>2, PTL DEF Spec

\* Without a shared mount path, what DeleteVolume and DeleteSnapshot report deleted stays
\* deleted, under every fault: failed and repeated calls, handlers that are no longer
\* waited for, snapshot commands that die, restarts of the controller.
THEOREM DeletedIsGone == ~ShareMount => (Spec => []DeletedStaysGone)
<1>1. ~ShareMount /\ HandlersInv => DeletedStaysGone
  BY DEF HandlersInv
<1>2. CASE ~ShareMount
  <2>1. HandlersInv => DeletedStaysGone
    BY <1>1, <1>2
  <2> QED
    BY <2>1, HandlersInvariant, PTL
<1> QED
  BY <1>2

\* Where no snapshot command dies halfway, what CreateVolume and CreateSnapshot report
\* created is whole until the orchestrator discards it, shared mount path or not.
THEOREM CreatedIsIntact == NoHalfCopies => (Spec => []BoundIsIntact)
<1>1. CASE NoHalfCopies
  <2>1. HandlersInv => BoundIsIntact
    BY <1>1 DEF HandlersInv
  <2> QED
    BY <2>1, HandlersInvariant, PTL
<1> QED
  BY <1>1

\* What CreateVolume and CreateSnapshot report created is there until the orchestrator
\* discards it: in every configuration, under every fault, restarts of the controller and
\* snapshot commands that die among them.
THEOREM CreatedIsThere == Spec => []BoundIsThere
<1>1. HandlersInv => BoundIsThere
  BY DEF HandlersInv
<1> QED
  BY <1>1, HandlersInvariant, PTL

\* The controller service implements the store of volumes and snapshots: for every set of
\* them, any number of goroutines, both editions, shared mount path or not, every fault.
THEOREM Refinement == Spec => ImplementsVolumeStore
<1>1. Init => Store!Init
  BY DEF Init, Store!Init, Store!Objects, Objects
<1> QED
  BY <1>1, HandlersInvariant, StoreStep, PTL DEF Spec, ImplementsVolumeStore, Store!Spec

\* The success of CreateVolume means the quota it asked for, under every fault.
THEOREM QuotaIsAsAsked == Spec => QuotaAsAsked
<1>1. ASSUME TypeOK, HandlersInv, [Next]_vars, NEW c \in Slots, call[c].op = "CreateVolume",
             call[c].size > 0, co[call[c].obj] # co'[call[c].obj]
      PROVE  quota'[call[c].obj] = call[c].size
  <2> USE <1>1
  <2>1. Handlers /\ QuotaSet
    BY DEF HandlersInv, Handlers
  <2>2. call[c].obj \in Vols /\ call[c].obj \in Objects /\ Running(c) /\ co[call[c].obj] = "creating"
    BY <2>1, StepOps DEF Handlers, AskedFor, Making, Objects, Running
  <2>3. ASSUME NEW d \in Slots, Step(d) \/ Failure(d) PROVE quota'[call[c].obj] = call[c].size
    <3>1. Moves(d)
      BY <2>1, <2>3, StepMoves DEF Handlers
    <3>2. d = c
      BY <2>1, <2>2, <3>1, OneHandlerPerObject DEF Handlers, Moves
    <3> QED
      BY <2>1, <3>1, <3>2 DEF Moves, QuotaSet
  <2>4. ASSUME NEW d \in Slots, Request(d) PROVE FALSE
    BY <2>4, RequestStarts DEF Starts
  <2>5. ASSUME Users PROVE FALSE
    BY <2>2, <2>5 DEF Users, TakeSnapshot, Discard, TypeOK
  <2> QED
    BY <2>3, <2>4, <2>5 DEF Next, PluginRestarts, Quiet, vars
<1>2. TypeOK /\ HandlersInv /\ [Next]_vars =>
        [\A c \in Slots :
           call[c].op = "CreateVolume" /\ call[c].size > 0 /\ co[call[c].obj] # co'[call[c].obj]
             => quota'[call[c].obj] = call[c].size]_vars
  BY <1>1
<1> QED
  BY <1>2, HandlersInvariant, PTL DEF Spec, QuotaAsAsked

\* The types of the calls, of the objects on the volume and of the orchestrator's records.
THEOREM TypeCorrect == Spec => []TypeOK
  BY HandlersInvariant, PTL

=============================================================================
