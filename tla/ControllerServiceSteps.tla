----------------------- MODULE ControllerServiceSteps -----------------------
(***************************************************************************)
(* Lemmas on the steps of the controller's handlers: their types, what a   *)
(* step of one handler may touch, and that every step keeps the locks      *)
(* apart, serves what the orchestrator asks for, works under its own mount *)
(* and sets the quota it was asked for.                                    *)
(***************************************************************************)
EXTENDS ControllerService, TLAPS

\* The handlers' states stay within their type.
LEMMA CallTypes ==
  ASSUME NEW r \in Call
  PROVE  /\ NoCall \in Call
         /\ \A pc \in Pcs : [r EXCEPT !.pc = pc] \in Call
         /\ \A pc \in Pcs, p \in Paths : [r EXCEPT !.pc = pc, !.path = p] \in Call
         /\ [r EXCEPT !.waited = FALSE] \in Call
         /\ \A op \in Ops, x \in Objects, size \in Sizes \cup {0}, pc \in Pcs :
              [op |-> op, obj |-> x, size |-> size, path |-> NoSource, pc |-> pc, waited |-> TRUE]
                \in Call
<1>1. NoCall \in Call
  BY DEF Call, NoCall, Ops, Pcs
<1>2. \A pc \in Pcs, p \in Paths : [r EXCEPT !.pc = pc, !.path = p] \in Call
  BY DEF Call
<1>3. \A op \in Ops, x \in Objects, size \in Sizes \cup {0}, pc \in Pcs :
        [op |-> op, obj |-> x, size |-> size, path |-> NoSource, pc |-> pc, waited |-> TRUE] \in Call
  BY DEF Call
<1>4. (\A pc \in Pcs : [r EXCEPT !.pc = pc] \in Call) /\ [r EXCEPT !.waited = FALSE] \in Call
  BY DEF Call
<1> QED
  BY <1>1, <1>2, <1>3, <1>4

\* A fault is counted within its bound.
LEMMA FaultTypes ==
  ASSUME faults \in 0..MaxFaults, NEW kind, Fault(kind)
  PROVE  faults' \in 0..MaxFaults
  BY ServiceAssumption DEF Fault

\* What a handler moves to is one of its operation's steps.
LEMMA FirstStepShaped ==
  ASSUME NEW op \in Making \cup Removing, NEW x
  PROVE  /\ FirstStep(op, x) \in StepsOf(op)
         /\ FirstStep(op, x) \in {"mkdir", "snap", "rmr", "delSnap"}
         /\ FirstStep(op, x) = "mkdir" => op = "CreateVolume" /\ Source[x] = NoSource
         /\ op = "CreateVolume" /\ FirstStep(op, x) = "snap" => Source[x] # NoSource
         /\ op \in Removing => FirstStep(op, x) = IF op = "DeleteVolume" THEN "rmr" ELSE "delSnap"
  BY DEF FirstStep, Making, Removing, StepsOf

\* Which operation, and which kind of object, a step belongs to.
LEMMA StepOps ==
  ASSUME CallsShaped, NEW c \in Slots, TypeOK
  PROVE  /\ call[c].pc = "idle" <=> call[c].op = "none"
         /\ call[c].pc \in {"mount", "remount", "umount", "cleanup"} =>
              call[c].op \in Making \cup Removing
         /\ call[c].pc = "mkdir" => call[c].op = "CreateVolume"
         /\ call[c].pc \in {"snap", "snapping", "chmod"} => call[c].op \in Making
         /\ call[c].pc = "delQuota" => call[c].op \in {"CreateVolume", "DeleteVolume"}
         /\ call[c].pc \in {"createQuota", "setQos"} => call[c].op = "CreateVolume"
         /\ call[c].pc = "rmr" => call[c].op = "DeleteVolume"
         /\ call[c].pc = "delSnap" => call[c].op = "DeleteSnapshot"
         /\ call[c].pc \in {"getQuota", "setQuota"} => call[c].op = "ControllerExpandVolume"
         /\ call[c].op \in {"CreateVolume", "DeleteVolume", "ControllerExpandVolume"} =>
              call[c].obj \in Vols
         /\ call[c].op \in {"CreateSnapshot", "DeleteSnapshot"} => call[c].obj \in Snaps
         /\ call[c].op # "none" => call[c].obj \in Objects
  BY DEF CallsShaped, TypeOK, Call, Ops, StepsOf, Making, Removing, Objects

\* A handler mounts at one of the paths.
LEMMA MountPathType ==
  ASSUME TypeOK, CallsShaped, NEW c \in Slots, call[c].op # "none"
  PROVE  MountPath(c) \in Paths
  BY StepOps, ObjectsAssumption DEF MountPath, GetUniqueId, MountedFor, Paths, Objects

-----------------------------------------------------------------------------
(* Types, and the steps each operation can be at.                          *)

\* A request that starts.
LEMMA StartTypes ==
  ASSUME TypeOK, CallsShaped, NEW c \in Slots, NEW op \in Ops, NEW x \in Objects,
         NEW size \in Sizes \cup {0}, NEW pc \in Pcs, Start(c, op, x, size, pc),
         pc \in {"mount", "getQuota"}, pc \in StepsOf(op),
         op \in {"CreateVolume", "DeleteVolume", "ControllerExpandVolume"} => x \in Vols,
         op \in {"CreateSnapshot", "DeleteSnapshot"} => x \in Snaps
  PROVE  call' \in [Slots -> Call] /\ CallsShaped'
<1>1. call' \in [Slots -> Call]
  BY CallTypes DEF TypeOK, Start
<1>2. CallsShaped'
  BY DEF TypeOK, Start, CallsShaped
<1> QED
  BY <1>1, <1>2

\* A handler that returns.
LEMMA ReturnTypes ==
  ASSUME TypeOK, CallsShaped, NEW c \in Slots, Return(c)
  PROVE  call' \in [Slots -> Call] /\ CallsShaped'
<1>1. call' \in [Slots -> Call]
  BY CallTypes DEF TypeOK, Return
<1>2. call'[c] = NoCall /\ \A d \in Slots \ {c} : call'[d] = call[d]
  BY DEF TypeOK, Return
<1>3. CallsShaped'
  <2>1. call'[c].op = "none" /\ call'[c].pc \in StepsOf(call'[c].op)
    BY <1>2 DEF NoCall, StepsOf
  <2>2. \A d \in Slots : call'[d].pc \in StepsOf(call'[d].op)
    BY <1>2, <2>1 DEF CallsShaped
  <2> QED
    BY <1>2, <2>1, <2>2 DEF CallsShaped
<1> QED
  BY <1>1, <1>3

\* A handler that goes on.
LEMMA GotoTypes ==
  ASSUME TypeOK, CallsShaped, NEW c \in Slots, NEW pc \in Pcs, Goto(c, pc),
         pc \in StepsOf(call[c].op),
         call[c].op = "CreateVolume" =>
           /\ pc = "mkdir" => Source[call[c].obj] = NoSource
           /\ pc \in {"snap", "snapping", "chmod"} => Source[call[c].obj] # NoSource
  PROVE  call' \in [Slots -> Call] /\ CallsShaped'
<1>1. call' \in [Slots -> Call]
  BY CallTypes DEF TypeOK, Goto
<1>2. /\ \A d \in Slots \ {c} : call'[d] = call[d]
      /\ call'[c].pc = pc /\ call'[c].op = call[c].op /\ call'[c].obj = call[c].obj
  BY DEF TypeOK, Goto, Call
<1>3. CallsShaped'
  BY <1>2 DEF CallsShaped
<1> QED
  BY <1>1, <1>3

\* Every step of the controller, the orchestrator and their environment keeps the types
\* and the shape of the handlers.
LEMMA TypeStep == TypeOK /\ CallsShaped /\ [Next]_vars => TypeOK' /\ CallsShaped'
<1> SUFFICES ASSUME TypeOK, CallsShaped, [Next]_vars PROVE TypeOK' /\ CallsShaped'
  OBVIOUS
<1>a. ASSUME NEW c \in Slots, Request(c) PROVE TypeOK' /\ CallsShaped'
  <2>1. ASSUME NEW v \in Vols, NEW size \in Sizes, CreateVolume(c, v, size)
        PROVE  TypeOK' /\ CallsShaped'
    <3>1. call' \in [Slots -> Call] /\ CallsShaped'
      BY <2>1, StartTypes DEF CreateVolume, Ops, Pcs, Objects, StepsOf
    <3> QED
      BY <2>1, <3>1 DEF CreateVolume, TypeOK
  <2>2. ASSUME NEW v \in Vols, NEW size \in Sizes, ControllerExpandVolume(c, v, size)
        PROVE  TypeOK' /\ CallsShaped'
    <3>1. call' \in [Slots -> Call] /\ CallsShaped'
      BY <2>2, StartTypes DEF ControllerExpandVolume, Ops, Pcs, Objects, StepsOf
    <3> QED
      BY <2>2, <3>1 DEF ControllerExpandVolume, TypeOK
  <2>3. ASSUME NEW v \in Vols, DeleteVolume(c, v) PROVE TypeOK' /\ CallsShaped'
    <3>1. call' \in [Slots -> Call] /\ CallsShaped'
      BY <2>3, StartTypes DEF DeleteVolume, Ops, Pcs, Objects, StepsOf
    <3> QED
      BY <2>3, <3>1 DEF DeleteVolume, TypeOK
  <2>4. ASSUME NEW s \in Snaps, CreateSnapshot(c, s) PROVE TypeOK' /\ CallsShaped'
    <3>1. call' \in [Slots -> Call] /\ CallsShaped'
      BY <2>4, StartTypes DEF CreateSnapshot, Ops, Pcs, Objects, StepsOf
    <3> QED
      BY <2>4, <3>1 DEF CreateSnapshot, TypeOK
  <2>5. ASSUME NEW s \in Snaps, DeleteSnapshot(c, s) PROVE TypeOK' /\ CallsShaped'
    <3>1. call' \in [Slots -> Call] /\ CallsShaped'
      BY <2>5, StartTypes DEF DeleteSnapshot, Ops, Pcs, Objects, StepsOf
    <3> QED
      BY <2>5, <3>1 DEF DeleteSnapshot, TypeOK
  <2> QED
    BY <1>a, <2>1, <2>2, <2>3, <2>4, <2>5 DEF Request
<1>b. ASSUME NEW c \in Slots, Step(c) PROVE TypeOK' /\ CallsShaped'
  <2>0. CASE UnmountBeforeMount(c)
    <3>1. call' \in [Slots -> Call] /\ CallsShaped'
      <4>1. "remount" \in Pcs /\ "remount" \in StepsOf(call[c].op)
        BY <2>0, StepOps DEF UnmountBeforeMount, StepsOf, Pcs, Making, Removing
      <4> QED
        BY <2>0, <4>1, GotoTypes, ReturnTypes DEF UnmountBeforeMount
    <3>2. MountPath(c) \in Paths
      BY <2>0, StepOps, MountPathType DEF UnmountBeforeMount
    <3>3. mounts' \in [Paths -> 0..MaxMounts]
      BY <2>0, <3>2, ServiceAssumption DEF UnmountBeforeMount, TypeOK
    <3> QED
      BY <2>0, <3>1, <3>3 DEF UnmountBeforeMount, TypeOK
  <2>1. CASE JfsMount(c)
    <3> DEFINE pc == FirstStep(call[c].op, call[c].obj)
    <3>1. /\ call[c].op \in Making \cup Removing /\ MountPath(c) \in Paths
      BY <2>1, StepOps, MountPathType DEF JfsMount
    <3>2. pc \in StepsOf(call[c].op) /\ pc \in Pcs
      BY <3>1, FirstStepShaped DEF Pcs
    <3>3. call' \in [Slots -> Call]
      BY <2>1, <3>1, <3>2, CallTypes DEF JfsMount, TypeOK
    <3>4. /\ \A d \in Slots \ {c} : call'[d] = call[d]
          /\ call'[c].pc = pc /\ call'[c].op = call[c].op /\ call'[c].obj = call[c].obj
      BY <2>1 DEF JfsMount, TypeOK, Call
    <3>5. CallsShaped'
      BY <3>1, <3>2, <3>4, FirstStepShaped DEF CallsShaped
    <3>6. mounts' \in [Paths -> 0..MaxMounts]
      BY <2>1, <3>1, ServiceAssumption DEF JfsMount, TypeOK
    <3> QED
      BY <2>1, <3>3, <3>5, <3>6 DEF JfsMount, TypeOK
  <2>2. CASE JfsUnmount(c)
    <3>1. call' \in [Slots -> Call] /\ CallsShaped'
      <4>1. "cleanup" \in Pcs /\ "cleanup" \in StepsOf(call[c].op)
        BY <2>2, StepOps DEF JfsUnmount, StepsOf, Pcs, Making, Removing
      <4> QED
        BY <2>2, <4>1, GotoTypes, ReturnTypes DEF JfsUnmount
    <3>2. mounts' \in [Paths -> 0..MaxMounts]
      BY <2>2, ServiceAssumption DEF JfsUnmount, TypeOK, Mounted
    <3> QED
      BY <2>2, <3>1, <3>2 DEF JfsUnmount, TypeOK
  <2>3. CASE JfsCleanupMountPoint(c)
    <3>1. call' \in [Slots -> Call] /\ CallsShaped'
      BY <2>3, ReturnTypes DEF JfsCleanupMountPoint
    <3>2. mounts' \in [Paths -> 0..MaxMounts]
      <4>1. \A p \in Paths : (IF mounts[p] > 0 THEN mounts[p] - 1 ELSE 0) \in 0..MaxMounts
        BY ServiceAssumption DEF TypeOK
      <4>2. mounts' = [mounts EXCEPT ![call[c].path] =
                         IF mounts[call[c].path] > 0 THEN mounts[call[c].path] - 1 ELSE 0]
        BY <2>3 DEF JfsCleanupMountPoint
      <4> QED
        BY <4>1, <4>2 DEF TypeOK
    <3>3. co' \in [Objects -> {"none", "creating", "bound", "ready", "deleting", "deleted"}]
      BY <2>3, StepOps DEF JfsCleanupMountPoint, Succeeded, TypeOK
    <3> QED
      BY <2>3, <3>1, <3>2, <3>3 DEF JfsCleanupMountPoint, TypeOK
  <2>4. CASE MkdirAll(c)
    <3>1. AfterDirectory(c) \in Pcs /\ AfterDirectory(c) \in StepsOf(call[c].op)
          /\ AfterDirectory(c) \in {"umount", "delQuota", "setQos"}
      BY <2>4, StepOps DEF MkdirAll, AfterDirectory, StepsOf, Pcs
    <3>2. call' \in [Slots -> Call] /\ CallsShaped'
      BY <2>4, <3>1, GotoTypes DEF MkdirAll
    <3> QED
      BY <2>4, <3>2 DEF MkdirAll, TypeOK
  <2>5. CASE createSnap(c)
    <3>1. /\ {"chmod", "snapping"} \subseteq Pcs /\ {"chmod", "snapping"} \subseteq StepsOf(call[c].op)
          /\ call[c].op = "CreateVolume" => Source[call[c].obj] # NoSource
      BY <2>5, StepOps DEF createSnap, StepsOf, Pcs, Making, CallsShaped
    <3>2. call' \in [Slots -> Call] /\ CallsShaped'
      BY <2>5, <3>1, GotoTypes, ReturnTypes DEF createSnap
    <3> QED
      BY <2>5, <3>2 DEF createSnap, TypeOK
  <2>6. CASE SnapshotDone(c)
    <3>1. /\ "chmod" \in Pcs /\ "chmod" \in StepsOf(call[c].op)
          /\ call[c].op = "CreateVolume" => Source[call[c].obj] # NoSource
      BY <2>6, StepOps DEF SnapshotDone, StepsOf, Pcs, Making, CallsShaped
    <3>2. call' \in [Slots -> Call] /\ CallsShaped'
      BY <2>6, <3>1, GotoTypes DEF SnapshotDone
    <3>3. SnapSource(c) \in Objects
      BY <2>6, <3>1, StepOps, ObjectsAssumption DEF SnapshotDone, SnapSource, Making, Objects
    <3> QED
      BY <2>6, <3>2, <3>3 DEF SnapshotDone, TypeOK
  <2>7. CASE Chmod(c)
    <3>1. AfterDirectory(c) \in Pcs /\ AfterDirectory(c) \in StepsOf(call[c].op)
          /\ AfterDirectory(c) \in {"umount", "delQuota", "setQos"}
      BY <2>7, StepOps DEF Chmod, AfterDirectory, StepsOf, Pcs, Making
    <3>2. call' \in [Slots -> Call] /\ CallsShaped'
      BY <2>7, <3>1, GotoTypes, ReturnTypes DEF Chmod
    <3> QED
      BY <2>7, <3>2 DEF Chmod, TypeOK
  <2>8. CASE DeleteQuota(c)
    <3>1. /\ {"umount", "createQuota"} \subseteq Pcs
          /\ call[c].op = "DeleteVolume" => "umount" \in StepsOf(call[c].op)
          /\ call[c].op # "DeleteVolume" => "createQuota" \in StepsOf(call[c].op)
      BY <2>8, StepOps DEF DeleteQuota, StepsOf, Pcs
    <3>2. call' \in [Slots -> Call] /\ CallsShaped'
      BY <2>8, <3>1, GotoTypes DEF DeleteQuota
    <3>3. quota' \in [Vols -> Sizes \cup {0}]
      BY <2>8 DEF DeleteQuota, TypeOK
    <3>4. vols' \in [Vols -> [known: BOOLEAN, cap: Sizes \cup {0}]]
      <4>1. [known |-> FALSE, cap |-> 0] \in [known: BOOLEAN, cap: Sizes \cup {0}]
        OBVIOUS
      <4>2. \/ vols' = [vols EXCEPT ![call[c].obj] = [known |-> FALSE, cap |-> 0]]
            \/ vols' = vols
        BY <2>8 DEF DeleteQuota
      <4> QED
        BY <4>1, <4>2 DEF TypeOK
    <3> QED
      BY <2>8, <3>2, <3>3, <3>4 DEF DeleteQuota, TypeOK
  <2>9. CASE CreateQuota(c)
    <3>1. "setQos" \in Pcs /\ "setQos" \in StepsOf(call[c].op)
      BY <2>9, StepOps DEF CreateQuota, StepsOf, Pcs
    <3>2. call' \in [Slots -> Call] /\ CallsShaped'
      BY <2>9, <3>1, GotoTypes, ReturnTypes DEF CreateQuota
    <3> QED
      BY <2>9, <3>2 DEF CreateQuota, TypeOK, Call
  <2>10. CASE SetQos(c)
    <3>1. "umount" \in Pcs /\ "umount" \in StepsOf(call[c].op)
      BY <2>10, StepOps DEF SetQos, StepsOf, Pcs
    <3>2. call' \in [Slots -> Call] /\ CallsShaped'
      BY <2>10, <3>1, GotoTypes DEF SetQos
    <3> QED
      BY <2>10, <3>2 DEF SetQos, TypeOK
  <2>11. CASE RmrDir(c)
    <3>1. "delQuota" \in Pcs /\ "delQuota" \in StepsOf(call[c].op)
      BY <2>11, StepOps DEF RmrDir, StepsOf, Pcs
    <3>2. call' \in [Slots -> Call] /\ CallsShaped'
      BY <2>11, <3>1, GotoTypes DEF RmrDir
    <3> QED
      BY <2>11, <3>2 DEF RmrDir, TypeOK
  <2>12. CASE DeleteSnap(c)
    <3>1. "umount" \in Pcs /\ "umount" \in StepsOf(call[c].op)
      BY <2>12, StepOps DEF DeleteSnap, StepsOf, Pcs
    <3>2. call' \in [Slots -> Call] /\ CallsShaped'
      BY <2>12, <3>1, GotoTypes DEF DeleteSnap
    <3> QED
      BY <2>12, <3>2 DEF DeleteSnap, TypeOK
  <2>13. CASE GetQuota(c)
    <3>1. "setQuota" \in Pcs /\ "setQuota" \in StepsOf(call[c].op)
      BY <2>13, StepOps DEF GetQuota, StepsOf, Pcs
    <3>2. call' \in [Slots -> Call] /\ CallsShaped'
      BY <2>13, <3>1, GotoTypes DEF GetQuota
    <3> QED
      BY <2>13, <3>2 DEF GetQuota, TypeOK
  <2>14. CASE SetQuota(c)
    <3>1. call' \in [Slots -> Call] /\ CallsShaped'
      BY <2>14, ReturnTypes DEF SetQuota
    <3> QED
      BY <2>14, <3>1 DEF SetQuota, TypeOK, Call
  <2> QED
    BY <1>b, <2>0, <2>1, <2>2, <2>3, <2>4, <2>5, <2>6, <2>7, <2>8, <2>9, <2>10, <2>11, <2>12,
       <2>13, <2>14 DEF Step
<1>c. ASSUME NEW c \in Slots, Failure(c) PROVE TypeOK' /\ CallsShaped'
  <2>1. CASE DeleteQuotaIgnored(c)
    <3>1. "createQuota" \in Pcs /\ "createQuota" \in StepsOf(call[c].op)
      BY <2>1, StepOps DEF DeleteQuotaIgnored, StepsOf, Pcs
    <3>2. call' \in [Slots -> Call] /\ CallsShaped'
      BY <2>1, <3>1, GotoTypes DEF DeleteQuotaIgnored
    <3> QED
      BY <2>1, <3>2, FaultTypes DEF DeleteQuotaIgnored, TypeOK
  <2>2. CASE CallFails(c)
    BY <2>2, ReturnTypes, FaultTypes DEF CallFails, TypeOK
  <2>3. CASE SnapshotFails(c)
    BY <2>3, ReturnTypes, FaultTypes DEF SnapshotFails, TypeOK
  <2>4. CASE CallTimesOut(c)
    <3>1. call' \in [Slots -> Call]
      BY <2>4, CallTypes DEF CallTimesOut, TypeOK
    <3>2. \A d \in Slots : /\ call'[d].pc = call[d].pc /\ call'[d].op = call[d].op
                           /\ call'[d].obj = call[d].obj
      BY <2>4 DEF CallTimesOut, TypeOK, Call
    <3>3. CallsShaped'
      BY <3>2 DEF CallsShaped
    <3> QED
      BY <2>4, <3>1, <3>3, FaultTypes DEF CallTimesOut, TypeOK
  <2> QED
    BY <1>c, <2>1, <2>2, <2>3, <2>4 DEF Failure
<1>d. ASSUME PluginRestarts PROVE TypeOK' /\ CallsShaped'
  <2>1. call' \in [Slots -> Call] /\ mounts' \in [Paths -> 0..MaxMounts]
    BY <1>d, ServiceAssumption DEF PluginRestarts, NoCall, Call, Ops, Pcs
  <2>2. CallsShaped'
    BY <1>d DEF PluginRestarts, CallsShaped, NoCall, StepsOf
  <2> QED
    BY <1>d, <2>1, <2>2, FaultTypes DEF PluginRestarts, TypeOK
<1>e. ASSUME Users PROVE TypeOK' /\ CallsShaped'
  BY <1>e DEF Users, TakeSnapshot, Discard, TypeOK, CallsShaped, Objects
<1>f. ASSUME UNCHANGED vars PROVE TypeOK' /\ CallsShaped'
  BY <1>f DEF vars, TypeOK, CallsShaped
<1> QED
  BY <1>a, <1>b, <1>c, <1>d, <1>e, <1>f DEF Next, Quiet

-----------------------------------------------------------------------------
(* What a step of one handler may touch.                                   *)

Handlers == CallsShaped /\ OneHandlerPerId /\ AskedFor /\ SourcesKept /\ OwnMount

Reported(c) ==
  IF call[c].op = "CreateVolume" THEN "bound"
  ELSE IF call[c].op = "CreateSnapshot" THEN "ready" ELSE "deleted"

Moves(c) ==
  /\ Running(c)
  /\ \A d \in Slots \ {c} : call'[d] = call[d]
  /\ \/ call'[c] = NoCall
     \/ /\ call'[c].op = call[c].op /\ call'[c].obj = call[c].obj
        /\ call'[c].size = call[c].size
  /\ \A x \in Objects \ {call[c].obj} : dirs'[x] = dirs[x] /\ co'[x] = co[x]
  /\ \A v \in Vols \ {call[c].obj} : quota'[v] = quota[v]
  /\ \A p \in Paths : mounts'[p] # mounts[p] =>
       \/ call[c].pc \in {"mount", "remount"} /\ p = MountPath(c)
       \/ call[c].pc \in {"umount", "cleanup"} /\ p = call[c].path
  /\ \/ co' = co
     \/ /\ call[c].pc = "cleanup" /\ call'[c] = NoCall /\ UNCHANGED <<dirs, quota>>
        /\ co'[call[c].obj] = Reported(c)

\* Every step of a handler, and every failure of one, touches its own object and path only.
LEMMA StepMoves ==
  ASSUME TypeOK, CallsShaped, NEW c \in Slots, Step(c) \/ Failure(c)
  PROVE  Moves(c)
<1> USE DEF TypeOK, Call, Moves, Running, Goto, Return
<1>1. CASE UnmountBeforeMount(c)
  BY <1>1 DEF UnmountBeforeMount
<1>2. CASE JfsMount(c)
  BY <1>2 DEF JfsMount
<1>3. CASE JfsUnmount(c)
  BY <1>3 DEF JfsUnmount
<1>4. CASE JfsCleanupMountPoint(c)
  <2>1. call[c].op \in Making \cup Removing /\ call[c].obj \in Objects
    BY <1>4, StepOps DEF JfsCleanupMountPoint, Making, Removing
  <2>2. co' = co \/ co' = [co EXCEPT ![call[c].obj] = Reported(c)]
    BY <1>4, <2>1 DEF JfsCleanupMountPoint, Succeeded, Making, Removing, Reported
  <2> QED
    BY <1>4, <2>1, <2>2 DEF JfsCleanupMountPoint
<1>5. CASE MkdirAll(c)
  BY <1>5 DEF MkdirAll
<1>6. CASE createSnap(c)
  BY <1>6 DEF createSnap
<1>7. CASE SnapshotDone(c)
  BY <1>7 DEF SnapshotDone
<1>8. CASE Chmod(c)
  BY <1>8 DEF Chmod
<1>9. CASE DeleteQuota(c)
  BY <1>9 DEF DeleteQuota
<1>10. CASE CreateQuota(c)
  BY <1>10 DEF CreateQuota
<1>11. CASE SetQos(c)
  BY <1>11 DEF SetQos
<1>12. CASE RmrDir(c)
  BY <1>12 DEF RmrDir
<1>13. CASE DeleteSnap(c)
  BY <1>13 DEF DeleteSnap
<1>14. CASE GetQuota(c)
  BY <1>14 DEF GetQuota
<1>15. CASE SetQuota(c)
  BY <1>15 DEF SetQuota
<1>16. CASE DeleteQuotaIgnored(c)
  BY <1>16 DEF DeleteQuotaIgnored
<1>17. CASE CallFails(c)
  BY <1>17 DEF CallFails
<1>18. CASE SnapshotFails(c)
  BY <1>18 DEF SnapshotFails
<1>19. CASE CallTimesOut(c)
  BY <1>19 DEF CallTimesOut
<1> QED
  BY <1>1, <1>2, <1>3, <1>4, <1>5, <1>6, <1>7, <1>8, <1>9, <1>10, <1>11, <1>12, <1>13, <1>14,
     <1>15, <1>16, <1>17, <1>18, <1>19 DEF Step, Failure

\* A handler that has not returned works on the same request (the arguments of its Go call).
LEMMA KeepsRequest ==
  ASSUME NEW c \in Slots, Moves(c), call'[c].op # "none"
  PROVE  call'[c].op = call[c].op /\ call'[c].obj = call[c].obj /\ call'[c].size = call[c].size
<1>1. call'[c] # NoCall
  BY DEF NoCall
<1> QED
  BY <1>1 DEF Moves

\* What the orchestrator wants of the object a handler works on, by the handler's operation.
LEMMA WantedOf ==
  ASSUME TypeOK, CallsShaped, AskedFor, NEW c \in Slots, Running(c)
  PROVE  \/ call[c].op \in Making /\ co[call[c].obj] = "creating"
         \/ call[c].op \in Removing /\ co[call[c].obj] = "deleting"
         \/ call[c].op = "ControllerExpandVolume" /\ co[call[c].obj] \in {"bound", "deleting"}
<1>1. call[c].op \in Ops
  BY DEF TypeOK, Call
<1>2. call[c].op # "none"
  BY StepOps DEF Running
<1>3. call[c].op \in Making \cup Removing \cup {"ControllerExpandVolume"}
  BY <1>1, <1>2 DEF Ops, Making, Removing
<1> QED
  BY <1>3 DEF AskedFor

\* Two handlers never work on one object: the lock keeps them apart, except CreateSnapshot
\* and DeleteSnapshot, which the orchestrator keeps apart.
LEMMA OneHandlerPerObject ==
  ASSUME TypeOK, CallsShaped, OneHandlerPerId, AskedFor, NEW c \in Slots, NEW d \in Slots,
         Running(c), Running(d), call[c].obj = call[d].obj
  PROVE  c = d
<1>1. CASE call[c].op = "CreateSnapshot" <=> call[d].op = "CreateSnapshot"
  BY <1>1 DEF OneHandlerPerId, LockId
<1>2. ASSUME NEW a \in Slots, NEW b \in Slots, Running(b), call[a].obj = call[b].obj,
             call[a].op = "CreateSnapshot", call[b].op # "CreateSnapshot"
      PROVE  FALSE
  <2>1. call[b].obj \in Snaps /\ co[call[b].obj] = "creating"
    BY <1>2, StepOps DEF AskedFor, Making
  <2>2. call[b].op = "DeleteSnapshot"
    BY <1>2, <2>1, StepOps, ObjectsAssumption DEF TypeOK, Call, Ops, Running
  <2> QED
    BY <2>1, <2>2 DEF AskedFor, Removing
<1> QED
  BY <1>1, <1>2

\* Nobody else touches the mount of a handler that needs its own.
LEMMA MountsApart ==
  ASSUME TypeOK, Handlers, NEW c \in Slots, NEW d \in Slots, c # d, Running(c), NeedsMount(d)
  PROVE  /\ call[c].pc \in {"mount", "remount"} => MountPath(c) # call[d].obj
         /\ call[c].pc \in {"umount", "cleanup"} => call[c].path # call[d].obj
<1> USE DEF Handlers
<1>1. /\ Running(d) /\ call[d].obj \in Objects
      /\ co[call[d].obj] \in {"creating", "deleting"}
  BY StepOps DEF NeedsMount, Running, AskedFor, Making, Removing
<1>2. call[c].obj # call[d].obj
  BY <1>1, OneHandlerPerObject
<1>3. MountedFor(call[c].op, call[c].obj) # call[d].obj
  <2>1. CASE call[c].op = "CreateSnapshot"
    <3>1. call[c].obj \in Snaps /\ co[call[c].obj] = "creating"
      BY <2>1, StepOps DEF AskedFor, Making
    <3> QED
      BY <2>1, <3>1, <1>1 DEF SourcesKept, MountedFor
  <2>2. CASE call[c].op # "CreateSnapshot"
    BY <2>2, <1>2 DEF MountedFor
  <2> QED
    BY <2>1, <2>2
<1>4. call[d].obj # SharedPath
  BY <1>1, ObjectsAssumption
<1>5. call[c].pc \in {"mount", "remount"} => MountPath(c) # call[d].obj
  BY <1>3, <1>4 DEF MountPath, GetUniqueId
<1>6. call[c].pc \in {"umount", "cleanup"} => call[c].path # call[d].obj
  BY <1>3, <1>4, StepOps DEF OwnMount, Running
<1> QED
  BY <1>5, <1>6

-----------------------------------------------------------------------------
(* The locks, the orchestrator and the mounts.                             *)

\* A request starts only with the lock, for what the orchestrator wants, and changes
\* nothing but the capacities.
Starts(c) ==
  /\ \A d \in Slots \ {c} : call'[d] = call[d]
  /\ \A d \in Slots : Running(d) =>
       LockId(call[d].op, call[d].obj) # LockId(call'[c].op, call'[c].obj)
  /\ ~Running(c)
  /\ call'[c].pc \in {"mount", "getQuota"}
  /\ LET op == call'[c].op
         x  == call'[c].obj
     IN \/ op = "CreateVolume" /\ co[x] = "creating" /\ HasSource(x)
        \/ op = "CreateSnapshot" /\ co[x] = "creating"
        \/ op \in Removing /\ co[x] = "deleting"
        \/ op = "ControllerExpandVolume" /\ co[x] = "bound" /\ call'[c].size > 0
  /\ UNCHANGED <<dirs, quota, mounts, co>>

\* A request starts a handler only where no other holds the id (TryAcquire).
LEMMA RequestStarts ==
  ASSUME TypeOK, NEW c \in Slots, Request(c)
  PROVE  Starts(c)
<1> USE DEF TypeOK, Start, TryAcquire, Starts, Running
<1>1. ASSUME NEW v \in Vols, NEW size \in Sizes, CreateVolume(c, v, size) PROVE Starts(c)
  BY <1>1 DEF CreateVolume
<1>2. ASSUME NEW v \in Vols, NEW size \in Sizes, ControllerExpandVolume(c, v, size) PROVE Starts(c)
  BY <1>2 DEF ControllerExpandVolume
<1>3. ASSUME NEW v \in Vols, DeleteVolume(c, v) PROVE Starts(c)
  BY <1>3 DEF DeleteVolume, Removing
<1>4. ASSUME NEW s \in Snaps, CreateSnapshot(c, s) PROVE Starts(c)
  BY <1>4 DEF CreateSnapshot
<1>5. ASSUME NEW s \in Snaps, DeleteSnapshot(c, s) PROVE Starts(c)
  BY <1>5 DEF DeleteSnapshot, Removing
<1> QED
  BY <1>1, <1>2, <1>3, <1>4, <1>5 DEF Request

\* ObjLocks does its work: no id is ever locked twice.
LEMMA LocksStep == TypeOK /\ Handlers /\ [Next]_vars => OneHandlerPerId'
<1> SUFFICES ASSUME TypeOK, Handlers, [Next]_vars PROVE OneHandlerPerId'
  OBVIOUS
<1> USE DEF Handlers
<1>1. ASSUME NEW c \in Slots, Request(c) PROVE OneHandlerPerId'
  <2>1. Starts(c)
    BY <1>1, RequestStarts
  <2> QED
    BY <2>1 DEF Starts, OneHandlerPerId, Running
<1>2. ASSUME NEW c \in Slots, Step(c) \/ Failure(c) PROVE OneHandlerPerId'
  <2>1. Moves(c)
    BY <1>2, StepMoves
  <2> QED
    BY <2>1 DEF Moves, OneHandlerPerId, Running, NoCall
<1>3. ASSUME PluginRestarts PROVE OneHandlerPerId'
  BY <1>3 DEF PluginRestarts, OneHandlerPerId, Running, NoCall
<1>4. ASSUME UNCHANGED call PROVE OneHandlerPerId'
  BY <1>4 DEF OneHandlerPerId, Running
<1> QED
  BY <1>1, <1>2, <1>3, <1>4 DEF Next, Users, TakeSnapshot, Discard, Quiet, vars

\* A handler keeps working on what is asked for, and what it copies stays.
LEMMA AskedStep == TypeOK /\ Handlers /\ [Next]_vars => AskedFor' /\ SourcesKept'
<1> SUFFICES ASSUME TypeOK, Handlers, [Next]_vars PROVE AskedFor' /\ SourcesKept'
  OBVIOUS
<1> USE DEF Handlers
<1>1. ASSUME NEW c \in Slots, Request(c) PROVE AskedFor' /\ SourcesKept'
  <2>1. Starts(c)
    BY <1>1, RequestStarts
  <2> QED
    BY <2>1 DEF Starts, AskedFor, SourcesKept, HasSource, Making, Removing
<1>2. ASSUME NEW c \in Slots, Step(c) \/ Failure(c) PROVE AskedFor' /\ SourcesKept'
  <2>1. Moves(c)
    BY <1>2, StepMoves
  <2>2. /\ call[c].op # "none" /\ call[c].obj \in Objects
    BY <2>1, StepOps DEF Moves, Running
  <2>3. CASE co' = co
    <3>1. SourcesKept'
      BY <2>3 DEF SourcesKept
    <3>2. AskedFor'
      BY <2>1, <2>3 DEF Moves, AskedFor, HasSource, NoCall, Making, Removing
    <3> QED
      BY <3>1, <3>2
  <2>4. CASE co' # co
    <3>1. /\ call[c].op \in Making \cup Removing /\ call'[c] = NoCall
          /\ co'[call[c].obj] \in {"bound", "ready", "deleted"}
          /\ co[call[c].obj] \in {"creating", "deleting"}
      BY <2>1, <2>4, StepOps DEF Moves, Reported, AskedFor, Making, Removing
    <3>2. SourcesKept'
      <4> SUFFICES ASSUME NEW s \in Snaps, co'[s] = "creating" PROVE co'[SnapOf[s]] = "bound"
        BY DEF SourcesKept
      <4>1. co[s] = "creating"
        BY <2>1, <3>1 DEF Moves, Objects
      <4>2. SnapOf[s] \in Objects /\ co[SnapOf[s]] = "bound"
        BY <4>1, ObjectsAssumption DEF SourcesKept, Objects
      <4> QED
        BY <2>1, <3>1, <4>2 DEF Moves
    <3>3. ASSUME NEW x \in Objects, co[x] \in {"bound", "ready"} PROVE co'[x] = co[x]
      BY <2>1, <3>1, <3>3 DEF Moves
    <3>4. ASSUME NEW d \in Slots, d # c, call[d].op # "none"
          PROVE  call'[d] = call[d] /\ co'[call[d].obj] = co[call[d].obj]
      <4>1. Running(c) /\ Running(d) /\ call[d].obj \in Objects
        BY <2>1, <3>4, StepOps DEF Moves, Running
      <4>2. call[d].obj # call[c].obj
        BY <3>4, <4>1, OneHandlerPerObject
      <4> QED
        BY <2>1, <3>4, <4>1, <4>2 DEF Moves
    <3>5. ASSUME NEW d \in Slots, call'[d].op # "none"
          PROVE  /\ d # c /\ call[d].op # "none" /\ call'[d] = call[d]
                 /\ co'[call[d].obj] = co[call[d].obj]
      BY <2>1, <3>1, <3>4, <3>5 DEF Moves, NoCall
    <3>6. ASSUME NEW v \in Vols, HasSource(v) PROVE HasSource(v)'
      BY <3>3, <3>6, ObjectsAssumption DEF HasSource
    <3>7. ASSUME NEW d \in Slots
          PROVE  /\ call'[d].op \in Making => co'[call'[d].obj] = "creating"
                 /\ call'[d].op \in Removing => co'[call'[d].obj] = "deleting"
                 /\ call'[d].op = "ControllerExpandVolume" =>
                      co'[call'[d].obj] \in {"bound", "deleting"} /\ call'[d].size > 0
                 /\ call'[d].op = "CreateVolume" =>
                      (Source[call'[d].obj] # NoSource => co'[Source[call'[d].obj]] \in {"bound", "ready"})
      <4>1. CASE call'[d].op = "none"
        BY <4>1 DEF Making, Removing
      <4>2. CASE call'[d].op # "none"
        BY <4>2, <3>5, <3>6, StepOps DEF AskedFor, HasSource
      <4> QED
        BY <4>1, <4>2
    <3>8. AskedFor'
      BY <3>7 DEF AskedFor, HasSource
    <3> QED
      BY <3>2, <3>8
  <2> QED
    BY <2>3, <2>4
<1>3. ASSUME PluginRestarts PROVE AskedFor' /\ SourcesKept'
  BY <1>3 DEF PluginRestarts, AskedFor, SourcesKept, NoCall, Making, Removing
<1>4. ASSUME NEW s \in Snaps, TakeSnapshot(s) PROVE AskedFor' /\ SourcesKept'
  <2>1. SourcesKept'
    BY <1>4, ObjectsAssumption DEF TakeSnapshot, SourcesKept, TypeOK, Objects
  <2>2. \A x \in Objects : x # s => co'[x] = co[x]
    BY <1>4 DEF TakeSnapshot, TypeOK
  <2>3. AskedFor'
    BY <1>4, <2>2, StepOps, ObjectsAssumption
    DEF TakeSnapshot, AskedFor, HasSource, Making, Removing, Objects
  <2> QED
    BY <2>1, <2>3
<1>5. ASSUME NEW x \in Objects, Discard(x) PROVE AskedFor' /\ SourcesKept'
  <2>1. co'[x] = "deleting" /\ \A y \in Objects : y # x => co'[y] = co[y]
    BY <1>5 DEF Discard, TypeOK
  <2>2. SourcesKept'
    BY <1>5, <2>1, ObjectsAssumption DEF Discard, SourcesKept, InUse, Objects
  <2>3. ASSUME NEW v \in Vols, co[v] = "creating", HasSource(v) PROVE HasSource(v)'
    BY <1>5, <2>1, <2>3, ObjectsAssumption DEF Discard, HasSource, InUse, Objects
  <2>4. AskedFor'
    BY <1>5, <2>1, <2>3, StepOps DEF Discard, AskedFor, Making, Removing
  <2> QED
    BY <2>2, <2>4
<1>6. ASSUME UNCHANGED vars PROVE AskedFor' /\ SourcesKept'
  BY <1>6 DEF vars, AskedFor, HasSource, SourcesKept
<1> QED
  BY <1>1, <1>2, <1>3, <1>4, <1>5, <1>6 DEF Next, Users, Quiet

\* Past the mount a handler keeps its path, and reaches the steps that need a mount only
\* by mounting.
LEMMA KeepsPath ==
  ASSUME TypeOK, CallsShaped, NEW c \in Slots, Step(c) \/ Failure(c), ~JfsMount(c),
         call'[c].op # "none", call'[c].pc \notin {"mount", "remount", "getQuota", "setQuota"}
  PROVE  /\ call'[c].path = call[c].path
         /\ call[c].pc \notin {"mount", "remount", "getQuota", "setQuota"}
         /\ call'[c].pc \in {"mkdir", "rmr", "delSnap"} => call'[c].pc = call[c].pc /\ mounts' = mounts
<1> USE DEF TypeOK, Call, Goto, Return, NoCall
<1>1. CASE UnmountBeforeMount(c)
  BY <1>1 DEF UnmountBeforeMount
<1>2. CASE JfsUnmount(c) \/ JfsCleanupMountPoint(c)
  BY <1>2 DEF JfsUnmount, JfsCleanupMountPoint
<1>3. CASE MkdirAll(c) \/ Chmod(c)
  <2>1. AfterDirectory(c) \in {"umount", "delQuota", "setQos"}
    BY DEF AfterDirectory
  <2> QED
    BY <1>3, <2>1 DEF MkdirAll, Chmod
<1>4. CASE createSnap(c) \/ SnapshotDone(c)
  BY <1>4 DEF createSnap, SnapshotDone
<1>5. CASE DeleteQuota(c) \/ CreateQuota(c) \/ SetQos(c)
  BY <1>5 DEF DeleteQuota, CreateQuota, SetQos
<1>6. CASE RmrDir(c) \/ DeleteSnap(c) \/ GetQuota(c) \/ SetQuota(c)
  BY <1>6 DEF RmrDir, DeleteSnap, GetQuota, SetQuota
<1>7. CASE Failure(c)
  BY <1>7 DEF Failure, DeleteQuotaIgnored, CallFails, SnapshotFails, CallTimesOut
<1> QED
  BY <1>1, <1>2, <1>3, <1>4, <1>5, <1>6, <1>7 DEF Step

\* Mounting gives a handler its own path, or the shared one.
LEMMA MountsOwn ==
  ASSUME TypeOK, Handlers, NEW c \in Slots, JfsMount(c)
  PROVE  /\ \/ call'[c].path = MountedFor(call[c].op, call[c].obj)
            \/ ShareMount /\ call'[c].path = SharedPath /\ call[c].op # "CreateVolume"
         /\ mounts'[call'[c].path] > 0
         /\ call'[c].op = call[c].op /\ call'[c].obj = call[c].obj
         /\ call'[c].pc = FirstStep(call[c].op, call[c].obj)
         /\ call[c].op \in Making \cup Removing
<1> USE DEF Handlers
<1>1. call[c].op \in Making \cup Removing /\ MountPath(c) \in Paths
  BY StepOps, MountPathType DEF JfsMount
<1>2. /\ call'[c].path = MountPath(c) /\ call'[c].op = call[c].op /\ call'[c].obj = call[c].obj
      /\ call'[c].pc = FirstStep(call[c].op, call[c].obj)
  BY DEF JfsMount, TypeOK, Call
<1>3. \/ MountPath(c) = MountedFor(call[c].op, call[c].obj)
      \/ ShareMount /\ MountPath(c) = SharedPath /\ call[c].op # "CreateVolume"
  BY DEF MountPath, GetUniqueId, MountedFor, AskedFor, Making
<1>4. mounts'[MountPath(c)] > 0
  BY <1>1, ServiceAssumption DEF JfsMount, TypeOK
<1> QED
  BY <1>1, <1>2, <1>3, <1>4

\* A handler works under its own path, which stays mounted while it needs it, or the shared one.
LEMMA OwnMountStep == TypeOK /\ Handlers /\ [Next]_vars => OwnMount'
<1> SUFFICES ASSUME TypeOK, Handlers, [Next]_vars PROVE OwnMount'
  OBVIOUS
<1> USE DEF Handlers
<1> DEFINE Before == {"mount", "remount", "getQuota", "setQuota"}
           Own(d) ==
             /\ call'[d].op # "none" /\ call'[d].pc \notin Before =>
                  \/ call'[d].path = MountedFor(call'[d].op, call'[d].obj)
                  \/ ShareMount /\ call'[d].path = SharedPath /\ call'[d].op # "CreateVolume"
             /\ (call'[d].pc = "mkdir" \/ (~ShareMount /\ call'[d].pc \in {"rmr", "delSnap"})) =>
                  mounts'[call'[d].obj] > 0
<1>a. ASSUME \A d \in Slots : Own(d) PROVE OwnMount'
  BY <1>a DEF OwnMount, NeedsMount, MountedFor
<1>b. ASSUME NEW d \in Slots, call'[d] = call[d], mounts'[call[d].obj] = mounts[call[d].obj]
      PROVE  Own(d)
  BY <1>b DEF OwnMount, NeedsMount
<1>1. ASSUME NEW c \in Slots, Request(c) PROVE OwnMount'
  <2>1. Starts(c)
    BY <1>1, RequestStarts
  <2>2. \A d \in Slots \ {c} : Own(d)
    BY <2>1, <1>b DEF Starts
  <2>3. Own(c)
    BY <2>1 DEF Starts
  <2> QED
    BY <2>2, <2>3, <1>a
<1>2. ASSUME NEW c \in Slots, Step(c) \/ Failure(c) PROVE OwnMount'
  <2>1. Moves(c)
    BY <1>2, StepMoves
  <2>2. ASSUME NEW d \in Slots, d # c PROVE Own(d)
    <3>1. call'[d] = call[d]
      BY <2>1, <2>2 DEF Moves
    <3>2. CASE NeedsMount(d)
      <4>1. call[d].obj \in Paths
        BY <3>2, StepOps DEF NeedsMount, Paths
      <4>2. mounts'[call[d].obj] = mounts[call[d].obj]
        BY <2>1, <2>2, <3>2, <4>1, MountsApart DEF Moves
      <4> QED
        BY <3>1, <4>2, <1>b
    <3>3. CASE ~NeedsMount(d)
      BY <3>1, <3>3 DEF OwnMount, NeedsMount
    <3> QED
      BY <3>2, <3>3
  <2>3. Own(c)
    <3>1. CASE JfsMount(c)
      <4>1. /\ call'[c].pc = "mkdir" => call[c].op = "CreateVolume"
            /\ call'[c].pc \in {"rmr", "delSnap"} => call[c].op \in Removing
        BY <3>1, MountsOwn, FirstStepShaped DEF FirstStep, Making, Removing
      <4> QED
        BY <3>1, <4>1, MountsOwn DEF MountedFor, Removing
    <3>2. CASE ~JfsMount(c)
      <4>1. CASE call'[c].op # "none" /\ call'[c].pc \notin Before
        <5>1. call'[c].op = call[c].op /\ call'[c].obj = call[c].obj
          BY <2>1, <4>1, KeepsRequest
        <5>2. /\ call'[c].path = call[c].path /\ call[c].pc \notin Before
              /\ call'[c].pc \in {"mkdir", "rmr", "delSnap"} =>
                   call'[c].pc = call[c].pc /\ mounts' = mounts
          BY <1>2, <3>2, <4>1, KeepsPath
        <5> QED
          BY <4>1, <5>1, <5>2 DEF OwnMount, NeedsMount
      <4>2. CASE ~(call'[c].op # "none" /\ call'[c].pc \notin Before)
        <5>1. TypeOK' /\ CallsShaped'
          BY TypeStep
        <5>2. call'[c].op = "none" => call'[c].pc = "idle"
          BY <5>1 DEF CallsShaped, StepsOf
        <5> QED
          BY <4>2, <5>2
      <4> QED
        BY <4>1, <4>2
    <3> QED
      BY <3>1, <3>2
  <2> QED
    BY <2>2, <2>3, <1>a
<1>3. ASSUME PluginRestarts PROVE OwnMount'
  <2>1. \A d \in Slots : Own(d)
    BY <1>3 DEF PluginRestarts, NoCall
  <2> QED
    BY <2>1, <1>a
<1>4. ASSUME UNCHANGED <<call, mounts>> PROVE OwnMount'
  <2>1. \A d \in Slots : Own(d)
    BY <1>4, <1>b
  <2> QED
    BY <2>1, <1>a
<1> QED
  BY <1>1, <1>2, <1>3, <1>4 DEF Next, Users, TakeSnapshot, Discard, Quiet, vars

-----------------------------------------------------------------------------
(* The quota of a volume that is created.                                  *)

\* The handler's own progress: past CreateQuota the quota is the one it was asked for.
LEMMA SetsOwnQuota ==
  ASSUME TypeOK, Handlers, QuotaSet, NEW c \in Slots, Step(c) \/ Failure(c),
         call'[c].op = "CreateVolume", call'[c].size > 0, call'[c].pc \in {"setQos", "umount", "cleanup"}
  PROVE  quota'[call'[c].obj] = call'[c].size
<1> USE DEF Handlers
<1>0. /\ call'[c].op = call[c].op /\ call'[c].obj = call[c].obj /\ call'[c].size = call[c].size
      /\ call[c].op = "CreateVolume" /\ call[c].obj \in Vols
  <2>1. call'[c].op = call[c].op /\ call'[c].obj = call[c].obj /\ call'[c].size = call[c].size
    BY StepMoves, KeepsRequest
  <2> QED
    BY <2>1, StepOps
<1>1. CASE CreateQuota(c)
  BY <1>0, <1>1 DEF CreateQuota, Return, NoCall, TypeOK
<1>2. CASE MkdirAll(c) \/ Chmod(c)
  BY <1>0, <1>2 DEF MkdirAll, Chmod, AfterDirectory, Goto, Return, NoCall, TypeOK, Call
<1>3. CASE SetQos(c) \/ JfsUnmount(c)
  BY <1>0, <1>3 DEF SetQos, JfsUnmount, QuotaSet, Return, NoCall, TypeOK
<1>4. CASE UnmountBeforeMount(c) \/ JfsCleanupMountPoint(c) \/ createSnap(c) \/ SnapshotDone(c)
  BY <1>0, <1>4 DEF UnmountBeforeMount, JfsCleanupMountPoint, createSnap, SnapshotDone, Goto, Return,
     NoCall, TypeOK, Call
<1>5. CASE JfsMount(c)
  BY <1>0, <1>5, MountsOwn, FirstStepShaped
<1>6. CASE DeleteQuota(c) \/ RmrDir(c) \/ DeleteSnap(c) \/ GetQuota(c) \/ SetQuota(c)
  BY <1>0, <1>6, StepOps DEF DeleteQuota, RmrDir, DeleteSnap, GetQuota, SetQuota, Goto, TypeOK, Call
<1>7. CASE Failure(c)
  BY <1>0, <1>7 DEF Failure, DeleteQuotaIgnored, CallFails, SnapshotFails, CallTimesOut, QuotaSet,
     Goto, Return, NoCall, TypeOK, Call
<1> QED
  BY <1>1, <1>2, <1>3, <1>4, <1>5, <1>6, <1>7 DEF Step

\* No other step changes a quota between its setting and the end of the handler.
LEMMA QuotaStep == TypeOK /\ Handlers /\ QuotaSet /\ [Next]_vars => QuotaSet'
<1> SUFFICES ASSUME TypeOK, Handlers, QuotaSet, [Next]_vars PROVE QuotaSet'
  OBVIOUS
<1> USE DEF Handlers
<1>1. ASSUME NEW c \in Slots, Request(c) PROVE QuotaSet'
  BY <1>1, RequestStarts DEF Starts, QuotaSet
<1>2. ASSUME NEW c \in Slots, Step(c) \/ Failure(c) PROVE QuotaSet'
  <2> SUFFICES ASSUME NEW d \in Slots, call'[d].op = "CreateVolume", call'[d].size > 0,
                      call'[d].pc \in {"setQos", "umount", "cleanup"}
               PROVE  quota'[call'[d].obj] = call'[d].size
    BY DEF QuotaSet
  <2>1. CASE d = c
    BY <1>2, <2>1, SetsOwnQuota
  <2>2. CASE d # c
    <3>1. Moves(c)
      BY <1>2, StepMoves
    <3>2. call'[d] = call[d] /\ Running(c) /\ Running(d)
      BY <2>2, <3>1 DEF Moves, Running
    <3>3. call[d].obj # call[c].obj /\ call[d].obj \in Vols
      BY <2>2, <3>2, OneHandlerPerObject, StepOps
    <3> QED
      BY <3>1, <3>2, <3>3 DEF Moves, QuotaSet
  <2> QED
    BY <2>1, <2>2
<1>3. ASSUME PluginRestarts PROVE QuotaSet'
  BY <1>3 DEF PluginRestarts, QuotaSet, NoCall
<1>4. ASSUME UNCHANGED <<call, quota>> PROVE QuotaSet'
  BY <1>4 DEF QuotaSet
<1> QED
  BY <1>1, <1>2, <1>3, <1>4 DEF Next, Users, TakeSnapshot, Discard, Quiet, vars

=============================================================================
