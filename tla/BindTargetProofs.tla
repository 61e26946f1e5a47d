--------------------------- MODULE BindTargetProofs ---------------------------
(***************************************************************************)
(* Proofs about BindTarget, for any number of clients, failing calls and   *)
(* recoveries that fall into the unpublishing: the table may grow without  *)
(* a bound.                                                                *)
(***************************************************************************)
EXTENDS BindTarget, SequenceTheorems, WellFoundedInduction, TLAPS

-----------------------------------------------------------------------------
(* The mount table.                                                        *)

\* A set of indices that is not empty has a largest one.
LEMMA LastIndex ==
  ASSUME NEW n \in Nat, NEW I \in SUBSET (1..n), I # {}
  PROVE  Max(I) \in I /\ \A y \in I : Max(I) >= y
<1> DEFINE T == {n - i : i \in I}
           Less == OpToRel(<, Nat)
<1>1. T \subseteq Nat /\ T # {}
  <2>1. \A i \in I : n - i \in Nat
    OBVIOUS
  <2>2. PICK i \in I : TRUE
    OBVIOUS
  <2>3. n - i \in T
    OBVIOUS
  <2> QED
    BY <2>1, <2>3
<1>2. IsWellFoundedOn(Less, Nat)
  BY NatLessThanWellFounded
<1>3. PICK m \in T : \A y \in T : <<y, m>> \notin Less
  <2> HIDE DEF T, Less
  <2> QED
    BY <1>1, <1>2, WFMin
<1>4. \A y \in T : ~(y < m)
  <2> SUFFICES ASSUME NEW y \in T, y < m PROVE FALSE
    OBVIOUS
  <2>1. <<y, m>> \in Nat \X Nat
    BY <1>1
  <2>2. <<y, m>> \in Less
    BY <2>1 DEF OpToRel
  <2> QED
    BY <1>3, <2>2
<1>5. PICK i \in I : m = n - i
  OBVIOUS
<1>6. \A y \in I : i >= y
  <2> SUFFICES ASSUME NEW y \in I PROVE i >= y
    OBVIOUS
  <2>1. n - y \in T
    OBVIOUS
  <2> QED
    BY <1>4, <1>5, <2>1
<1> QED
  BY <1>6 DEF Max

\* A table has an entry for a path, and its last one.
Has(s, p)     == \E i \in 1..Len(s) : s[i].at = p
PlaceIn(s, p) == SelectLastInSeq(s, LAMBDA e : e.at = p)

\* Find is the place of the last entry for a path, and 0 without one.
LEMMA PlaceIsLast ==
  ASSUME NEW s \in Seq(Entry), NEW p
  PROVE  /\ PlaceIn(s, p) # 0 <=> Has(s, p)
         /\ Has(s, p) => PlaceIn(s, p) \in 1..Len(s) /\ s[PlaceIn(s, p)].at = p
<1> DEFINE I == {i \in 1..Len(s) : s[i].at = p}
<1>1. PlaceIn(s, p) = IF I # {} THEN Max(I) ELSE 0
  BY DEF PlaceIn, SelectLastInSeq
<1>2. Len(s) \in Nat
  OBVIOUS
<1>3. CASE I = {}
  BY <1>1, <1>3 DEF Has
<1>4. CASE I # {}
  <2>1. Max(I) \in I
    BY <1>2, <1>4, LastIndex
  <2> QED
    BY <1>1, <1>2, <1>4, <2>1 DEF Has
<1> QED
  BY <1>3, <1>4

\* So of the table, before and after a step.
LEMMA OnIsHas ==
  /\ table \in Seq(Entry) => \A p : On(p) <=> Has(table, p)
  /\ table' \in Seq(Entry) => \A p : On(p)' <=> Has(table', p)
<1>1. ASSUME NEW p PROVE Find(p) = PlaceIn(table, p) /\ Find(p)' = PlaceIn(table', p)
  BY DEF Find, PlaceIn, SelectLastInSeq
<1> QED
  BY <1>1, PlaceIsLast DEF On

\* Without one entry, the others are there in their order.
LEMMA RemoveAtProperties ==
  ASSUME NEW S, NEW s \in Seq(S), NEW i \in 1..Len(s)
  PROVE  /\ RemoveAt(s, i) \in Seq(S)
         /\ Len(RemoveAt(s, i)) = Len(s) - 1
         /\ \A k \in 1..(Len(s) - 1) : RemoveAt(s, i)[k] = IF k < i THEN s[k] ELSE s[k + 1]
<1> DEFINE a == SubSeq(s, 1, i - 1)
           b == SubSeq(s, i + 1, Len(s))
<1>1. Len(s) \in Nat /\ i \in Int /\ \A k \in 1..Len(s) : s[k] \in S
  OBVIOUS
<1>2. a \in Seq(S) /\ Len(a) = i - 1 /\ \A k \in 1..(i - 1) : a[k] = s[k]
  BY <1>1, SubSeqProperties
<1>3. b \in Seq(S) /\ Len(b) = Len(s) - i /\ \A k \in 1..(Len(s) - i) : b[k] = s[i + k]
  BY <1>1, SubSeqProperties
<1>4. RemoveAt(s, i) = a \o b
  BY DEF RemoveAt
<1> HIDE DEF a, b
<1>5. /\ a \o b \in Seq(S) /\ Len(a \o b) = Len(a) + Len(b)
      /\ \A k \in 1..(Len(a) + Len(b)) : (a \o b)[k] = IF k <= Len(a) THEN a[k] ELSE b[k - Len(a)]
  BY <1>2, <1>3, ConcatProperties
<1>6. Len(a) + Len(b) = Len(s) - 1
  BY <1>1, <1>2, <1>3
<1>7. ASSUME NEW k \in 1..(Len(s) - 1)
      PROVE  (a \o b)[k] = IF k < i THEN s[k] ELSE s[k + 1]
  <2>1. (a \o b)[k] = IF k <= i - 1 THEN a[k] ELSE b[k - (i - 1)]
    BY <1>2, <1>5, <1>6
  <2>2. CASE k < i
    <3>1. k \in 1..(i - 1) /\ k <= i - 1
      BY <1>1, <2>2
    <3> QED
      BY <1>2, <2>1, <2>2, <3>1
  <2>3. CASE ~(k < i)
    <3>1. k - (i - 1) \in 1..(Len(s) - i) /\ ~(k <= i - 1) /\ i + (k - (i - 1)) = k + 1
      BY <1>1, <2>3
    <3> QED
      BY <1>3, <2>1, <2>3, <3>1
  <2> QED
    BY <2>2, <2>3
<1> QED
  BY <1>4, <1>5, <1>6, <1>7

\* At most one mount at the mount path.
OneMountPath(s) ==
  \A i, j \in 1..Len(s) : s[i].at = "mountPath" /\ s[j].at = "mountPath" => i = j

\* umount takes an entry away and adds none.
LEMMA RemoveKeeps ==
  ASSUME NEW s \in Seq(Entry), NEW i \in 1..Len(s), OneMountPath(s)
  PROVE  /\ RemoveAt(s, i) \in Seq(Entry)
         /\ \A p : Has(RemoveAt(s, i), p) => Has(s, p)
         /\ OneMountPath(RemoveAt(s, i))
         /\ s[i].at = "mountPath" => ~Has(RemoveAt(s, i), "mountPath")
<1> DEFINE r == RemoveAt(s, i)
           old(k) == IF k < i THEN k ELSE k + 1
<1>0. Len(s) \in Nat
  OBVIOUS
<1>1. /\ r \in Seq(Entry) /\ Len(r) = Len(s) - 1
      /\ \A k \in 1..(Len(s) - 1) : r[k] = IF k < i THEN s[k] ELSE s[k + 1]
  BY RemoveAtProperties, Zenon
<1> HIDE DEF r
<1>2. \A k \in 1..Len(r) : old(k) \in 1..Len(s) /\ old(k) # i /\ r[k] = s[old(k)]
  <2> SUFFICES ASSUME NEW k \in 1..Len(r)
               PROVE  old(k) \in 1..Len(s) /\ old(k) # i /\ r[k] = s[old(k)]
    OBVIOUS
  <2>1. k \in 1..(Len(s) - 1)
    BY <1>0, <1>1
  <2>2. CASE k < i
    BY <1>0, <1>1, <2>1, <2>2
  <2>3. CASE ~(k < i)
    BY <1>0, <1>1, <2>1, <2>3
  <2> QED
    BY <2>2, <2>3
<1>3. \A k, l \in 1..Len(r) : old(k) = old(l) => k = l
  <2> SUFFICES ASSUME NEW k \in 1..Len(r), NEW l \in 1..Len(r), old(k) = old(l) PROVE k = l
    OBVIOUS
  <2>1. k \in Int /\ l \in Int /\ i \in Int
    BY <1>0, <1>1
  <2>2. CASE k < i
    BY <2>1, <2>2
  <2>3. CASE ~(k < i)
    BY <2>1, <2>3
  <2> QED
    BY <2>2, <2>3
<1> HIDE DEF old
<1>4. \A p : Has(r, p) => Has(s, p)
  BY <1>2 DEF Has
<1>5. OneMountPath(r)
  BY <1>2, <1>3 DEF OneMountPath
<1>6. s[i].at = "mountPath" => ~Has(r, "mountPath")
  BY <1>2 DEF Has, OneMountPath
<1> QED
  BY <1>1, <1>4, <1>5, <1>6 DEF r

\* mount adds one entry, and a mount path only where there is none.
LEMMA AppendAdds ==
  ASSUME NEW s \in Seq(Entry), NEW e \in Entry, OneMountPath(s),
         e.at = "mountPath" => ~Has(s, "mountPath")
  PROVE  /\ Append(s, e) \in Seq(Entry)
         /\ \A p : Has(Append(s, e), p) => Has(s, p) \/ p = e.at
         /\ OneMountPath(Append(s, e))
<1> DEFINE r == Append(s, e)
<1>1. /\ r \in Seq(Entry) /\ Len(r) = Len(s) + 1 /\ Len(s) \in Nat
      /\ \A k \in 1..Len(s) : r[k] = s[k]
      /\ r[Len(s) + 1] = e
  BY AppendProperties
<1> HIDE DEF r
<1>2. \A k \in 1..Len(r) : k \in 1..Len(s) \/ k = Len(s) + 1
  BY <1>1
<1>3. \A p : Has(r, p) => Has(s, p) \/ p = e.at
  BY <1>1, <1>2 DEF Has
<1>4. OneMountPath(r)
  BY <1>1, <1>2 DEF OneMountPath, Has
<1> QED
  BY <1>1, <1>3, <1>4 DEF r

\* umount of a path, in the model's words.
LEMMA PopStep ==
  ASSUME TypeOK, NEW p, Pop(p)
  PROVE  /\ table' \in Seq(Entry) /\ OneMountPath(table')
         /\ On("target")' => On("target")
<1>1. table \in Seq(Entry) /\ OneMountPath(table)
  BY DEF TypeOK, OneMountPath
<1>2. CASE ~On(p)
  <2>1. table' = table
    BY <1>2 DEF Pop
  <2> QED
    BY <1>1, <2>1, OnIsHas
<1>3. CASE On(p)
  <2>1. Find(p) = PlaceIn(table, p)
    BY DEF Find, PlaceIn, SelectLastInSeq
  <2>2. Find(p) \in 1..Len(table)
    BY <1>1, <1>3, <2>1, PlaceIsLast DEF On
  <2>3. table' = RemoveAt(table, Find(p))
    BY <1>3 DEF Pop
  <2> QED
    BY <1>1, <2>2, <2>3, RemoveKeeps, OnIsHas
<1> QED
  BY <1>2, <1>3

\* A mount on the target or elsewhere leaves the mount path alone.
LEMMA AddStep ==
  ASSUME TypeOK, NEW p \in {"target", "other"}, NEW m \in 0..MaxClients, Add(p, m)
  PROVE  /\ table' \in Seq(Entry) /\ OneMountPath(table')
         /\ On("target")' => On("target") \/ p = "target"
<1>1. table \in Seq(Entry) /\ OneMountPath(table)
  BY DEF TypeOK, OneMountPath
<1>2. [at |-> p, minor |-> m] \in Entry
  BY DEF Entry
<1>3. /\ table' \in Seq(Entry) /\ OneMountPath(table')
      /\ \A q : Has(table', q) => Has(table, q) \/ q = p
  BY <1>1, <1>2, AppendAdds DEF Add
<1> QED
  BY <1>1, <1>3, OnIsHas

-----------------------------------------------------------------------------
(* The steps.                                                              *)

\* What is mounted on the target is mounted on its directory.
MountedOnDir == On("target") => dir

CleanInv == MountedOnDir /\ UnpublishedIsClean

\* TypeOK but for the table.
LocalTypes ==
  /\ dir \in BOOLEAN /\ ref \in BOOLEAN /\ bound \in BOOLEAN
  /\ client \in {0, started} /\ started \in 0..MaxClients
  /\ pc \in {"idle", "create", "mount", "check", "unbind", "bind", "published",
             "umount", "cleanup", "remove", "done", "gone"}
  /\ rec \in {"source", "fallback", "stat", "bind"} /\ src \in {"volume", "mntPath"}
  /\ faults \in 0..MaxFaults /\ races \in 0..MaxRaces

\* The parts of TypeOK.
LEMMA TypeParts == TypeOK <=> table \in Seq(Entry) /\ OneMountPath(table) /\ LocalTypes
  BY DEF TypeOK, OneMountPath, LocalTypes

\* Is something mounted on the target or not: the answer is a Boolean.
LEMMA OnIsBoolean == \A p : On(p) \in BOOLEAN
  BY DEF On

\* The table after each step: entries come onto a target that has its directory, when it
\* is bound by Mount or by RecoverBind, and from nowhere else.
LEMMA TableStep ==
  ASSUME TypeOK, [Next]_vars
  PROVE  /\ table' \in Seq(Entry) /\ OneMountPath(table')
         /\ On("target")' => On("target") \/ ((Mount \/ RecoverBind) /\ dir)
<1> DEFINE Goal == /\ table' \in Seq(Entry) /\ OneMountPath(table')
                   /\ On("target")' => On("target") \/ ((Mount \/ RecoverBind) /\ dir)
<1>1. /\ table \in Seq(Entry) /\ OneMountPath(table) /\ client \in 0..MaxClients
      /\ started \in 0..MaxClients
  BY BoundsAssumption DEF TypeOK, OneMountPath
<1>2. ASSUME UNCHANGED table PROVE Goal
  BY <1>1, <1>2, OnIsHas
<1>3. ASSUME NEW p, Pop(p) PROVE Goal
  BY <1>3, PopStep
<1>4. CASE Mount
  <2>1. CASE dir /\ Serves("mountPath")
    BY <1>1, <1>4, <2>1, AddStep DEF Mount
  <2>2. CASE ~(dir /\ Serves("mountPath"))
    BY <1>2, <1>4, <2>2 DEF Mount
  <2> QED
    BY <2>1, <2>2
<1>5. CASE RecoverBind
  <2>1. CASE dir /\ SourceMinor # {}
    <3>1. PICK m \in SourceMinor : Add("target", m)
      BY <1>5, <2>1 DEF RecoverBind
    <3>2. m \in 0..MaxClients
      BY <1>1, BoundsAssumption DEF SourceMinor
    <3> QED
      BY <1>5, <2>1, <3>1, <3>2, AddStep
  <2>2. CASE ~(dir /\ SourceMinor # {})
    BY <1>2, <1>5, <2>2 DEF RecoverBind
  <2> QED
    BY <2>1, <2>2
<1>6. CASE OtherMount
  <2>1. CASE On("other")
    BY <1>3, <1>6, <2>1 DEF OtherMount
  <2>2. CASE ~On("other")
    <3>1. Add("other", 0)
      BY <1>6, <2>2 DEF OtherMount
    <3>2. 0 \in 0..MaxClients
      BY BoundsAssumption
    <3> QED
      BY <3>1, <3>2, AddStep
  <2> QED
    BY <2>1, <2>2
\* The old mount at the mount path has gone when the new one comes.
<1>7. CASE ClientStarts
  <2> DEFINE e == [at |-> "mountPath", minor |-> started + 1]
  <2>1. table' = Append(table, e) /\ ~Has(table, "mountPath")
    BY <1>1, <1>7, OnIsHas DEF ClientStarts, Add
  <2>2. e \in Entry
    BY <1>1, <1>7, BoundsAssumption DEF ClientStarts, Entry
  <2>3. /\ table' \in Seq(Entry) /\ OneMountPath(table')
        /\ \A p : Has(table', p) => Has(table, p) \/ p = "mountPath"
    BY <1>1, <2>1, <2>2, AppendAdds
  <2> QED
    BY <1>1, <2>3, OnIsHas
<1>8. CASE CreateTarget \/ UmountPath \/ UmountLoop \/ CleanupMountPoint \/ podDeletedHandler
  <2>1. Pop("target") \/ Pop("mountPath") \/ UNCHANGED table
    BY <1>8 DEF CreateTarget, UmountPath, UmountLoop, CleanupMountPoint, podDeletedHandler
  <2> QED
    BY <1>2, <1>3, <2>1
<1>9. CASE \/ NodePublishVolume \/ NodeUnpublishVolume \/ JfsMount \/ checkBindAndMount
           \/ RemoveTarget \/ JUmount \/ PublishFails \/ UnpublishFails \/ podReadyHandler
           \/ RecoverFallback \/ RecoverStat \/ ClientDies \/ UNCHANGED vars
  <2>1. UNCHANGED table
    BY <1>9 DEF NodePublishVolume, NodeUnpublishVolume, JfsMount, checkBindAndMount,
                RemoveTarget, JUmount, PublishFails, UnpublishFails, podReadyHandler,
                RecoverFallback, RecoverStat, ClientDies, vars
  <2> QED
    BY <1>2, <2>1
<1> QED
  BY <1>4, <1>5, <1>6, <1>7, <1>8, <1>9 DEF Next, Publish, Unpublish, Recover

\* Every step keeps the types.
LEMMA TypeStep == TypeOK /\ [Next]_vars => TypeOK'
<1> SUFFICES ASSUME TypeOK, [Next]_vars PROVE TypeOK'
  OBVIOUS
<1>1. LocalTypes
  BY TypeParts
<1>2. On("target") \in BOOLEAN
  BY OnIsBoolean
<1>3. LocalTypes'
  <2> USE DEF LocalTypes
  <2>1. CASE NodePublishVolume \/ NodeUnpublishVolume \/ CreateTarget
    BY <1>1, <2>1 DEF NodePublishVolume, NodeUnpublishVolume, CreateTarget
  <2>11. CASE JfsMount
    <3>1. ref' \in BOOLEAN
      BY <1>1, <2>11, Zenon DEF JfsMount
    <3>2. faults' \in 0..MaxFaults
      BY <1>1, <2>11, BoundsAssumption DEF JfsMount, Fault
    <3> QED
      BY <1>1, <2>11, <3>1, <3>2 DEF JfsMount
  <2>2. CASE checkBindAndMount
    BY <1>1, <1>2, <2>2 DEF checkBindAndMount
  <2>3. CASE UmountPath \/ UmountLoop \/ CleanupMountPoint \/ JUmount
    BY <1>1, <2>3 DEF UmountPath, UmountLoop, CleanupMountPoint, JUmount
  <2>4. CASE Mount
    BY <1>1, <1>2, <2>4 DEF Mount
  <2>5. CASE RemoveTarget
    BY <1>1, <1>2, <2>5 DEF RemoveTarget
  <2>6. CASE PublishFails \/ UnpublishFails
    <3>1. ref' = ref \/ ref' = TRUE
      BY <2>6, Zenon DEF PublishFails, UnpublishFails
    <3>2. ref' \in BOOLEAN
      BY <1>1, <3>1, Zenon
    <3>3. faults' \in 0..MaxFaults
      <4>1. faults < MaxFaults /\ faults' = faults + 1
        BY <2>6, Zenon DEF PublishFails, UnpublishFails, Fault
      <4> QED
        BY <1>1, <4>1, BoundsAssumption
    <3>4. /\ pc' \in {"idle", "umount"}
          /\ UNCHANGED <<dir, client, started, bound, rec, src, races>>
      BY <2>6 DEF PublishFails, UnpublishFails
    <3> QED
      BY <1>1, <3>2, <3>3, <3>4
  <2>7. CASE podReadyHandler \/ RecoverFallback \/ RecoverStat
    BY <1>1, <2>7, BoundsAssumption DEF podReadyHandler, RecoverFallback, RecoverStat
  <2>8. CASE RecoverBind \/ OtherMount
    BY <1>1, <2>8 DEF RecoverBind, OtherMount
  <2>9. CASE ClientDies \/ ClientStarts
    BY <1>1, <2>9, BoundsAssumption DEF ClientDies, ClientStarts
  <2>12. CASE podDeletedHandler
    <3>1. ref' \in BOOLEAN
      BY <1>1, <2>12, Zenon DEF podDeletedHandler
    <3> QED
      BY <1>1, <2>12, <3>1 DEF podDeletedHandler
  <2>10. CASE UNCHANGED vars
    BY <1>1, <2>10 DEF vars
  <2> HIDE DEF LocalTypes
  <2> QED
    BY <2>1, <2>2, <2>3, <2>4, <2>5, <2>6, <2>7, <2>8, <2>9, <2>10, <2>11, <2>12
       DEF Next, Publish, Unpublish, Recover
<1>4. table' \in Seq(Entry) /\ OneMountPath(table')
  BY TableStep
<1> QED
  BY <1>3, <1>4 DEF TypeOK, OneMountPath, LocalTypes

\* The types hold, and podDeletedHandler's umount of the mount path leaves one mount
\* there at most, for any number of clients.
THEOREM TypeCorrect == Spec => []TypeOK
<1>1. Init => TypeOK
  <2> SUFFICES ASSUME Init PROVE TypeOK
    OBVIOUS
  <2>1. table \in Seq(Entry) /\ Len(table) = 0
    BY DEF Init
  <2>2. OneMountPath(table)
    <3>1. \A i \in 1..Len(table) : FALSE
      BY <2>1
    <3> QED
      BY <3>1, Zenon DEF OneMountPath
  <2>3. LocalTypes
    <3>1. started \in 0..MaxClients /\ faults \in 0..MaxFaults /\ races \in 0..MaxRaces
      BY BoundsAssumption DEF Init
    <3>2. dir \in BOOLEAN /\ ref \in BOOLEAN /\ bound \in BOOLEAN
      BY Zenon DEF Init
    <3>3. client \in {0, started} /\ pc = "idle" /\ rec = "source" /\ src = "volume"
      BY DEF Init
    <3> QED
      BY <3>1, <3>2, <3>3 DEF LocalTypes
  <2> QED
    BY <2>1, <2>2, <2>3, TypeParts
<1> QED
  BY <1>1, TypeStep, PTL DEF Spec

\* Nothing is mounted on a target without a directory, and nothing brings an unpublished
\* target back.
LEMMA CleanStep == TypeOK /\ CleanInv /\ [Next]_vars => CleanInv'
<1> SUFFICES ASSUME TypeOK, CleanInv, [Next]_vars PROVE CleanInv'
  OBVIOUS
<1>1. LocalTypes /\ (On("target") => dir) /\ (pc \in {"done", "gone"} => ~dir /\ ~On("target"))
  BY TypeParts DEF CleanInv, MountedOnDir, UnpublishedIsClean
<1>2. On("target")' => On("target") \/ ((Mount \/ RecoverBind) /\ dir)
  BY TableStep
<1> SUFFICES /\ On("target")' => dir'
             /\ pc' \in {"done", "gone"} => ~dir' /\ ~On("target")'
  BY DEF CleanInv, MountedOnDir, UnpublishedIsClean
<1>3. CASE Mount
  <2>1. CASE dir /\ Serves("mountPath")
    BY <1>1, <1>3, <2>1 DEF Mount
  <2>2. CASE ~(dir /\ Serves("mountPath"))
    <3>1. UNCHANGED table /\ pc' = "idle" /\ dir' = (dir /\ On("target"))
      BY <1>3, <2>2 DEF Mount
    <3>2. On("target")' <=> On("target")
      BY <3>1, OnIsHas DEF TypeOK
    <3> QED
      BY <1>1, <3>1, <3>2
  <2> QED
    BY <2>1, <2>2
<1>4. CASE RecoverBind
  BY <1>1, <1>2, <1>4 DEF RecoverBind
<1>5. CASE RemoveTarget
  <2>1. On("target")' <=> On("target")
    BY <1>5, OnIsHas DEF RemoveTarget, TypeOK
  <2> QED
    BY <1>5, <2>1 DEF RemoveTarget
<1>6. CASE CreateTarget
  BY <1>1, <1>2, <1>6 DEF CreateTarget
<1>7. CASE CleanupMountPoint
  BY <1>1, <1>2, <1>7 DEF CleanupMountPoint
<1>8. CASE NodePublishVolume \/ NodeUnpublishVolume \/ JfsMount \/ checkBindAndMount \/ UmountPath
  BY <1>1, <1>2, <1>8 DEF NodePublishVolume, NodeUnpublishVolume, JfsMount, checkBindAndMount,
                          UmountPath
<1>9. CASE UmountLoop \/ JUmount
  BY <1>1, <1>2, <1>9 DEF UmountLoop, JUmount
<1>11. CASE PublishFails \/ UnpublishFails
  <2>1. pc' \in {"idle", "umount"} /\ UNCHANGED <<table, dir>>
    BY <1>11 DEF PublishFails, UnpublishFails
  <2> QED
    BY <1>1, <2>1, OnIsHas DEF TypeOK
<1>10. CASE \/ podReadyHandler \/ RecoverFallback \/ RecoverStat \/ ClientDies
            \/ podDeletedHandler \/ ClientStarts \/ OtherMount \/ UNCHANGED vars
  <2>1. UNCHANGED <<dir, pc>>
    BY <1>10 DEF podReadyHandler, RecoverFallback, RecoverStat, ClientDies,
                 podDeletedHandler, ClientStarts, OtherMount, vars
  <2>2. On("target")' => dir
    BY <1>1, <1>2
  <2> QED
    BY <1>1, <2>1, <2>2
<1> QED
  BY <1>3, <1>4, <1>5, <1>6, <1>7, <1>8, <1>9, <1>10, <1>11 DEF Next, Publish, Unpublish, Recover

\* Mounts are on directories, and unpublished targets clean.
LEMMA CleanInvariant == Spec => []CleanInv
<1>1. Init => CleanInv
  <2> SUFFICES ASSUME Init PROVE ~On("target") /\ pc \notin {"done", "gone"}
    BY DEF CleanInv, MountedOnDir, UnpublishedIsClean
  <2>1. table \in Seq(Entry) /\ Len(table) = 0
    BY DEF Init
  <2>2. ~On("target")
    BY <2>1, OnIsHas DEF Has
  <2> QED
    BY <2>2 DEF Init
<1> QED
  BY <1>1, CleanStep, TypeCorrect, PTL DEF Spec

\* After NodeUnpublishVolume has succeeded the target is unmounted and removed, for any
\* stack of mounts, any number of clients, failing calls and racing recoveries.
THEOREM UnpublishedStaysClean == Spec => []UnpublishedIsClean
<1>1. CleanInv => UnpublishedIsClean
  BY DEF CleanInv
<1> QED
  BY <1>1, CleanInvariant, PTL

-----------------------------------------------------------------------------
(* What is published.                                                      *)

\* umount of a path leaves the mounts of other paths.
LEMMA RemoveLeavesOthers ==
  ASSUME NEW s \in Seq(Entry), NEW i \in 1..Len(s), NEW p, s[i].at # p, Has(s, p)
  PROVE  Has(RemoveAt(s, i), p)
<1> DEFINE r == RemoveAt(s, i)
<1>0. Len(s) \in Nat
  OBVIOUS
<1>1. /\ r \in Seq(Entry) /\ Len(r) = Len(s) - 1
      /\ \A k \in 1..(Len(s) - 1) : r[k] = IF k < i THEN s[k] ELSE s[k + 1]
  BY RemoveAtProperties, Zenon
<1> HIDE DEF r
<1>2. PICK j \in 1..Len(s) : s[j].at = p
  BY DEF Has
<1>3. CASE j < i
  <2>1. j \in 1..Len(r) /\ r[j] = s[j]
    BY <1>0, <1>1, <1>3
  <2> QED
    BY <1>2, <2>1 DEF Has, r
<1>4. CASE j > i
  <2>1. j - 1 \in 1..Len(r) /\ r[j - 1] = s[j]
    BY <1>0, <1>1, <1>4
  <2> QED
    BY <1>2, <2>1 DEF Has, r
<1> QED
  BY <1>0, <1>2, <1>3, <1>4

\* mount leaves every mount there is.
LEMMA AppendLeaves ==
  ASSUME NEW s \in Seq(Entry), NEW e \in Entry, NEW p, Has(s, p)
  PROVE  Has(Append(s, e), p)
<1> DEFINE r == Append(s, e)
<1>1. Len(r) = Len(s) + 1 /\ Len(s) \in Nat /\ \A k \in 1..Len(s) : r[k] = s[k]
  BY AppendProperties
<1> HIDE DEF r
<1>2. \A k \in 1..Len(s) : k \in 1..Len(r)
  BY <1>1
<1> QED
  BY <1>1, <1>2 DEF Has, r

\* The mount path and the other mounts of the node come and go beside the target.
LEMMA OthersLeaveTarget ==
  ASSUME TypeOK, On("target"), RecoverBind \/ podDeletedHandler \/ ClientStarts \/ OtherMount, TypeOK'
  PROVE  On("target")'
<1>1. /\ table \in Seq(Entry) /\ table' \in Seq(Entry) /\ Has(table, "target")
      /\ client \in 0..MaxClients /\ started \in 0..MaxClients
  BY BoundsAssumption, OnIsHas DEF TypeOK
<1>2. ASSUME NEW p, p # "target", On(p) PROVE Has(RemoveAt(table, Find(p)), "target")
                                              /\ RemoveAt(table, Find(p)) \in Seq(Entry)
  <2>1. Find(p) = PlaceIn(table, p)
    BY DEF Find, PlaceIn, SelectLastInSeq
  <2>2. Find(p) \in 1..Len(table) /\ table[Find(p)].at = p
    BY <1>1, <1>2, <2>1, PlaceIsLast DEF On
  <2>3. OneMountPath(table)
    BY TypeParts
  <2> QED
    BY <1>1, <1>2, <2>2, <2>3, RemoveLeavesOthers, RemoveKeeps
<1>3. ASSUME NEW p \in {"target", "other"}, NEW m \in 0..MaxClients, Add(p, m)
      PROVE  Has(table', "target")
  <2>1. [at |-> p, minor |-> m] \in Entry
    BY DEF Entry
  <2> QED
    BY <1>1, <1>3, <2>1, AppendLeaves DEF Add
<1>4. CASE RecoverBind
  <2>1. UNCHANGED table \/ \E m \in SourceMinor : Add("target", m)
    BY <1>4 DEF RecoverBind
  <2>2. SourceMinor \subseteq 0..MaxClients
    BY <1>1, BoundsAssumption DEF SourceMinor
  <2> QED
    BY <1>1, <1>3, <2>1, <2>2, OnIsHas
<1>5. CASE OtherMount
  <2>1. CASE On("other")
    <3>1. table' = RemoveAt(table, Find("other"))
      BY <1>5, <2>1 DEF OtherMount, Pop
    <3> QED
      BY <1>1, <1>2, <2>1, <3>1, OnIsHas
  <2>2. CASE ~On("other")
    <3>1. Add("other", 0) /\ 0 \in 0..MaxClients
      BY <1>5, <2>2, BoundsAssumption DEF OtherMount
    <3> QED
      BY <1>1, <1>3, <3>1, OnIsHas
  <2> QED
    BY <2>1, <2>2
<1>6. CASE ClientStarts
  <2> DEFINE e == [at |-> "mountPath", minor |-> started + 1]
  <2>1. table' = Append(table, e)
    BY <1>6 DEF ClientStarts, Add
  <2>2. e \in Entry
    BY <1>1, <1>6, BoundsAssumption DEF ClientStarts, Entry
  <2> HIDE DEF e
  <2> QED
    BY <1>1, <2>1, <2>2, AppendLeaves, OnIsHas
<1>7. CASE podDeletedHandler
  <2>1. On("mountPath") /\ table' = RemoveAt(table, Find("mountPath"))
    BY <1>7 DEF podDeletedHandler, Pop
  <2> QED
    BY <1>1, <1>2, <2>1, OnIsHas
<1> QED
  BY <1>4, <1>5, <1>6, <1>7

\* Every step keeps what is published mounted.
LEMMA PublishedStep ==
  TypeOK /\ TypeOK' /\ CleanInv /\ PublishedIsMounted /\ [Next]_vars => PublishedIsMounted'
<1> SUFFICES ASSUME TypeOK, TypeOK', CleanInv, PublishedIsMounted, [Next]_vars
             PROVE  PublishedIsMounted'
  OBVIOUS
<1>1. (On("target") => dir) /\ (pc = "published" => dir /\ On("target"))
  BY DEF CleanInv, MountedOnDir, PublishedIsMounted
<1>2. ASSUME UNCHANGED table PROVE On("target")' <=> On("target")
  BY <1>2, OnIsHas DEF TypeOK
<1> SUFFICES pc' = "published" => dir' /\ On("target")'
  BY DEF PublishedIsMounted
<1>3. CASE Mount
  <2>1. CASE dir /\ Serves("mountPath")
    <3>1. table' = Append(table, [at |-> "target", minor |-> client]) /\ UNCHANGED dir
      BY <1>3, <2>1 DEF Mount, Add
    <3>2. table \in Seq(Entry) /\ [at |-> "target", minor |-> client] \in Entry
      BY BoundsAssumption DEF TypeOK, Entry
    <3>3. /\ Len(table') = Len(table) + 1 /\ Len(table) \in Nat
          /\ table'[Len(table) + 1] = [at |-> "target", minor |-> client]
      BY <3>1, <3>2, AppendProperties
    <3>4. Has(table', "target")
      BY <3>3 DEF Has
    <3>5. On("target")'
      BY <3>4, OnIsHas DEF TypeOK
    <3> QED
      BY <1>1, <1>3, <2>1, <3>1, <3>5 DEF Mount
  <2>2. CASE ~(dir /\ Serves("mountPath"))
    BY <1>3, <2>2 DEF Mount
  <2> QED
    BY <2>1, <2>2
<1>4. CASE checkBindAndMount
  <2>1. On("target")' <=> On("target")
    BY <1>2, <1>4 DEF checkBindAndMount
  <2>2. pc' = "published" => On("target")
    BY <1>4 DEF checkBindAndMount
  <2> QED
    BY <1>1, <1>4, <2>1, <2>2 DEF checkBindAndMount
<1>5. CASE RecoverBind \/ podDeletedHandler \/ ClientStarts \/ OtherMount
  <2>1. On("target") => On("target")'
    BY <1>5, OthersLeaveTarget
  <2> QED
    BY <1>1, <1>5, <2>1 DEF RecoverBind, podDeletedHandler, ClientStarts, OtherMount
<1>6. CASE podReadyHandler \/ RecoverFallback \/ RecoverStat \/ ClientDies \/ UNCHANGED vars
  <2>1. On("target")' <=> On("target")
    BY <1>2, <1>6 DEF podReadyHandler, RecoverFallback, RecoverStat, ClientDies, vars
  <2> QED
    BY <1>1, <1>6, <2>1 DEF podReadyHandler, RecoverFallback, RecoverStat, ClientDies, vars
<1>7. CASE NodePublishVolume \/ CreateTarget \/ JfsMount \/ UmountPath \/ PublishFails
  BY <1>1, <1>7 DEF NodePublishVolume, CreateTarget, JfsMount, UmountPath, PublishFails
<1>8. CASE \/ NodeUnpublishVolume \/ UmountLoop \/ CleanupMountPoint \/ RemoveTarget
           \/ JUmount \/ UnpublishFails
  BY <1>1, <1>8 DEF NodeUnpublishVolume, UmountLoop, CleanupMountPoint, RemoveTarget,
                    JUmount, UnpublishFails
<1> QED
  BY <1>3, <1>4, <1>5, <1>6, <1>7, <1>8 DEF Next, Publish, Unpublish, Recover

\* A published target has something mounted on its directory, whatever clients,
\* recoveries and other mounts of the node come and go.
THEOREM PublishedStaysMounted == Spec => []PublishedIsMounted
<1>1. Init => PublishedIsMounted
  BY DEF Init, PublishedIsMounted
<1> QED
  BY <1>1, CleanInvariant, PublishedStep, TypeCorrect, PTL DEF Spec

=============================================================================
