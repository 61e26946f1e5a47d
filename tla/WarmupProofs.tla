---------------------------- MODULE WarmupProofs ----------------------------
(***************************************************************************)
(* What Warmup promises holds for any managers, pods, nodes and bounds:    *)
(* the version of the object is what protects its status from runs of      *)
(* Reconcile that have been overtaken.                                     *)
(***************************************************************************)
EXTENDS Warmup, TLAPS

\* The loop over the volumes of a pod, which ends at the first that is no claim, finds the
\* claim in exactly the pods that have it before any other kind of volume.
LEMMA SearchFinds ==
  ASSUME NEW p \in Pods
  PROVE  Reached(p) <=> \E i \in DOMAIN Volumes[p] :
                          Volumes[p][i] = "claim" /\ \A j \in 1..i : Volumes[p][j] # "other"
<1> DEFINE vols == Volumes[p]
<1>1. vols \in Seq({"claim", "otherClaim", "other"})
  BY PodsAssumption
<1> HIDE DEF vols
<1>2. ASSUME NEW i \in DOMAIN vols
      PROVE  (\A j \in DOMAIN vols : vols[j] = "other" => i < j) <=> (\A j \in 1..i : vols[j] # "other")
  BY <1>1
<1>3. (\E i \in DOMAIN vols : vols[i] = "claim" /\ \A j \in DOMAIN vols : vols[j] = "other" => i < j)
      <=> (\E i \in DOMAIN vols : vols[i] = "claim" /\ \A j \in 1..i : vols[j] # "other")
  BY <1>2, Zenon
<1> QED  BY <1>3, Zenon DEF Reached, vols

\* The search through the pods finds the nodes it should, and they are nodes.
LEMMA NodesFound ==
  ASSUME NEW m, podInf[m] \subseteq Pods
  PROVE  fromPVCGetUsedPodsNodeName(m) \subseteq Nodes /\ UsedOn(m) = fromPVCGetUsedPodsNodeName(m)
<1>1. UsedOn(m) \subseteq Nodes
  BY PodsAssumption DEF UsedOn
<1>2. {q \in podInf[m] : Reached(q)} =
        {q \in podInf[m] : \E i \in DOMAIN Volumes[q] :
           Volumes[q][i] = "claim" /\ \A j \in 1..i : Volumes[q][j] # "other"}
  BY SearchFinds, Zenon
<1> QED  BY <1>1, <1>2, Zenon DEF UsedOn, fromPVCGetUsedPodsNodeName

\* A changed object has the next version, and is otherwise the same.
LEMMA ChangedFields ==
  ASSUME NEW o \in Object
  PROVE  /\ Changed(o) \in Object /\ Changed(o).version = o.version + 1
         /\ Changed(o).cached = o.cached /\ Changed(o).path = o.path
<1>1. o.version + 1 \in Nat
  BY DEF Object
<1>2. Changed(o) \in Object /\ Changed(o).version = o.version + 1
  BY <1>1 DEF Object, Changed
<1>3. Changed(o).cached = o.cached /\ Changed(o).path = o.path
  BY DEF Object, Changed
<1> QED  BY <1>2, <1>3

\* Setting the result of a run leaves the rest of the object.
LEMMA CachedField ==
  ASSUME NEW o \in Object, NEW b \in BOOLEAN
  PROVE  LET new == [o EXCEPT !.cached = b]
         IN new \in Object /\ new.version = o.version /\ new.path = o.path /\ new.cached = b
<1>1. [o EXCEPT !.cached = b] \in Object
  BY DEF Object
<1>2. /\ [o EXCEPT !.cached = b].version = o.version /\ [o EXCEPT !.cached = b].path = o.path
      /\ [o EXCEPT !.cached = b].cached = b
  BY DEF Object
<1> QED  BY <1>1, <1>2

\* So does a message.
LEMMA MessageField ==
  ASSUME NEW o \in Object
  PROVE  LET new == [o EXCEPT !.message = TRUE]
         IN new \in Object /\ new.version = o.version /\ new.path = o.path /\ new.cached = o.cached
<1>1. [o EXCEPT !.message = TRUE] \in Object
  BY DEF Object
<1>2. /\ [o EXCEPT !.message = TRUE].version = o.version /\ [o EXCEPT !.message = TRUE].path = o.path
      /\ [o EXCEPT !.message = TRUE].cached = o.cached
  BY DEF Object
<1> QED  BY <1>1, <1>2

\* What a user or the API server changes leaves the result.
LEMMA EditedField ==
  ASSUME NEW o \in Object
  PROVE  /\ LET new == [o EXCEPT !.deleting = TRUE]
            IN new \in Object /\ new.version = o.version /\ new.cached = o.cached
         /\ LET new == [o EXCEPT !.exists = FALSE]
            IN new \in Object /\ new.version = o.version /\ new.cached = o.cached
         /\ \A x \in Paths : LET new == [o EXCEPT !.path = x]
                             IN new \in Object /\ new.version = o.version /\ new.cached = o.cached
<1>1. [o EXCEPT !.deleting = TRUE] \in Object
  BY DEF Object
<1>2. /\ [o EXCEPT !.deleting = TRUE].version = o.version
      /\ [o EXCEPT !.deleting = TRUE].cached = o.cached
  BY DEF Object
<1>3. [o EXCEPT !.exists = FALSE] \in Object
  BY DEF Object
<1>4. /\ [o EXCEPT !.exists = FALSE].version = o.version
      /\ [o EXCEPT !.exists = FALSE].cached = o.cached
  BY DEF Object
<1>5. ASSUME NEW x \in Paths PROVE [o EXCEPT !.path = x] \in Object
  BY DEF Object
<1>6. ASSUME NEW x \in Paths
      PROVE  [o EXCEPT !.path = x].version = o.version /\ [o EXCEPT !.path = x].cached = o.cached
  BY DEF Object
<1> QED  BY <1>1, <1>2, <1>3, <1>4, <1>5, <1>6

\* How a step changes the object: not at all, or to a new version; and only the end of a run
\* of Reconcile, on the version of the object, makes it cached or takes that back while it is
\* there.
LEMMA ObjectStep ==
  ASSUME obj \in Object, [Next]_vars
  PROVE  /\ obj' \in Object
         /\ obj' = obj \/ obj'.version = obj.version + 1
         /\ \/ obj'.cached = obj.cached
            \/ ~obj.exists /\ ~obj'.cached
            \/ \E m \in Managers : warmUpAll(m) /\ Updatable(m) /\ obj'.cached = ~h[m].failed
                                   /\ obj'.path = obj.path
<1> DEFINE Goal ==
      /\ obj' \in Object
      /\ obj' = obj \/ obj'.version = obj.version + 1
      /\ \/ obj'.cached = obj.cached
         \/ ~obj.exists /\ ~obj'.cached
         \/ \E m \in Managers : warmUpAll(m) /\ Updatable(m) /\ obj'.cached = ~h[m].failed
                                /\ obj'.path = obj.path
<1>1. ASSUME NEW m \in Managers, warmUpAll(m) PROVE Goal
  <2> DEFINE new == Status(h[m].failed)
  <2>1. CASE obj' = obj
    BY <2>1
  <2>2. CASE obj' # obj
    <3>1. Updatable(m) /\ obj' = Changed(new)
      BY <1>1, <2>2 DEF warmUpAll
    <3>2. CASE h[m].failed = TRUE
      <4>1. new = Failure
        BY <3>2 DEF Status
      <4> DEFINE uncached == [obj EXCEPT !.cached = FALSE]
      <4>2. uncached \in Object /\ uncached.version = obj.version /\ uncached.path = obj.path
            /\ uncached.cached = FALSE
        BY CachedField
      <4>3. new = [uncached EXCEPT !.message = TRUE]
        BY <4>1 DEF Failure
      <4> HIDE DEF uncached, new
      <4>4. new \in Object /\ new.version = obj.version /\ new.cached = FALSE
        BY <4>2, <4>3, MessageField
      <4>5. new.path = obj.path
        BY <4>2, <4>3, MessageField
      <4>6. obj' \in Object /\ obj'.version = obj.version + 1 /\ obj'.cached = FALSE
            /\ obj'.path = obj.path
        BY <3>1, <4>4, <4>5, ChangedFields
      <4> QED  BY <1>1, <3>1, <3>2, <4>6
    <3>3. CASE ~h[m].failed
      <4>1. new = [obj EXCEPT !.cached = TRUE]
        BY <3>3 DEF Status
      <4> HIDE DEF new
      <4>2. new \in Object /\ new.version = obj.version /\ new.path = obj.path /\ new.cached = TRUE
        BY <4>1, CachedField
      <4>3. obj' \in Object /\ obj'.version = obj.version + 1 /\ obj'.cached = TRUE
            /\ obj'.path = obj.path
        BY <3>1, <4>2, ChangedFields
      <4> QED  BY <1>1, <3>1, <3>3, <4>3
    <3> QED  BY <3>2, <3>3
  <2> QED  BY <2>1, <2>2
<1>2. CASE Edit
  <2>1. PICK path \in Paths :
          \/ ~obj.exists /\ obj' = [exists |-> TRUE, deleting |-> FALSE, cached |-> FALSE,
                                    message |-> FALSE, path |-> path, version |-> obj.version + 1]
          \/ obj' = Changed([obj EXCEPT !.path = path])
          \/ obj' = Changed([obj EXCEPT !.deleting = TRUE])
    BY <1>2 DEF Edit
  <2>2. CASE ~obj.exists /\ obj' = [exists |-> TRUE, deleting |-> FALSE, cached |-> FALSE,
                                    message |-> FALSE, path |-> path, version |-> obj.version + 1]
    <3>1. obj' \in Object /\ obj'.version = obj.version + 1 /\ obj'.cached = FALSE
      BY <2>2 DEF Object
    <3> QED  BY <2>2, <3>1
  <2>3. CASE obj' = Changed([obj EXCEPT !.path = path])
    <3> DEFINE new == [obj EXCEPT !.path = path]
    <3>1. new \in Object /\ new.version = obj.version /\ new.cached = obj.cached
      BY EditedField
    <3> HIDE DEF new
    <3>2. obj' \in Object /\ obj'.version = obj.version + 1 /\ obj'.cached = obj.cached
      BY <2>3, <3>1, ChangedFields DEF new
    <3> QED  BY <3>2
  <2>4. CASE obj' = Changed([obj EXCEPT !.deleting = TRUE])
    <3> DEFINE new == [obj EXCEPT !.deleting = TRUE]
    <3>1. new \in Object /\ new.version = obj.version /\ new.cached = obj.cached
      BY EditedField
    <3> HIDE DEF new
    <3>2. obj' \in Object /\ obj'.version = obj.version + 1 /\ obj'.cached = obj.cached
      BY <2>4, <3>1, ChangedFields DEF new
    <3> QED  BY <3>2
  <2> QED  BY <2>1, <2>2, <2>3, <2>4
<1>3. CASE RemoveObject
  <2> DEFINE new == [obj EXCEPT !.exists = FALSE]
  <2>1. new \in Object /\ new.version = obj.version /\ new.cached = obj.cached
    BY EditedField
  <2>2. obj' = Changed(new)
    BY <1>3 DEF RemoveObject
  <2> HIDE DEF new
  <2>3. obj' \in Object /\ obj'.version = obj.version + 1 /\ obj'.cached = obj.cached
    BY <2>1, <2>2, ChangedFields
  <2> QED  BY <2>3
<1>4. CASE obj' = obj
  BY <1>4
<1>5. (\E m \in Managers : warmUpAll(m)) \/ Edit \/ RemoveObject \/ obj' = obj
  BY DEF Next, Work, vars, Reconcile, ListPods, warmUp, Watches, Deliver,
         DeliverPods, Elect, Stop, Bind, Place, Quiet
<1> QED  BY <1>1, <1>2, <1>3, <1>4, <1>5

\* No step takes a variable out of its type.
LEMMA TypeStep == TypeOK /\ [Next]_vars => TypeOK'
<1> SUFFICES ASSUME TypeOK, [Next]_vars PROVE TypeOK'
  OBVIOUS
<1> USE BoundsAssumption DEF TypeOK, clusterVars
<1>0. obj' \in Object
  BY ObjectStep
<1>i. Idle \in Handlers
  BY DEF Handlers
<1>f. Fault => faults' \in 0..MaxFaults
  BY DEF Fault
<1>1. ASSUME NEW m \in Managers, Reconcile(m) PROVE TypeOK'
  <2>1. [pc |-> "list", cache |-> inf[m]] \in Handlers
    BY DEF Handlers
  <2>2. h' = h \/ h' = [h EXCEPT ![m] = [pc |-> "list", cache |-> inf[m]]]
    BY <1>1 DEF Reconcile, Goto
  <2>3. h' \in [Managers -> Handlers]
    BY <2>1, <2>2
  <2>4. queued' = queued \/ queued' = [queued EXCEPT ![m] = FALSE]
    BY <1>1 DEF Reconcile
  <2>5. queued' \in [Managers -> BOOLEAN]
    BY <2>4
  <2>6. faults' = faults \/ Fault
    BY <1>1 DEF Reconcile
  <2> QED  BY <1>0, <1>1, <1>f, <2>3, <2>5, <2>6 DEF Reconcile
<1>2. ASSUME NEW m \in Managers, ListPods(m) PROVE TypeOK'
  <2> DEFINE found == fromPVCGetUsedPodsNodeName(m)
             run == [pc |-> "warm", cache |-> h[m].cache, nodes |-> found, users |-> UsedOn(m),
                     failed |-> FALSE]
  <2>0. podInf[m] \subseteq Pods
    OBVIOUS
  <2>1. found \subseteq Nodes /\ UsedOn(m) \subseteq Nodes
    BY <2>0, NodesFound
  <2>2. h[m].cache \in Object
    BY <1>2 DEF ListPods, Handlers, Idle
  <2> HIDE DEF found
  <2>3. run \in Handlers
    BY <2>1, <2>2 DEF Handlers
  <2>4. h' = [h EXCEPT ![m] = run] \/ h' = [h EXCEPT ![m] = Idle]
    BY <1>2 DEF ListPods, Goto, Retry, found
  <2> HIDE DEF run
  <2>5. h' \in [Managers -> Handlers]
    BY <1>i, <2>3, <2>4
  <2>6. queued' = queued \/ queued' = [queued EXCEPT ![m] = TRUE]
    BY <1>2 DEF ListPods, Retry
  <2>7. queued' \in [Managers -> BOOLEAN]
    BY <2>6
  <2>8. faults' = faults \/ Fault
    BY <1>2 DEF ListPods
  <2> QED  BY <1>0, <1>2, <1>f, <2>5, <2>7, <2>8 DEF ListPods
<1>3. ASSUME NEW m \in Managers, warmUp(m) PROVE TypeOK'
  <2>1. h[m] \in [pc : {"warm"}, cache : Object, nodes : SUBSET Nodes, users : SUBSET Nodes,
                  failed : BOOLEAN]
    BY <1>3 DEF warmUp, Handlers, Idle
  <2>2. h[m].cache.path \in Paths /\ h[m].nodes \subseteq Nodes
    BY <2>1 DEF Object
  <2>3. ASSUME NEW n PROVE [h[m] EXCEPT !.nodes = @ \ {n}] \in Handlers
    BY <2>1 DEF Handlers
  <2>4. [h[m] EXCEPT !.failed = TRUE] \in Handlers
    BY <2>1 DEF Handlers
  <2>5. PICK n \in h[m].nodes :
          \/ /\ UNCHANGED faults /\ warm' = [warm EXCEPT ![n] = @ \cup {h[m].cache.path}]
             /\ h' = [h EXCEPT ![m] = [h[m] EXCEPT !.nodes = @ \ {n}]]
          \/ Fault /\ h' = [h EXCEPT ![m] = [h[m] EXCEPT !.failed = TRUE]] /\ UNCHANGED warm
    BY <1>3 DEF warmUp, Goto
  <2>6. h' \in [Managers -> Handlers]
    <3> DEFINE less == [h[m] EXCEPT !.nodes = @ \ {n}]
               failing == [h[m] EXCEPT !.failed = TRUE]
    <3>1. less \in Handlers /\ failing \in Handlers
      BY <2>3, <2>4
    <3>2. h' = [h EXCEPT ![m] = less] \/ h' = [h EXCEPT ![m] = failing]
      BY <2>5
    <3> HIDE DEF less, failing
    <3> QED  BY <3>1, <3>2
  <2>7. warm' \in [Nodes -> SUBSET Paths]
    BY <2>2, <2>5
  <2>8. faults' \in 0..MaxFaults
    BY <2>5 DEF Fault
  <2> QED  BY <1>0, <1>3, <2>6, <2>7, <2>8 DEF warmUp
<1>4. ASSUME NEW m \in Managers, warmUpAll(m) PROVE TypeOK'
  <2>1. h' \in [Managers -> Handlers] /\ queued' \in [Managers -> BOOLEAN]
    BY <1>4, <1>i DEF warmUpAll, Result, Retry, Done, Goto
  <2>2. faults' \in 0..MaxFaults
    BY <1>4 DEF warmUpAll, Fault
  <2> QED  BY <1>0, <1>4, <2>1, <2>2 DEF warmUpAll
<1>5. ASSUME NEW m \in Managers, Watches(m) \/ Elect(m) \/ Stop(m) PROVE TypeOK'
  <2>1. CASE Deliver(m)
    BY <1>0, <2>1 DEF Deliver
  <2>2. CASE Elect(m)
    BY <2>2 DEF Elect
  <2>3. CASE Stop(m)
    BY <1>i, <2>3 DEF Stop, Goto
  <2>4. CASE DeliverPods(m)
    BY <2>4 DEF DeliverPods
  <2> QED  BY <1>5, <2>1, <2>2, <2>3, <2>4 DEF Watches
<1>6. CASE Edit
  BY <1>0, <1>6 DEF Edit
<1>7. CASE RemoveObject
  BY <1>0, <1>7 DEF RemoveObject
<1>8. CASE Bind
  BY <1>8 DEF Bind
<1>9. ASSUME NEW p \in Pods, Place(p) PROVE TypeOK'
  BY <1>9 DEF Place
<1>10. CASE Quiet \/ UNCHANGED vars
  BY <1>10 DEF Quiet, vars
<1> QED  BY <1>1, <1>2, <1>3, <1>4, <1>5, <1>6, <1>7, <1>8, <1>9, <1>10 DEF Next, Work

\* A copy stays as old as its version says.
LEMMA CopyStep ==
  ASSUME obj \in Object, [Next]_vars, NEW c \in Object, Current(c)
  PROVE  c.version < obj'.version \/ c = obj'
<1>1. obj' = obj \/ obj'.version = obj.version + 1
  BY ObjectStep
<1>2. c.version \in Nat /\ obj.version \in Nat
  BY DEF Object
<1>3. CASE obj' = obj
  BY <1>3 DEF Current
<1>4. CASE obj'.version = obj.version + 1
  <2>1. c.version <= obj.version
    BY <1>2 DEF Current
  <2> QED  BY <1>2, <1>4, <2>1
<1> QED  BY <1>1, <1>3, <1>4

\* The part of CopiesInv that is about what has been loaded.
Loaded(m) ==
  h[m].pc = "warm" =>
    \A n \in h[m].users : n \in h[m].nodes \/ h[m].cache.path \in warm[n]

\* No step breaks CopiesInv.
LEMMA CopiesStep == TypeOK /\ CopiesInv /\ [Next]_vars => CopiesInv'
<1> SUFFICES ASSUME TypeOK, CopiesInv, [Next]_vars, NEW k \in Managers
             PROVE  /\ inf'[k].version < obj'.version \/ inf'[k] = obj'
                    /\ h'[k] # Idle =>
                         /\ h'[k].cache.version < obj'.version \/ h'[k].cache = obj'
                         /\ ~h'[k].cache.cached
                    /\ Loaded(k)'
  BY DEF CopiesInv, Current, Loaded
<1>k. /\ Current(inf[k]) /\ inf[k] \in Object /\ h[k] \in Handlers
      /\ h[k] # Idle => Current(h[k].cache) /\ ~h[k].cache.cached
      /\ Loaded(k)
  BY DEF CopiesInv, TypeOK, Loaded
<1>c. h[k] # Idle => h[k].cache \in Object
  BY <1>k DEF Handlers
<1>o. obj \in Object /\ obj' \in Object
  BY ObjectStep DEF TypeOK
<1>1. inf'[k].version < obj'.version \/ inf'[k] = obj'
  <2>1. CASE inf'[k] = inf[k]
    BY <1>k, <1>o, <2>1, CopyStep
  <2>2. CASE inf'[k] = obj'
    BY <2>2
  <2>3. inf'[k] = inf[k] \/ inf'[k] = obj'
    BY DEF TypeOK, Next, Work, vars, Reconcile, ListPods, warmUp, warmUpAll, Watches, Deliver,
       DeliverPods, Elect, Stop, Edit, RemoveObject, Bind, Place, Quiet
  <2> QED  BY <2>1, <2>2, <2>3
<1>2. ASSUME h'[k] # Idle => h[k] # Idle /\ h'[k].cache = h[k].cache
      PROVE  h'[k] # Idle => /\ h'[k].cache.version < obj'.version \/ h'[k].cache = obj'
                             /\ ~h'[k].cache.cached
  BY <1>2, <1>k, <1>c, <1>o, CopyStep
<1> DEFINE Goal == /\ h'[k] # Idle => /\ h'[k].cache.version < obj'.version \/ h'[k].cache = obj'
                                      /\ ~h'[k].cache.cached
                   /\ Loaded(k)'
<1>3. ASSUME h'[k] = h[k], \A n \in Nodes : warm[n] \subseteq warm'[n] PROVE Goal
  <2>1. h[k].pc = "warm" => h[k].users \subseteq Nodes
    BY <1>k DEF Handlers, Idle
  <2>2. Loaded(k)'
    BY <1>3, <1>k, <2>1 DEF Loaded
  <2> QED  BY <1>2, <1>3, <2>2
<1>4. ASSUME h'[k] = Idle PROVE Goal
  BY <1>4 DEF Loaded, Idle
<1>5. ASSUME NEW m \in Managers, Reconcile(m) PROVE Goal
  <2>1. CASE h'[k] = h[k]
    BY <1>3, <1>5, <2>1 DEF Reconcile
  <2>2. CASE h'[k] # h[k]
    <3>1. k = m /\ ~NothingToDo(m) /\ h'[k] = [pc |-> "list", cache |-> inf[k]]
      BY <1>5, <2>2 DEF Reconcile, Goto, TypeOK
    <3>2. h'[k].cache = inf[k] /\ h'[k].pc = "list" /\ ~inf[k].cached
      BY <3>1 DEF NothingToDo
    <3>3. inf[k].version < obj'.version \/ inf[k] = obj'
      BY <1>k, <1>o, CopyStep
    <3> QED  BY <3>2, <3>3 DEF Loaded
  <2> QED  BY <2>1, <2>2
<1>6. ASSUME NEW m \in Managers, ListPods(m) PROVE Goal
  <2>1. CASE h'[k] = h[k]
    BY <1>3, <1>6, <2>1 DEF ListPods
  <2>2. CASE h'[k] = Idle
    BY <1>4, <2>2
  <2>3. CASE h'[k] # h[k] /\ h'[k] # Idle
    <3> DEFINE found == fromPVCGetUsedPodsNodeName(m)
    <3>1. k = m /\ h[k].pc = "list" /\ h'[k] = [pc |-> "warm", cache |-> h[k].cache,
             nodes |-> found, users |-> UsedOn(m), failed |-> FALSE]
      BY <1>6, <2>3 DEF ListPods, Goto, Retry, TypeOK
    <3>2. UsedOn(m) = found
      <4>1. podInf[m] \subseteq Pods
        BY DEF TypeOK
      <4> QED  BY <4>1, NodesFound
    <3>3. h[k] # Idle /\ h'[k].cache = h[k].cache /\ h'[k].users = UsedOn(m) /\ h'[k].nodes = found
      BY <3>1 DEF Idle
    <3> HIDE DEF found
    <3>4. Loaded(k)'
      BY <3>2, <3>3 DEF Loaded
    <3> QED  BY <1>2, <3>3, <3>4
  <2> QED  BY <2>1, <2>2, <2>3
<1>7. ASSUME NEW m \in Managers, warmUp(m) PROVE Goal
  <2>1. h[m] \in [pc : {"warm"}, cache : Object, nodes : SUBSET Nodes, users : SUBSET Nodes,
                  failed : BOOLEAN]
    BY <1>7 DEF warmUp, Handlers, Idle, TypeOK
  <2>2. PICK n \in h[m].nodes :
          \/ /\ warm' = [warm EXCEPT ![n] = @ \cup {h[m].cache.path}]
             /\ h' = [h EXCEPT ![m] = [h[m] EXCEPT !.nodes = @ \ {n}]]
          \/ h' = [h EXCEPT ![m] = [h[m] EXCEPT !.failed = TRUE]] /\ UNCHANGED warm
    BY <1>7 DEF warmUp, Goto
  <2>3. \A j \in Nodes : warm[j] \subseteq warm'[j]
    BY <2>1, <2>2 DEF TypeOK
  <2>4. CASE k # m
    <3>1. h'[k] = h[k]
      BY <2>2, <2>4 DEF TypeOK
    <3> QED  BY <1>3, <2>3, <3>1
  <2>5. CASE k = m /\ h' = [h EXCEPT ![m] = [h[m] EXCEPT !.failed = TRUE]] /\ UNCHANGED warm
    <3>1. h'[k] = [h[k] EXCEPT !.failed = TRUE]
      BY <2>5 DEF TypeOK
    <3>2. /\ h'[k].pc = h[k].pc /\ h'[k].cache = h[k].cache
          /\ h'[k].users = h[k].users /\ h'[k].nodes = h[k].nodes
      BY <2>1, <2>5, <3>1
    <3>3. h[k] # Idle
      BY <1>7, <2>5 DEF warmUp, Idle
    <3>4. Loaded(k)'
      BY <1>k, <2>5, <3>2 DEF Loaded
    <3> QED  BY <1>2, <3>2, <3>3, <3>4
  <2>6. CASE /\ k = m /\ warm' = [warm EXCEPT ![n] = @ \cup {h[m].cache.path}]
             /\ h' = [h EXCEPT ![m] = [h[m] EXCEPT !.nodes = @ \ {n}]]
    <3>1. h'[k] = [h[k] EXCEPT !.nodes = @ \ {n}]
      BY <2>6 DEF TypeOK
    <3>2. /\ h'[k].pc = h[k].pc /\ h'[k].cache = h[k].cache
          /\ h'[k].users = h[k].users /\ h'[k].nodes = h[k].nodes \ {n}
      BY <2>1, <2>6, <3>1
    <3>3. h[k] # Idle
      BY <1>7, <2>6 DEF warmUp, Idle
    <3>4. n \in Nodes /\ h[k].users \subseteq Nodes
      BY <2>1, <2>2, <2>6
    <3>5. h[k].cache.path \in warm'[n]
      BY <2>6, <3>4 DEF TypeOK
    <3>6. Loaded(k)'
      BY <1>k, <2>3, <3>2, <3>4, <3>5 DEF Loaded
    <3> QED  BY <1>2, <3>2, <3>3, <3>6
  <2> QED  BY <2>2, <2>4, <2>5, <2>6
<1>8. ASSUME NEW m \in Managers, warmUpAll(m) \/ Stop(m) PROVE Goal
  <2>1. (h'[k] = h[k] \/ h'[k] = Idle) /\ warm' = warm
    BY <1>8 DEF warmUpAll, Stop, Result, Retry, Done, Goto, TypeOK
  <2> QED  BY <1>3, <1>4, <2>1
<1>9. ASSUME h' = h /\ warm' = warm PROVE Goal
  BY <1>3, <1>9
<1>10. \/ \E m \in Managers : Reconcile(m) \/ ListPods(m) \/ warmUp(m) \/ warmUpAll(m) \/ Stop(m)
       \/ h' = h /\ warm' = warm
  BY DEF Next, Work, vars, Watches, Deliver, DeliverPods, Elect, Edit, RemoveObject, Bind, Place,
     Quiet
<1>11. Goal
  BY <1>5, <1>6, <1>7, <1>8, <1>9, <1>10
<1> QED  BY <1>1, <1>11

\* TypeOK and CopiesInv hold in every reachable state: the version of a copy of the object
\* tells whether the copy is out of date.
THEOREM CopiesInvariant == Spec => [](TypeOK /\ CopiesInv)
<1>1. ASSUME Init PROVE TypeOK /\ CopiesInv
  <2>0. (CHOOSE path \in Paths : TRUE) \in Paths
    BY SomeAssumption
  <2>1. obj \in Object
    BY <1>1, <2>0 DEF Init, Object
  <2>i. Idle \in Handlers
    BY DEF Handlers
  <2>q. queued \in [Managers -> BOOLEAN]
    BY <1>1 DEF Init
  <2>h. h \in [Managers -> Handlers] /\ inf \in [Managers -> Object] /\ warm \in [Nodes -> SUBSET Paths]
    BY <1>1, <2>1, <2>i DEF Init
  <2>l. leader \in Managers
    BY <1>1, SomeAssumption DEF Init
  <2>b. edits \in 0..MaxEdits /\ faults \in 0..MaxFaults /\ elections \in 0..MaxElections
    BY <1>1, BoundsAssumption DEF Init
  <2>p. /\ claim \in {"pending", "bound", "noClass"}
        /\ pods \subseteq Pods /\ podInf \in [Managers -> SUBSET pods]
    BY <1>1 DEF Init
  <2>2. TypeOK
    BY <2>1, <2>q, <2>h, <2>l, <2>b, <2>p DEF TypeOK
  <2>3. ASSUME NEW m \in Managers PROVE inf[m] = obj /\ h[m] = Idle
    BY <1>1 DEF Init
  <2>4. Idle.pc # "warm"
    BY DEF Idle
  <2>5. CopiesInv
    BY <2>3, <2>4 DEF CopiesInv, Current
  <2> QED  BY <2>2, <2>5
<1> QED  BY <1>1, TypeStep, CopiesStep, PTL DEF Spec

\* A status is only written over the version it was made from, which was not cached: no run
\* of Reconcile takes the result of another back, however many managers are at work.
THEOREM CachedForGood == Spec => CachedStays
<1>1. ASSUME TypeOK, CopiesInv, [Next]_vars, obj.exists, obj.cached, obj'.exists PROVE obj'.cached
  <2>1. CASE \E m \in Managers : warmUpAll(m) /\ Updatable(m)
    <3>1. PICK m \in Managers : warmUpAll(m) /\ Updatable(m)
      BY <2>1
    <3>2. h[m] # Idle /\ h[m].cache.version = obj.version
      BY <3>1 DEF warmUpAll, Updatable, Idle
    <3>3. Current(h[m].cache) /\ ~h[m].cache.cached
      BY <1>1, <3>2 DEF CopiesInv
    <3>4. obj.version \in Nat
      BY <1>1 DEF TypeOK, Object
    <3>5. h[m].cache = obj
      BY <3>2, <3>3, <3>4 DEF Current
    <3> QED  BY <1>1, <3>3, <3>5
  <2> QED  BY <1>1, <2>1, ObjectStep DEF TypeOK
<1>2. TypeOK /\ CopiesInv /\ [Next]_vars => [obj.exists /\ obj.cached /\ obj'.exists => obj'.cached]_vars
  BY <1>1
<1> QED  BY <1>2, CopiesInvariant, PTL DEF Spec, CachedStays

\* When an object becomes cached, its path of then has been loaded on the nodes of all pods
\* that the search through the manager's cache is to find, for any pods and volumes.
THEOREM CachedIsLoaded == Spec => CachedIsWarm
<1>1. ASSUME TypeOK, CopiesInv, [Next]_vars, NEW m \in Managers, ~obj.cached, obj'.cached, h'[m] # h[m],
             NEW n \in h[m].users
      PROVE  obj'.path \in warm[n]
  <2>1. PICK k \in Managers : /\ warmUpAll(k) /\ Updatable(k) /\ obj'.cached = ~h[k].failed
                              /\ obj'.path = obj.path
    BY <1>1, ObjectStep DEF TypeOK
  <2>2. k = m
    BY <1>1, <2>1 DEF warmUpAll, Result, Retry, Done, Goto, TypeOK
  <2>3. h[m].pc = "warm" /\ h[m].nodes = {} /\ h[m].cache.version = obj.version
    BY <1>1, <2>1, <2>2 DEF warmUpAll, Updatable
  <2>4. h[m].cache = obj
    <3>1. h[m] # Idle
      BY <2>3 DEF Idle
    <3>2. Current(h[m].cache)
      BY <1>1, <3>1 DEF CopiesInv
    <3>3. obj.version \in Nat
      BY <1>1 DEF TypeOK, Object
    <3> QED  BY <2>3, <3>2, <3>3 DEF Current
  <2>5. h[m].cache.path \in warm[n]
    BY <1>1, <2>3 DEF CopiesInv
  <2> QED  BY <2>1, <2>4, <2>5
<1>2. TypeOK /\ CopiesInv /\ [Next]_vars =>
        [\A m \in Managers : (~obj.cached /\ obj'.cached /\ h'[m] # h[m]) =>
           \A n \in h[m].users : obj'.path \in warm[n]]_vars
  BY <1>1
<1> QED  BY <1>2, CopiesInvariant, PTL DEF Spec, CachedIsWarm

\* The types of every copy of the object, of the handlers and of what the nodes hold.
THEOREM TypeCorrect == Spec => []TypeOK
  BY CopiesInvariant, PTL

=============================================================================
