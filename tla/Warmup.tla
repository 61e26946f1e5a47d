------------------------------- MODULE Warmup -------------------------------
(***************************************************************************)
(* The cache warm-up controller.  A Cache object asks for a path of a      *)
(* claim to be loaded on every node where a pod uses the claim; Reconcile  *)
(* finds these nodes, runs a command in the mount pod of each, and records *)
(* the result in the status of the object.  The object and the pods are    *)
(* read from the manager's cache, whose watches may lag behind, each by    *)
(* itself; the object is written with the version that was read.  The      *)
(* claim is read from the cache as well, but it is bound once and for all: *)
(* a manager that does not know yet only tries again.                      *)
(***************************************************************************)
EXTENDS Naturals, Sequences

CONSTANTS
  Managers,   \* the processes of which one at a time is elected leader
  Pods, Nodes, Paths,
  NodeOf,     \* NodeOf[p]: where pod p is placed
  Volumes,    \* Volumes[p]: the volumes of pod p in order: the claim, another one, or others
  MaxEdits,   \* bound on the changes a user makes to the object
  MaxFaults,  \* bound on the calls and commands that fail
  MaxElections  \* bound on the changes of the leader

ASSUME PodsAssumption ==
  Volumes \in [Pods -> Seq({"claim", "otherClaim", "other"})] /\ NodeOf \in [Pods -> Nodes]
ASSUME BoundsAssumption == MaxEdits \in Nat /\ MaxFaults \in Nat /\ MaxElections \in Nat
ASSUME SomeAssumption == Managers # {} /\ Paths # {}

VARIABLES
  obj,      \* the Cache object in the API server
  inf,      \* inf[m]: the object in the cache of manager m
  queued,   \* queued[m]: is the object in the work queue of m?
  h,        \* h[m]: the run of Reconcile in m
  leader,
  claim,    \* "pending" or "bound", or "noClass" if it names no storage class
  pods,     \* the pods that are placed
  podInf,   \* podInf[m]: the placed pods in the cache of m
  warm,     \* warm[n]: the paths that are loaded on n
  edits, faults, elections

vars == <<obj, inf, queued, h, leader, claim, pods, podInf, warm, edits, faults, elections>>
\* The cluster, and what the caches hold of it.
clusterVars == <<claim, pods, podInf>>

\* CacheStatus, the path of the spec, and the metadata that matter here.
Object == [exists : BOOLEAN, deleting : BOOLEAN, cached : BOOLEAN, message : BOOLEAN,
           path : Paths, version : Nat]

\* A change gives the object a new version.
Changed(o) == [o EXCEPT !.version = @ + 1]

Idle == [pc |-> "idle"]
\* A run of Reconcile: the object it has read, the nodes that are still to be done, those
\* where the claim was in use when it looked, and whether a command has failed.
Handlers ==
  {Idle} \cup [pc : {"list"}, cache : Object]
  \cup [pc : {"warm"}, cache : Object, nodes : SUBSET Nodes, users : SUBSET Nodes, failed : BOOLEAN]

-----------------------------------------------------------------------------
(* Finding the nodes.                                                      *)

\* The pods that use the claim and have it before any volume that is not a claim.
Reached(p) ==
  \E i \in DOMAIN Volumes[p] :
    Volumes[p][i] = "claim" /\ \A j \in DOMAIN Volumes[p] : Volumes[p][j] = "other" => i < j

\* The nodes of these pods, as the cache of m has them.
UsedOn(m) == {NodeOf[p] : p \in {q \in podInf[m] : Reached(q)}}

\* Variant: only the first volume of a pod is looked at.
fromPVCGetFirstVolumeNodeName(m) ==
  {NodeOf[p] : p \in {q \in podInf[m] : Volumes[q] # <<>> /\ Volumes[q][1] = "claim"}}

\* The pods are listed from the cache of m.  The loop over the volumes of a pod ends at the
\* first that is no claim.
fromPVCGetUsedPodsNodeName(m) ==
  {NodeOf[p] : p \in {q \in podInf[m] :
    \E i \in DOMAIN Volumes[q] :
      Volumes[q][i] = "claim" /\ \A j \in 1..i : Volumes[q][j] # "other"}}

-----------------------------------------------------------------------------
(* Reconcile.                                                              *)

Goto(m, step) == h' = [h EXCEPT ![m] = step]
\* It returns without an error, or with one, and then the object is queued again.
Done(m) == Goto(m, Idle) /\ UNCHANGED queued
Retry(m) == Goto(m, Idle) /\ queued' = [queued EXCEPT ![m] = TRUE]

Fault == faults < MaxFaults /\ faults' = faults + 1

\* Variant: an object that is cached is looked at again.
NothingToDoUncached(m) == ~inf[m].exists \/ inf[m].deleting

NothingToDo(m) == ~inf[m].exists \/ inf[m].deleting \/ inf[m].cached

\* The claim is looked up; it has to name a storage class and to be bound to a volume.
getStorageClassNameAndPVName == claim = "bound"

\* The object is taken from the queue and read; the claim is read if there is work to do.
\* Delete of an object that is being deleted changes nothing.
Reconcile(m) ==
  /\ leader = m /\ h[m] = Idle /\ queued[m]
  /\ \/ /\ NothingToDo(m)
        /\ h' = h /\ queued' = [queued EXCEPT ![m] = FALSE]
        /\ UNCHANGED faults
     \/ /\ ~NothingToDo(m)
        /\ \/ /\ getStorageClassNameAndPVName
              /\ Goto(m, [pc |-> "list", cache |-> inf[m]])
              /\ queued' = [queued EXCEPT ![m] = FALSE] /\ UNCHANGED faults
           \/ ~getStorageClassNameAndPVName /\ UNCHANGED <<h, queued, faults>>
           \/ Fault /\ UNCHANGED <<h, queued>>
  /\ UNCHANGED <<obj, inf, leader, clusterVars, warm, edits, elections>>

\* Variant: that there is no node yet is no error.
ListPodsNoError(m) ==
  /\ h[m].pc = "list"
  /\ LET nodesName == fromPVCGetUsedPodsNodeName(m)
     IN \/ /\ nodesName # {} /\ UNCHANGED <<queued, faults>>
           /\ Goto(m, [pc |-> "warm", cache |-> h[m].cache, nodes |-> nodesName,
                       users |-> UsedOn(m), failed |-> FALSE])
        \/ nodesName = {} /\ Done(m) /\ UNCHANGED faults
        \/ Fault /\ Retry(m)
  /\ UNCHANGED <<obj, inf, leader, clusterVars, warm, edits, elections>>

\* The pods are searched; that there is no node yet is an error, and brings the object back.
\* users records the nodes that are to be found.
ListPods(m) ==
  /\ h[m].pc = "list"
  /\ LET nodesName == fromPVCGetUsedPodsNodeName(m)
     IN \/ /\ nodesName # {} /\ UNCHANGED <<queued, faults>>
           /\ Goto(m, [pc |-> "warm", cache |-> h[m].cache, nodes |-> nodesName,
                       users |-> UsedOn(m), failed |-> FALSE])
        \/ Retry(m) /\ (Fault \/ (nodesName = {} /\ UNCHANGED faults))
  /\ UNCHANGED <<obj, inf, leader, clusterVars, warm, edits, elections>>

\* The command runs in the mount pod of one node after the other, until one fails; so it
\* does where the mount pod does not run.
warmUp(m) ==
  /\ h[m].pc = "warm" /\ h[m].nodes # {} /\ ~h[m].failed
  /\ \E n \in h[m].nodes :
       \/ /\ UNCHANGED faults
          /\ warm' = [warm EXCEPT ![n] = @ \cup {h[m].cache.path}]
          /\ Goto(m, [h[m] EXCEPT !.nodes = @ \ {n}])
       \/ Fault /\ Goto(m, [h[m] EXCEPT !.failed = TRUE]) /\ UNCHANGED warm
  /\ UNCHANGED <<obj, inf, queued, leader, clusterVars, edits, elections>>

\* Variant: the status is written unless the spec has changed.
UpdatableSameSpec(m) == obj.exists /\ h[m].cache.path = obj.path

\* The API server accepts an update of the version that was read only.
Updatable(m) == obj.exists /\ h[m].cache.version = obj.version

Result(m) == IF h[m].failed THEN Retry(m) ELSE Done(m)

\* The status warmUpAll writes; a message stays when the object is cached at last.
Failure == [[obj EXCEPT !.cached = FALSE] EXCEPT !.message = TRUE]
Status(failed) == IF failed THEN Failure ELSE [obj EXCEPT !.cached = TRUE]

\* The end of warmUpAll: the status is updated.  An update that changes nothing makes no
\* new version.
warmUpAll(m) ==
  /\ h[m].pc = "warm" /\ (h[m].nodes = {} \/ h[m].failed)
  /\ \/ /\ Updatable(m) /\ Result(m) /\ UNCHANGED faults
        /\ LET new == Status(h[m].failed) IN obj' = IF new = obj THEN obj ELSE Changed(new)
     \/ ~Updatable(m) /\ Retry(m) /\ UNCHANGED <<obj, faults>>
     \/ Fault /\ Retry(m) /\ UNCHANGED obj
  /\ UNCHANGED <<inf, leader, clusterVars, warm, edits, elections>>

\* The watches of a manager begin with its controller, when it is elected.
Watching(m) == leader = m \/ h[m] # Idle

\* The watch of the object: the cache catches up, and the object is queued.
Deliver(m) ==
  /\ Watching(m) /\ inf[m] # obj
  /\ inf' = [inf EXCEPT ![m] = obj] /\ queued' = [queued EXCEPT ![m] = TRUE]
  /\ UNCHANGED <<obj, h, leader, clusterVars, warm, edits, faults, elections>>

\* The watch of the pods, which queues nothing.
DeliverPods(m) ==
  /\ Watching(m) /\ podInf[m] # pods
  /\ podInf' = [podInf EXCEPT ![m] = pods]
  /\ UNCHANGED <<obj, inf, queued, h, leader, claim, pods, warm, edits, faults, elections>>

\* Another manager is elected; the old one may still be at work until it has stopped.
\* A controller that starts queues every object.
Elect(m) ==
  /\ leader # m /\ h[m] = Idle
  /\ elections < MaxElections /\ elections' = elections + 1
  /\ leader' = m /\ queued' = [queued EXCEPT ![m] = TRUE]
  /\ UNCHANGED <<obj, inf, h, clusterVars, warm, edits, faults>>

\* A manager that has lost the election stops.
Stop(m) ==
  /\ leader # m /\ h[m] # Idle /\ Goto(m, Idle)
  /\ UNCHANGED <<obj, inf, queued, leader, clusterVars, warm, edits, faults, elections>>

-----------------------------------------------------------------------------
(* The cluster (external).                                                 *)

Edit ==
  /\ edits < MaxEdits /\ edits' = edits + 1
  /\ \E path \in Paths :
       \/ ~obj.exists /\ obj' = [exists |-> TRUE, deleting |-> FALSE, cached |-> FALSE,
                                 message |-> FALSE, path |-> path, version |-> obj.version + 1]
       \/ /\ obj.exists /\ ~obj.deleting /\ path # obj.path
          /\ obj' = Changed([obj EXCEPT !.path = path])
       \/ /\ obj.exists /\ ~obj.deleting
          /\ obj' = Changed([obj EXCEPT !.deleting = TRUE])
  /\ UNCHANGED <<inf, queued, h, leader, clusterVars, warm, faults, elections>>

\* The API server removes an object that is being deleted.
RemoveObject ==
  /\ obj.exists /\ obj.deleting /\ obj' = Changed([obj EXCEPT !.exists = FALSE])
  /\ UNCHANGED <<inf, queued, h, leader, clusterVars, warm, edits, faults, elections>>

Bind ==
  /\ claim = "pending" /\ claim' = "bound"
  /\ UNCHANGED <<obj, inf, queued, h, leader, pods, podInf, warm, edits, faults, elections>>

\* A pod that uses a claim is placed once the claim is bound; one without a storage class
\* is bound to a volume that was there before.
Place(p) ==
  /\ p \notin pods /\ claim # "pending" /\ pods' = pods \cup {p}
  /\ UNCHANGED <<obj, inf, queued, h, leader, claim, podInf, warm, edits, faults, elections>>

-----------------------------------------------------------------------------

Init ==
  /\ obj = [exists |-> FALSE, deleting |-> FALSE, cached |-> FALSE, message |-> FALSE,
            path |-> CHOOSE path \in Paths : TRUE, version |-> 0]
  /\ inf = [m \in Managers |-> obj] /\ queued = [m \in Managers |-> FALSE]
  /\ h = [m \in Managers |-> Idle] /\ leader = CHOOSE m \in Managers : TRUE
  /\ claim \in {"pending", "noClass"}
  /\ pods = {} /\ podInf = [m \in Managers |-> {}]
  /\ warm = [n \in Nodes |-> {}]
  /\ edits = 0 /\ faults = 0 /\ elections = 0

\* Nothing is left to do.
Quiet ==
  /\ \A m \in Managers : h[m] = Idle
  /\ inf[leader] = obj /\ podInf[leader] = pods /\ ~queued[leader] /\ UNCHANGED vars

Work(m) == Reconcile(m) \/ ListPods(m) \/ warmUp(m) \/ warmUpAll(m)
Watches(m) == Deliver(m) \/ DeliverPods(m)

Next ==
  \/ \E m \in Managers : Work(m) \/ Watches(m) \/ Elect(m) \/ Stop(m)
  \/ Edit \/ RemoveObject \/ Bind
  \/ \E p \in Pods : Place(p)
  \/ Quiet

Spec == Init /\ [][Next]_vars

\* The managers work, and their watches deliver.
Fairness ==
  \A m \in Managers :
    WF_vars(Work(m)) /\ WF_vars(Deliver(m)) /\ WF_vars(DeliverPods(m))
FairSpec == Spec /\ Fairness

-----------------------------------------------------------------------------
\* Every variable has its type.
TypeOK ==
  /\ obj \in Object /\ inf \in [Managers -> Object] /\ queued \in [Managers -> BOOLEAN]
  /\ h \in [Managers -> Handlers] /\ leader \in Managers
  /\ claim \in {"pending", "bound", "noClass"}
  /\ pods \subseteq Pods /\ podInf \in [Managers -> SUBSET pods]
  /\ warm \in [Nodes -> SUBSET Paths]
  /\ edits \in 0..MaxEdits /\ faults \in 0..MaxFaults /\ elections \in 0..MaxElections

\* A copy of the object is the object itself, or has an older version.
Current(copy) == copy.version < obj.version \/ copy = obj

\* Every copy that a manager holds is as old as its version says; Reconcile works on objects
\* that were not cached when they were read; and the nodes it has done are loaded.
CopiesInv ==
  \A m \in Managers :
    /\ Current(inf[m])
    /\ h[m] # Idle => Current(h[m].cache) /\ ~h[m].cache.cached
    /\ h[m].pc = "warm" =>
         \A n \in h[m].users : n \in h[m].nodes \/ h[m].cache.path \in warm[n]

\* When an object becomes cached, the path it asks for then has been loaded on the nodes of
\* all pods that the manager knew of when it listed them and whose volumes are searched as
\* far as the claim, although the object may have been read before an edit or by a manager
\* that is no longer the leader.  Nothing is said of the other pods: one that has not
\* reached the manager's cache, or has another kind of volume before the claim, is not found.
CachedIsWarm ==
  [][\A m \in Managers : (~obj.cached /\ obj'.cached /\ h'[m] # h[m]) =>
       \A n \in h[m].users : obj'.path \in warm[n]]_vars

\* A result is never taken back: no run of Reconcile that began before the object was cached
\* reports its failure over the success of another.
CachedStays == [][obj.exists /\ obj.cached /\ obj'.exists => obj'.cached]_vars

\* There is an object to be cached, and a pod that uses the claim and can be found.
Wanted ==
  /\ obj.exists /\ ~obj.deleting /\ claim = "bound"
  /\ \E p \in pods : Reached(p)

\* An object that stays, with pods that stay, is cached in the end: an outdated copy, a
\* conflict, a pod not known yet, a failed command or a change of the leader is followed by
\* another attempt.
CachedInTheEnd == <>[]Wanted => <>[](obj.cached)

=============================================================================
