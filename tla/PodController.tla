---------------------------- MODULE PodController ----------------------------
(***************************************************************************)
(* The pod manager that watches the API server (cmd/app and PodController  *)
(* of pkg/controller), and the delayed deletion of a mount pod: events,    *)
(* the work queue, the timer of the requeue, and the time of the deletion  *)
(* in an annotation.                                                       *)
(*                                                                         *)
(* MountPod has the single calls of a round, in which the reconciler is    *)
(* simply woken again and again.  Here a round is a read and a write, and  *)
(* the question is whether and when there is a next one.  Time is kept as  *)
(* what is left of it, in ticks.                                           *)
(***************************************************************************)
EXTENDS Integers, FiniteSets

CONSTANTS
  Targets,   \* targets, each of one application pod
  Delay,     \* the deletion delay of the mount pod
  Zone,      \* how far the plugin's local time is ahead of UTC
  None,
  MaxFaults  \* bound on the API calls that fail

ASSUME DelayAssumption ==
  /\ Delay \in Nat \ {0} /\ Zone \in Int /\ None \notin Int
  /\ MaxFaults \in Nat

VARIABLES
  exists,  \* is there a mount pod?
  refs,    \* the targets that refer to it
  at,      \* its delete-at annotation, as the time left, or None
  idle,    \* for how long it has had no reference, up to Delay
  app,     \* app[t]: the application pod of t
  event,   \* a change of the mount pod that the watch has not delivered
  queued,  \* is the mount pod in the work queue?
  timer,   \* when it is to be put there, as the time left, or None
  rec,     \* the round of Reconcile
  raced,   \* has the last publish fallen into a round?
  faults

vars == <<exists, refs, at, idle, app, event, queued, timer, rec, raced, faults>>

NoRound == [pc |-> "idle", refs |-> {}, at |-> None, seen |-> {}]
Clamp(n) == IF n > 0 THEN n ELSE 0
Left(x)  == IF x = None THEN None ELSE Clamp(x - 1)

\* The time of the deletion is formatted as local time; GetTime reads it as UTC.
GetTimeAfterDelay == Clamp(Delay + Zone)

Fault == faults < MaxFaults /\ faults' = faults + 1

-----------------------------------------------------------------------------
(* The node service: references, as far as the delay is concerned.         *)

AppStarts(t) ==
  /\ app[t] = "none"
  /\ app' = [app EXCEPT ![t] = "live"]
  /\ UNCHANGED <<exists, refs, at, idle, event, queued, timer, rec, raced, faults>>

\* Variant: the time of the deletion stays.
AddRefOfMountKeepsAt(t) ==
  /\ app[t] = "live"
  /\ app' = [app EXCEPT ![t] = "bound"]
  /\ exists' = TRUE /\ refs' = refs \cup {t} /\ at' = at /\ idle' = 0
  /\ event' = TRUE
  /\ raced' = (rec.pc # "idle")
  /\ UNCHANGED <<queued, timer, rec, faults>>

\* Variant: the pod that was found is not created again if it has gone since.
AddRefOfMountFound(t) ==
  /\ app[t] = "live"
  /\ app' = [app EXCEPT ![t] = "bound"]
  /\ refs' = refs \cup {t} /\ at' = None /\ idle' = 0
  /\ event' = TRUE
  /\ raced' = (rec.pc # "idle")
  /\ UNCHANGED <<exists, queued, timer, rec, faults>>

\* A publish creates the mount pod or adds its reference; either way there is no time
\* of deletion on it afterwards.
AddRefOfMount(t) ==
  /\ app[t] = "live"
  /\ app' = [app EXCEPT ![t] = "bound"]
  /\ exists' = TRUE /\ refs' = refs \cup {t} /\ at' = None /\ idle' = 0
  /\ event' = TRUE
  /\ raced' = (rec.pc # "idle")
  /\ UNCHANGED <<queued, timer, rec, faults>>

\* JUmount takes the reference off.  With a delay on the pod it finds keys that hasRef
\* counts as references, and never deletes the pod itself.
JUmount(t) ==
  /\ app[t] \in {"term", "forced"}
  /\ app' = [app EXCEPT ![t] = "gone"]
  /\ refs' = refs \ {t}
  /\ event' = (event \/ t \in refs)
  /\ UNCHANGED <<exists, at, idle, queued, timer, rec, raced, faults>>

\* An application pod that is deleted is there until it is unpublished.
AppDeleted(t) ==
  /\ app[t] = "bound"
  /\ app' = [app EXCEPT ![t] = "term"]
  /\ UNCHANGED <<exists, refs, at, idle, event, queued, timer, rec, raced, faults>>

\* It may be gone from the API server before that.
AppForced(t) ==
  /\ app[t] \in {"bound", "term"}
  /\ app' = [app EXCEPT ![t] = "forced"]
  /\ UNCHANGED <<exists, refs, at, idle, event, queued, timer, rec, raced, faults>>

-----------------------------------------------------------------------------
(* The watch and the queue (external, but for the predicates).             *)

\* SetupWithManager: every change of the pod is enqueued, and merged with what is queued.
Deliver ==
  /\ event
  /\ event' = FALSE /\ queued' = TRUE
  /\ UNCHANGED <<exists, refs, at, idle, app, timer, rec, raced, faults>>

TimerFires ==
  /\ timer = 0
  /\ timer' = None /\ queued' = TRUE
  /\ UNCHANGED <<exists, refs, at, idle, app, event, rec, raced, faults>>

Tick ==
  /\ at' = Left(at) /\ timer' = Left(timer)
  /\ rec' = [rec EXCEPT !.at = Left(@)]
  /\ idle' = IF exists /\ refs = {} /\ idle < Delay THEN idle + 1 ELSE idle
  /\ UNCHANGED <<exists, refs, app, event, queued, raced, faults>>

-----------------------------------------------------------------------------
(* Reconcile: the pod is read, then the application pods; a key is worked  *)
(* on by one round at a time, and may be queued again meanwhile.           *)

GetPod ==
  /\ rec.pc = "idle" /\ queued
  /\ queued' = FALSE
  /\ rec' = IF exists THEN [NoRound EXCEPT !.pc = "list", !.refs = refs, !.at = at] ELSE NoRound
  /\ UNCHANGED <<exists, refs, at, idle, app, event, timer, raced, faults>>

\* Variant: an application pod counts only once it is running.
ListAppPodRunning ==
  /\ rec.pc = "list"
  /\ \E other \in SUBSET {t \in Targets : app[t] \in {"bound", "gone"}} :
       rec' = [rec EXCEPT !.pc = "run", !.seen = other \cup {t \in Targets : app[t] \in {"live", "term"}}]
  /\ UNCHANGED <<exists, refs, at, idle, app, event, queued, timer, raced, faults>>

\* Pods that were unpublished may be there for a while.
ListAppPod ==
  /\ rec.pc = "list"
  /\ \E gone \in SUBSET {t \in Targets : app[t] = "gone"} :
       rec' = [rec EXCEPT !.pc = "run",
                          !.seen = gone \cup {t \in Targets : app[t] \in {"live", "bound", "term"}}]
  /\ UNCHANGED <<exists, refs, at, idle, app, event, queued, timer, raced, faults>>

ExistTargets == rec.refs \cap rec.seen
Stale        == rec.refs \ rec.seen
DelAt        == ExistTargets # {} /\ rec.at # None

\* Annotations are removed only with as many references on the pod as were read, and
\* only if they are all there.
Conflict ==
  /\ Stale # {} \/ DelAt
  /\ \/ ~exists \/ Cardinality(refs) # Cardinality(rec.refs)
     \/ ~(Stale \subseteq refs) \/ (DelAt /\ at = None)

\* Variant: the pod is not looked at again.
RequeueNever == UNCHANGED <<queued, timer>>

\* By the annotation that was READ: after the time that is left, or soon if it is past.
Requeue ==
  \/ rec.at = None /\ UNCHANGED <<queued, timer>>
  \/ /\ rec.at # None /\ rec.at > 0
     /\ timer' = IF timer = None \/ rec.at < timer THEN rec.at ELSE timer
     /\ UNCHANGED queued
  \/ rec.at = 0 /\ queued' = TRUE /\ UNCHANGED timer

Run(exist, delete) ==
  /\ rec.pc = "run" /\ ~Conflict
  /\ (ExistTargets # {}) = exist
  /\ (~exist /\ rec.at = 0) = delete
  /\ rec' = NoRound
  /\ Requeue
  /\ UNCHANGED <<app, raced, faults>>

\* Variant: the time of the deletion is left on a pod that is used.
RunUsedKeepsAt ==
  /\ Run(TRUE, FALSE)
  /\ refs' = refs \ Stale /\ at' = at
  /\ event' = (event \/ Stale # {})
  /\ UNCHANGED <<exists, idle>>

RunUsed ==
  /\ Run(TRUE, FALSE)
  /\ refs' = refs \ Stale /\ at' = IF DelAt THEN None ELSE at
  /\ event' = (event \/ Stale # {} \/ DelAt)
  /\ UNCHANGED <<exists, idle>>

\* ShouldDelay notes the time of the deletion, or finds that it has not come.
RunDelayed ==
  /\ Run(FALSE, FALSE)
  /\ rec.at = None => exists
  /\ refs' = refs \ Stale
  /\ at' = IF rec.at = None THEN GetTimeAfterDelay ELSE at
  /\ event' = (event \/ Stale # {} \/ rec.at = None)
  /\ UNCHANGED <<exists, idle>>

\* A pod that has references again is created anew, with its annotations, by
\* podDeletedHandler.
RunDelete ==
  /\ Run(FALSE, TRUE) /\ exists
  /\ event' = TRUE
  /\ refs' = refs \ Stale
  /\ IF refs = Stale
     THEN exists' = FALSE /\ at' = None /\ idle' = 0
     ELSE UNCHANGED <<exists, at, idle>>

\* A conflict, a pod that is gone, or a call that fails: the round ends with an error,
\* and the pod is queued again.
ReconcileFails ==
  /\ \/ rec.pc = "run" /\ UNCHANGED faults
        /\ (Conflict \/ (~exists /\ ExistTargets = {} /\ rec.at \in {None, 0}))
     \/ rec.pc # "idle" /\ Fault
  /\ rec' = NoRound /\ queued' = TRUE
  /\ UNCHANGED <<exists, refs, at, idle, app, event, timer, raced>>

-----------------------------------------------------------------------------
Init ==
  /\ exists = FALSE /\ refs = {} /\ at = None /\ idle = 0
  /\ app = [t \in Targets |-> "none"]
  /\ event = FALSE /\ queued = FALSE /\ timer = None
  /\ rec = NoRound /\ raced = FALSE /\ faults = 0

Apps   == \E t \in Targets :
            AppStarts(t) \/ AddRefOfMount(t) \/ AppDeleted(t) \/ AppForced(t) \/ JUmount(t)
Round  == GetPod \/ ListAppPod \/ RunUsed \/ RunDelayed \/ RunDelete \/ ReconcileFails
Next   == Apps \/ Deliver \/ TimerFires \/ Tick \/ Round

Spec == Init /\ [][Next]_vars

\* Time passes, watches deliver, and the controller's worker takes what is queued.
Fairness == WF_vars(Deliver) /\ WF_vars(TimerFires) /\ WF_vars(Tick) /\ WF_vars(Round)
FairSpec == Spec /\ Fairness

-----------------------------------------------------------------------------
Times  == 0..GetTimeAfterDelay \cup {None}
Rounds == [pc: {"idle", "list", "run"}, refs: SUBSET Targets, at: Times, seen: SUBSET Targets]

\* Every variable has its type, and a pod that is gone has no annotations.
TypeOK ==
  /\ exists \in BOOLEAN /\ event \in BOOLEAN /\ queued \in BOOLEAN /\ raced \in BOOLEAN
  /\ refs \subseteq Targets
  /\ at \in Times /\ timer \in Times
  /\ idle \in 0..Delay
  /\ app \in [Targets -> {"none", "live", "bound", "term", "forced", "gone"}]
  /\ rec \in Rounds
  /\ faults \in 0..MaxFaults
  /\ ~exists => refs = {} /\ at = None

\* The mount pod is deleted only after it has been without references for the whole
\* delay: a publish in between (AddRefOfMount) starts the delay anew.  The exception is
\* a publish that falls between Reconcile's reading of the pod and its writing.
DeletedAfterDelay == [][exists /\ ~exists' => raced \/ idle = Delay]_vars

\* A reference is on the pod, or in what a round has read of it, only after its application
\* pod was published; and a round takes for stale only the references whose application
\* pods the API server no longer has, however long ago it listed them.
RoundIsSound ==
  /\ \A t \in refs \cup rec.refs : app[t] \notin {"none", "live"}
  /\ rec.pc = "run" => \A t \in Stale : app[t] \in {"forced", "gone"}

\* What RefSet knows of an application pod.
AppOf(a) == IF a = "none" THEN "none" ELSE IF a \in {"live", "bound"} THEN "live" ELSE "term"

RefSetOfPod == INSTANCE RefSet WITH app <- [t \in Targets |-> AppOf(app[t])]

\* Delayed deletion keeps the promise of RefSet too: between the reads and the write of a
\* round of Reconcile, whatever the watch, the timer and failed calls make of their order,
\* no reference of an application pod that runs is dropped, and what ShouldDelay and
\* DeletePod do to the annotations is no more than RefSet allows.
ImplementsRefSet == RefSetOfPod!Spec

\* An unused mount pod is deleted in the end: the events and the requeue of Reconcile
\* always lead to another round, with errors and conflicts too.  (A reference that is left
\* by an application pod deleted by force changes nothing of the mount pod, and may stay.)
UnusedIsDeleted == (exists /\ refs = {}) ~> (~exists \/ refs # {})

\* A time of deletion that a round has written onto a pod just published again is taken
\* off again ("delete deleteDelayAt when there ars refs").
DelayIsCancelled == (refs # {} /\ at # None) ~> (refs = {} \/ at = None)

=============================================================================
