--------------------------- MODULE ReconcileRound ---------------------------
(***************************************************************************)
(* doReconcile, the reconciler that polls kubelet: round after round it    *)
(* lists the node's pods and runs the pod driver on every mount pod, each  *)
(* in a goroutine of one errgroup.  The first error cancels the context of *)
(* all; a pod whose run failed is left out for a while, twice as long each *)
(* time (a flowcontrol.Backoff).  What a run does to its pod is MountPod's *)
(* matter; here it gets done what the pod has to do, or fails.             *)
(***************************************************************************)
EXTENDS Naturals

CONSTANTS
  Pods,            \* the mount pods of the node
  MaxRetryPeriod,  \* the longest back-off, in periods (retryPeriod, the reconciler's interval)
  MaxLag,          \* bound on the periods from one round to the next
  MaxFaults        \* bound on the lists that fail and the rounds that time out

ASSUME BoundsAssumption ==
  MaxRetryPeriod \in Nat \ {0} /\ MaxLag \in Nat \ {0} /\ MaxFaults \in Nat

VARIABLES
  round,    \* "list", "run" or "sleep"
  g,        \* g[p]: the goroutine of p
  err,      \* is doReconcile's err, which all goroutines assign, non-nil?
  ctx,      \* "live" or "done"
  backoff,  \* backoff[p]: the back-off of p, 0 for no entry
  since,    \* since[p]: periods since p's entry was last updated
  failing,  \* the pods whose runs fail
  todo,     \* the pods that have something to be done
  faults

vars == <<round, g, err, ctx, backoff, since, failing, todo, faults>>

-----------------------------------------------------------------------------
(* A round.                                                                *)

\* Variant: the context is made once, before the loop.
ListOldContext ==
  /\ round = "list" /\ round' = "run"
  /\ g' = [p \in Pods |-> "new"] /\ err' = FALSE
  /\ UNCHANGED <<ctx, backoff, since, failing, todo, faults>>

\* The pods and the mount table are read, and a goroutine is started for every mount pod.
List ==
  /\ round = "list" /\ round' = "run"
  /\ g' = [p \in Pods |-> "new"] /\ err' = FALSE /\ ctx' = "live"
  /\ UNCHANGED <<backoff, since, failing, todo, faults>>

\* GetNodeRunningPods fails, or the mount table: the round is over.
ListFails ==
  /\ round = "list" /\ round' = "sleep"
  /\ faults < MaxFaults /\ faults' = faults + 1
  /\ UNCHANGED <<g, err, ctx, backoff, since, failing, todo>>

\* A round that takes longer than ReconcileTimeout loses its context without an error.
RoundTimesOut ==
  /\ round = "run" /\ ctx = "live" /\ ctx' = "done"
  /\ faults < MaxFaults /\ faults' = faults + 1
  /\ UNCHANGED <<round, g, err, backoff, since, failing, todo>>

\* IsInBackOffSinceUpdate.
InBackOff(p) == backoff[p] > 0 /\ since[p] < backoff[p]

\* A goroutine starts: not with a context that is cancelled, nor in back-off.
Start(p) ==
  /\ g[p] = "new"
  /\ g' = [g EXCEPT ![p] = IF ctx = "done" \/ InBackOff(p) THEN "end" ELSE "running"]
  /\ UNCHANGED <<round, err, ctx, backoff, since, failing, todo, faults>>

\* podDriver.Run.  A cancelled context makes its patches and umounts fail, but not
\* the calls that take no context; a umount that fails is only logged, so that a run may
\* succeed with its work undone.  The result is assigned to the shared err.
Run(p) ==
  /\ g[p] = "running"
  /\ \/ p \notin failing /\ err' = FALSE /\ todo' = todo \ {p}
     \/ p \notin failing /\ ctx = "done" /\ err' = FALSE /\ UNCHANGED todo
     \/ (p \in failing \/ ctx = "done") /\ err' = TRUE /\ UNCHANGED todo
  /\ g' = [g EXCEPT ![p] = "ran"]
  /\ UNCHANGED <<round, ctx, backoff, since, failing, faults>>

\* Variant: the back-off doubles without end.
NextUncapped(b) == IF b = 0 THEN 1 ELSE 2 * b

\* Backoff.Next: one period at first, then twice as long, up to the longest.
NextBackOff(b) ==
  IF b = 0 THEN 1 ELSE IF 2 * b < MaxRetryPeriod THEN 2 * b ELSE MaxRetryPeriod

\* The goroutine looks at err, its own result or one that another has assigned since,
\* and sets or resets its back-off.
Check(p) ==
  /\ g[p] = "ran"
  /\ backoff' = [backoff EXCEPT ![p] = IF err THEN NextBackOff(@) ELSE 0]
  /\ since' = [since EXCEPT ![p] = 0]
  /\ g' = [g EXCEPT ![p] = IF err THEN "failed" ELSE "end"]
  /\ UNCHANGED <<round, err, ctx, failing, todo, faults>>

\* It returns err as it is by then; the group cancels the context on an error.
ReturnErr(p) ==
  /\ g[p] = "failed"
  /\ g' = [g EXCEPT ![p] = "end"]
  /\ ctx' = IF err THEN "done" ELSE ctx
  /\ UNCHANGED <<round, err, backoff, since, failing, todo, faults>>

\* Variant: the round does not wait for its goroutines.
WaitForNone ==
  /\ round = "run" /\ round' = "sleep"
  /\ UNCHANGED <<g, err, ctx, backoff, since, failing, todo, faults>>

\* g.Wait, and the end of the round.
Wait ==
  /\ round = "run" /\ \A p \in Pods : g[p] = "end"
  /\ round' = "sleep"
  /\ UNCHANGED <<g, err, ctx, backoff, since, failing, todo, faults>>

\* Variant: the time between two rounds is not counted.
SleepUncounted ==
  /\ round = "sleep" /\ round' = "list"
  /\ UNCHANGED <<g, err, ctx, backoff, since, failing, todo, faults>>

\* An entry that is older than twice the longest back-off counts as none, and is
\* removed by GC.
Expired(p, d) == since[p] + d > 2 * MaxRetryPeriod

\* One period passes, or more where the round took long.
Sleep ==
  /\ round = "sleep" /\ round' = "list"
  /\ \E d \in 1..MaxLag :
       /\ backoff' = [p \in Pods |-> IF Expired(p, d) THEN 0 ELSE backoff[p]]
       /\ since' = [p \in Pods |->
                      IF Expired(p, d) \/ backoff[p] = 0 THEN 0 ELSE since[p] + d]
  /\ UNCHANGED <<g, err, ctx, failing, todo, faults>>

-----------------------------------------------------------------------------
(* The pods (external).                                                    *)

PodChanges(p) ==
  /\ \/ todo' = todo \cup {p} /\ UNCHANGED failing
     \/ failing' = failing \cup {p} /\ UNCHANGED todo
     \/ failing' = failing \ {p} /\ UNCHANGED todo
  /\ UNCHANGED <<round, g, err, ctx, backoff, since, faults>>

Init ==
  /\ round = "list" /\ g = [p \in Pods |-> "end"]
  /\ err = FALSE /\ ctx = "live"
  /\ backoff = [p \in Pods |-> 0] /\ since = [p \in Pods |-> 0]
  /\ failing = {} /\ todo = {}
  /\ faults = 0

Goroutine(p) == Start(p) \/ Run(p) \/ Check(p) \/ ReturnErr(p)

Next ==
  \/ List \/ ListFails \/ RoundTimesOut \/ Wait \/ Sleep
  \/ \E p \in Pods : Goroutine(p) \/ PodChanges(p)

Spec == Init /\ [][Next]_vars

\* The loop and its goroutines run.
Fairness == WF_vars(List \/ ListFails \/ Wait \/ Sleep) /\ \A p \in Pods : WF_vars(Goroutine(p))
FairSpec == Spec /\ Fairness

-----------------------------------------------------------------------------
\* Every variable has its type; no back-off exceeds maxRetryPeriod, however often its pod
\* has failed, and no entry outlives twice that time.
TypeOK ==
  /\ round \in {"list", "run", "sleep"}
  /\ g \in [Pods -> {"new", "running", "ran", "failed", "end"}]
  /\ err \in BOOLEAN /\ ctx \in {"live", "done"}
  /\ backoff \in [Pods -> 0..MaxRetryPeriod] /\ since \in [Pods -> 0..2 * MaxRetryPeriod]
  /\ failing \subseteq Pods /\ todo \subseteq Pods
  /\ faults \in 0..MaxFaults

\* Two rounds never overlap: when doReconcile lists the pods again no goroutine of an
\* earlier round is left, whatever failed, was cancelled or timed out, so no mount pod is
\* ever run twice at once and no late goroutine assigns the next round's err.
RoundsApart == round # "run" => \A p \in Pods : g[p] = "end"

\* A pod that keeps failing does not keep the others out: as long as the runs of one pod at
\* most fail of themselves, every mount pod is run again and again, although each error
\* cancels the context, may come before the other goroutines start, and may be taken for
\* another pod's and put that one into back-off.
RunAgain ==
  \A q \in Pods : <>[](failing \subseteq {q}) => \A p \in Pods : []<>(g[p] = "running")

\* Once no run fails of itself any more, everything that is to be done gets done: the
\* back-offs and cancellations that the failures have left behind, and errors of one pod
\* that were taken for another's, pass.
WorkIsDone == <>[](failing = {}) => \A p \in Pods : (p \in todo) ~> (p \notin todo)

=============================================================================
