------------------------------- MODULE RefSet -------------------------------
(***************************************************************************)
(* What the mount pod's reference annotations promise, with the calls, the *)
(* locks and the reconciler left out: a mount pod and the set of targets   *)
(* that refer to it.  MountPod implements this specification.              *)
(***************************************************************************)
CONSTANT Targets

VARIABLES
  exists,  \* is there a mount pod?
  refs,    \* the targets whose reference is on it
  app      \* app[t]: the application pod that owns t

vars == <<exists, refs, app>>

Known == {t \in Targets : app[t] # "none"}
Gone  == {t \in Targets : app[t] = "gone"}

Init ==
  /\ exists = FALSE
  /\ refs = {}
  /\ app = [t \in Targets |-> "none"]

\* A pod is deployed, by a publish or by a recovery, with references of
\* application pods that exist or have existed.
Deploy(S) ==
  /\ ~exists /\ exists' = TRUE
  /\ S \subseteq Known /\ refs' = S
  /\ UNCHANGED app

\* A publish adds its own reference to those that are there.  References of
\* application pods that are gone may come back with it.
AddRef(t, S) ==
  /\ exists /\ t \in Known
  /\ S \subseteq Gone /\ refs' = refs \cup {t} \cup S
  /\ UNCHANGED <<exists, app>>

\* References are taken off, but none of an application pod that runs.
Drop(S) ==
  /\ exists
  /\ S \subseteq refs /\ \A t \in S : app[t] \in {"term", "gone"}
  /\ refs' = refs \ S
  /\ UNCHANGED <<exists, app>>

Remove ==
  /\ exists /\ exists' = FALSE
  /\ refs' = {}
  /\ UNCHANGED app

AppMoves(t, from, to) ==
  /\ app[t] = from
  /\ app' = [app EXCEPT ![t] = to]
  /\ UNCHANGED <<exists, refs>>

Next ==
  \/ \E S \in SUBSET Targets : Deploy(S) \/ Drop(S)
  \/ \E t \in Targets, S \in SUBSET Targets : AddRef(t, S)
  \/ Remove
  \/ \E t \in Targets :
       AppMoves(t, "none", "live") \/ AppMoves(t, "live", "term") \/ AppMoves(t, "term", "gone")

Spec == Init /\ [][Next]_vars

=============================================================================
