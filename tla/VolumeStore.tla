----------------------------- MODULE VolumeStore -----------------------------
(***************************************************************************)
(* What the controller service promises its orchestrator, with handlers,   *)
(* locks, mounts and retries left out: volumes and snapshots that are made *)
(* while they are asked for, stay as they are while they are in use, and   *)
(* are removed once they are discarded.  ControllerService implements this *)
(* specification.                                                          *)
(***************************************************************************)
EXTENDS Naturals

CONSTANTS
  Vols, Snaps, SnapOf, Source, NoSource, Sizes,
  CopiesEnd,  \* is every copy that begins brought to its end?
  OwnPaths    \* does every removal have a mount path of its own?

VARIABLES
  co,     \* co[x]: what the orchestrator was told of x, and wants of it
  dirs,   \* dirs[x]: the directory of x
  quota   \* quota[v]: the size of v's quota, 0 for none

vars == <<co, dirs, quota>>

Objects   == Vols \cup Snaps
Origin(x) == IF x \in Snaps THEN SnapOf[x] ELSE Source[x]
Given(x)  == co[x] \in {"bound", "ready"}

Init ==
  /\ co = [x \in Objects |-> IF x \in Vols THEN "creating" ELSE "none"]
  /\ dirs = [x \in Objects |-> "none"]
  /\ quota = [v \in Vols |-> 0]

\* A directory appears only while its object is asked for: empty and whole, or as
\* a copy of something that was given out and is kept until the copy is over.
Make(v) ==
  /\ co[v] = "creating" /\ Source[v] = NoSource
  /\ dirs[v] = "none" /\ dirs' = [dirs EXCEPT ![v] = "full"]
  /\ UNCHANGED <<co, quota>>

BeginCopy(x) ==
  /\ co[x] = "creating" /\ Origin(x) # NoSource /\ Given(Origin(x))
  /\ dirs[x] = "none" /\ dirs' = [dirs EXCEPT ![x] = "partial"]
  /\ UNCHANGED <<co, quota>>

EndCopy(x) ==
  /\ co[x] = "creating" /\ Origin(x) # NoSource /\ Given(Origin(x))
  /\ dirs[x] = "partial" /\ dirs' = [dirs EXCEPT ![x] = dirs[Origin(x)]]
  /\ UNCHANGED <<co, quota>>

\* A quota is set while its volume is asked for, given out or being removed; that
\* of a volume in use changes and is never taken away.
SetQuota(v, n) ==
  /\ co[v] \in {"creating", "bound", "deleting"}
  /\ co[v] = "bound" => n > 0
  /\ quota' = [quota EXCEPT ![v] = n]
  /\ UNCHANGED <<co, dirs>>

\* What is given out is there, and whole if no copy is given up halfway.
Give(x) ==
  /\ co[x] = "creating"
  /\ dirs[x] # "none" /\ (CopiesEnd => dirs[x] = "full")
  /\ co' = [co EXCEPT ![x] = IF x \in Vols THEN "bound" ELSE "ready"]
  /\ UNCHANGED <<dirs, quota>>

\* Only what was discarded is removed.
Remove(x) ==
  /\ co[x] = "deleting"
  /\ dirs' = [dirs EXCEPT ![x] = "none"]
  /\ UNCHANGED <<co, quota>>

\* What is reported removed is, unless somebody else could unmount its path.
Forget(x) ==
  /\ co[x] = "deleting"
  /\ OwnPaths => dirs[x] = "none" /\ (x \in Vols => quota[x] = 0)
  /\ co' = [co EXCEPT ![x] = "deleted"]
  /\ UNCHANGED <<dirs, quota>>

\* The users: a snapshot is asked for of a volume in use, and nothing that is
\* being copied is discarded.
Ask(s) ==
  /\ co[s] = "none" /\ co[SnapOf[s]] = "bound"
  /\ co' = [co EXCEPT ![s] = "creating"]
  /\ UNCHANGED <<dirs, quota>>

Discard(x) ==
  /\ Given(x)
  /\ \A y \in Objects : Origin(y) = x => co[y] # "creating"
  /\ co' = [co EXCEPT ![x] = "deleting"]
  /\ UNCHANGED <<dirs, quota>>

Next ==
  \/ \E x \in Objects :
       BeginCopy(x) \/ EndCopy(x) \/ Give(x) \/ Remove(x) \/ Forget(x) \/ Discard(x)
  \/ \E v \in Vols : Make(v) \/ \E n \in Sizes \cup {0} : SetQuota(v, n)
  \/ \E s \in Snaps : Ask(s)

Spec == Init /\ [][Next]_vars

=============================================================================
