------------------------- MODULE PodControllerProofs -------------------------
(***************************************************************************)
(* Proofs about the delayed deletion of PodController, for every set of    *)
(* targets, every delay and every time zone.                               *)
(***************************************************************************)
EXTENDS PodController, TLAPS

-----------------------------------------------------------------------------
(* Types.                                                                  *)

\* The clocks: what is left of a time is a time, and the time of the deletion is one.
LEMMA TimesLeft ==
  /\ None \in Times /\ GetTimeAfterDelay \in Times /\ GetTimeAfterDelay \in Nat
  /\ \A x \in Times : Left(x) \in Times
  BY DelayAssumption DEF Times, Left, Clamp, GetTimeAfterDelay

\* A round that is over, one that begins, and one that moves on are rounds.
LEMMA RoundTypes ==
  /\ NoRound \in Rounds
  /\ \A r \in Rounds : /\ r.at \in Times /\ r.refs \subseteq Targets /\ r.seen \subseteq Targets
                       /\ [r EXCEPT !.at = Left(@)] \in Rounds
  BY TimesLeft DEF Rounds, NoRound

\* So is one that has just read the pod.
LEMMA BeginTypes ==
  ASSUME NEW S \in SUBSET Targets, NEW x \in Times
  PROVE  [NoRound EXCEPT !.pc = "list", !.refs = S, !.at = x] \in Rounds
  BY RoundTypes DEF Rounds

\* What Requeue sets is a time.
LEMMA RequeueTypes == TypeOK /\ Requeue => timer' \in Times /\ queued' \in BOOLEAN
<1> SUFFICES ASSUME TypeOK, Requeue PROVE timer' \in Times /\ queued' \in BOOLEAN
  OBVIOUS
<1>1. rec.at \in Times
  BY RoundTypes DEF TypeOK
<1> QED
  BY <1>1 DEF TypeOK, Requeue

\* Every step keeps the types.
LEMMA TypeStep == TypeOK /\ [Next]_vars => TypeOK'
<1> SUFFICES ASSUME TypeOK, [Next]_vars PROVE TypeOK'
  OBVIOUS
<1>0. None \in Times /\ GetTimeAfterDelay \in Times /\ NoRound \in Rounds /\ 0 \in 0..Delay
  BY TimesLeft, RoundTypes, DelayAssumption
<1>1. CASE Apps
  <2> SUFFICES ASSUME NEW t \in Targets,
                      AppStarts(t) \/ AddRefOfMount(t) \/ AppDeleted(t) \/ AppForced(t) \/ JUmount(t)
               PROVE  TypeOK'
    BY <1>1 DEF Apps
  <2>1. CASE AppStarts(t) \/ AppDeleted(t) \/ AppForced(t)
    BY <2>1 DEF TypeOK, AppStarts, AppDeleted, AppForced
  <2>2. CASE AddRefOfMount(t)
    BY <1>0, <2>2 DEF TypeOK, AddRefOfMount
  <2>3. CASE JUmount(t)
    BY <2>3 DEF TypeOK, JUmount
  <2> QED
    BY <2>1, <2>2, <2>3
<1>2. CASE Deliver \/ TimerFires
  BY <1>0, <1>2 DEF TypeOK, Deliver, TimerFires
<1>3. CASE Tick
  <2>1. at' \in Times /\ timer' \in Times /\ rec' \in Rounds
    BY <1>3, TimesLeft, RoundTypes DEF TypeOK, Tick
  <2>2. idle' \in 0..Delay
    BY <1>3, DelayAssumption DEF TypeOK, Tick
  <2>3. at = None => at' = None
    BY <1>3 DEF Tick, Left
  <2> QED
    BY <1>3, <2>1, <2>2, <2>3 DEF TypeOK, Tick
<1>4. CASE GetPod
  <2>1. rec' \in Rounds
    BY <1>0, <1>4, BeginTypes DEF TypeOK, GetPod
  <2> QED
    BY <1>4, <2>1 DEF TypeOK, GetPod
<1>5. CASE ListAppPod
  <2>1. PICK gone \in SUBSET {t \in Targets : app[t] = "gone"} :
          rec' = [rec EXCEPT !.pc = "run",
                             !.seen = gone \cup {t \in Targets : app[t] \in {"live", "bound", "term"}}]
    BY <1>5 DEF ListAppPod
  <2>2. gone \cup {t \in Targets : app[t] \in {"live", "bound", "term"}} \subseteq Targets
    BY Zenon
  <2>3. rec' \in Rounds
    BY <2>1, <2>2 DEF TypeOK, Rounds
  <2> QED
    BY <1>5, <2>3, Zenon DEF TypeOK, ListAppPod
<1>6. CASE RunUsed
  <2>1. Run(TRUE, FALSE) /\ rec' = NoRound /\ timer' \in Times /\ queued' \in BOOLEAN
    BY <1>6, RequeueTypes DEF RunUsed, Run
  <2>2. ~exists => Stale = {} /\ ~DelAt
    BY <2>1 DEF Run, Conflict
  <2>3. UNCHANGED <<app, raced, faults, exists, idle>>
    BY <1>6 DEF RunUsed, Run
  <2> QED
    BY <1>0, <1>6, <2>1, <2>2, <2>3 DEF TypeOK, RunUsed
<1>7. CASE RunDelayed
  <2>1. Run(FALSE, FALSE) /\ rec' = NoRound /\ timer' \in Times /\ queued' \in BOOLEAN
    BY <1>7, RequeueTypes DEF RunDelayed, Run
  <2>2. UNCHANGED <<app, raced, faults, exists, idle>>
    BY <1>7 DEF RunDelayed, Run
  <2> QED
    BY <1>0, <1>7, <2>1, <2>2 DEF TypeOK, RunDelayed
<1>8. CASE RunDelete
  <2>1. rec' = NoRound /\ timer' \in Times /\ queued' \in BOOLEAN /\ UNCHANGED <<app, raced, faults>>
    BY <1>8, RequeueTypes DEF RunDelete, Run
  <2>2. exists
    BY <1>8 DEF RunDelete
  <2>3. event' = TRUE /\ refs' = refs \ Stale
    BY <1>8 DEF RunDelete
  <2>4. CASE refs = Stale
    <3>1. exists' = FALSE /\ at' = None /\ idle' = 0 /\ refs' = {}
      BY <1>8, <2>3, <2>4 DEF RunDelete
    <3>2. /\ app' \in [Targets -> {"none", "live", "bound", "term", "forced", "gone"}]
          /\ faults' \in 0..MaxFaults
      BY <2>1 DEF TypeOK
    <3>3. idle' \in 0..Delay
      BY <1>0, <3>1
    <3>4. refs' \subseteq Targets /\ at' \in Times /\ raced' \in BOOLEAN
      BY <1>0, <2>1, <3>1 DEF TypeOK
    <3> QED
      BY <1>0, <2>1, <2>3, <3>1, <3>2, <3>3, <3>4, Zenon DEF TypeOK
  <2>5. CASE refs # Stale
    <3>1. UNCHANGED <<exists, at, idle>>
      BY <1>8, <2>5 DEF RunDelete
    <3> QED
      BY <1>0, <2>1, <2>2, <2>3, <3>1 DEF TypeOK
  <2> QED
    BY <2>4, <2>5
<1>9. CASE ReconcileFails
  BY <1>0, <1>9, DelayAssumption DEF TypeOK, ReconcileFails, Fault
<1>10. CASE UNCHANGED vars
  BY <1>10 DEF TypeOK, vars
<1> QED
  BY <1>1, <1>2, <1>3, <1>4, <1>5, <1>6, <1>7, <1>8, <1>9, <1>10 DEF Next, Round

\* The types hold for every delay and zone; an annotation never outlives its pod.
THEOREM TypeCorrect == Spec => []TypeOK
<1>1. Init => TypeOK
  BY TimesLeft, DelayAssumption DEF Init, TypeOK, NoRound
<1> QED
  BY <1>1, TypeStep, PTL DEF Spec

-----------------------------------------------------------------------------
(* The references.                                                         *)

\* Every step keeps what a round knows sound: an application pod that is gone stays gone,
\* and what is published is not unpublished by a round.
LEMMA SoundStep == TypeOK /\ RoundIsSound /\ [Next]_vars => RoundIsSound'
<1> SUFFICES ASSUME TypeOK, RoundIsSound, [Next]_vars PROVE RoundIsSound'
  OBVIOUS
<1> USE DEF RoundIsSound, Stale
<1>a. ASSUME rec' = NoRound, refs' \subseteq refs, app' = app PROVE RoundIsSound'
  BY <1>a DEF NoRound
<1>1. ASSUME NEW t \in Targets, AppStarts(t) \/ AddRefOfMount(t) \/ AppDeleted(t) \/ AppForced(t)
                               \/ JUmount(t)
      PROVE  RoundIsSound'
  <2>1. /\ rec' = rec /\ refs' \subseteq refs \cup {t}
        /\ \A u \in Targets \ {t} : app'[u] = app[u]
    BY <1>1 DEF AppStarts, AddRefOfMount, AppDeleted, AppForced, JUmount, TypeOK
  <2>2. /\ app[t] \notin {"none", "live"} \/ t \in refs' => app'[t] \notin {"none", "live"}
        /\ app[t] \in {"forced", "gone"} => app'[t] \in {"forced", "gone"}
    BY <1>1 DEF AppStarts, AddRefOfMount, AppDeleted, AppForced, JUmount, TypeOK
  <2>3. refs \subseteq Targets /\ rec.refs \subseteq Targets
    BY RoundTypes DEF TypeOK
  <2> QED
    BY <2>1, <2>2, <2>3
<1>2. CASE Deliver \/ TimerFires
  BY <1>2 DEF Deliver, TimerFires
<1>3. CASE Tick
  <2>1. rec'.pc = rec.pc /\ rec'.refs = rec.refs /\ rec'.seen = rec.seen /\ UNCHANGED <<refs, app>>
    BY <1>3 DEF Tick, TypeOK, Rounds
  <2> QED
    BY <2>1
<1>4. CASE GetPod
  BY <1>4 DEF GetPod, NoRound
<1>5. CASE ListAppPod
  <2>1. PICK gone \in SUBSET {t \in Targets : app[t] = "gone"} :
          rec' = [rec EXCEPT !.pc = "run",
                             !.seen = gone \cup {t \in Targets : app[t] \in {"live", "bound", "term"}}]
    BY <1>5 DEF ListAppPod
  <2>2. rec'.refs = rec.refs /\ \A t \in Targets : app[t] \in {"bound", "term"} => t \in rec'.seen
    BY <2>1 DEF TypeOK, Rounds
  <2>3. UNCHANGED <<refs, app>> /\ rec.refs \subseteq Targets
    BY <1>5, RoundTypes DEF ListAppPod, TypeOK
  <2> QED
    BY <2>2, <2>3 DEF TypeOK
<1>6. CASE RunUsed \/ RunDelayed \/ RunDelete \/ ReconcileFails
  BY <1>6, <1>a DEF RunUsed, RunDelayed, RunDelete, ReconcileFails, Run
<1>7. CASE UNCHANGED vars
  BY <1>7 DEF vars
<1> QED
  BY <1>1, <1>2, <1>3, <1>4, <1>5, <1>6, <1>7 DEF Next, Apps, Round

\* A round of Reconcile acts on references of published application pods, and on none that
\* runs.
THEOREM RoundsAreSound == Spec => []RoundIsSound
<1>1. Init => RoundIsSound
  BY DEF Init, RoundIsSound, Stale, NoRound
<1> QED
  BY <1>1, SoundStep, TypeCorrect, PTL DEF Spec

\* What a round takes off the pod RefSet allows to be dropped.
LEMMA RunDrops ==
  ASSUME TypeOK, RoundIsSound, NEW exist, NEW delete, Run(exist, delete), refs' = refs \ Stale,
         UNCHANGED exists
  PROVE  RefSetOfPod!Next \/ UNCHANGED RefSetOfPod!vars
<1>1. UNCHANGED app /\ rec.pc = "run" /\ ~Conflict
  BY DEF Run
<1>2. CASE Stale = {}
  BY <1>1, <1>2 DEF RefSetOfPod!vars
<1>3. CASE Stale # {}
  <2>1. exists /\ Stale \subseteq refs
    BY <1>1, <1>3 DEF Conflict
  <2>2. Stale \subseteq Targets /\ \A t \in Stale : AppOf(app[t]) = "term"
    BY <1>1, <2>1 DEF RoundIsSound, TypeOK, AppOf
  <2>3. RefSetOfPod!Drop(Stale)
    BY <1>1, <2>1, <2>2 DEF RefSetOfPod!Drop
  <2> QED
    BY <2>2, <2>3 DEF RefSetOfPod!Next
<1> QED
  BY <1>2, <1>3

\* Every step is one of RefSet, or changes nothing that RefSet knows of.
LEMMA RefSetStep == TypeOK /\ RoundIsSound /\ [Next]_vars => [RefSetOfPod!Next]_(RefSetOfPod!vars)
<1> SUFFICES ASSUME TypeOK, RoundIsSound, [Next]_vars
             PROVE  RefSetOfPod!Next \/ UNCHANGED RefSetOfPod!vars
  OBVIOUS
<1> DEFINE Seen == [t \in Targets |-> AppOf(app[t])]
<1>1. ASSUME NEW t \in Targets, AppStarts(t) \/ AppDeleted(t) \/ AppForced(t)
      PROVE  RefSetOfPod!Next \/ UNCHANGED RefSetOfPod!vars
  <2>1. UNCHANGED <<exists, refs>> /\ app' = [app EXCEPT ![t] = app'[t]]
    BY <1>1 DEF AppStarts, AppDeleted, AppForced, TypeOK
  <2>2. Seen' = [Seen EXCEPT ![t] = AppOf(app'[t])]
    BY <2>1 DEF TypeOK
  <2>3. CASE app[t] = "none" /\ app'[t] = "live"
    <3>1. RefSetOfPod!AppMoves(t, "none", "live")
      BY <2>1, <2>2, <2>3 DEF RefSetOfPod!AppMoves, AppOf
    <3> QED
      BY <3>1 DEF RefSetOfPod!Next
  <2>4. CASE app[t] = "bound" /\ app'[t] \in {"term", "forced"}
    <3>1. RefSetOfPod!AppMoves(t, "live", "term")
      BY <2>1, <2>2, <2>4 DEF RefSetOfPod!AppMoves, AppOf
    <3> QED
      BY <3>1 DEF RefSetOfPod!Next
  <2>5. CASE app[t] = "term" /\ app'[t] = "forced"
    BY <2>1, <2>2, <2>5 DEF RefSetOfPod!vars, AppOf
  <2> QED
    BY <1>1, <2>3, <2>4, <2>5 DEF AppStarts, AppDeleted, AppForced, TypeOK
<1>2. ASSUME NEW t \in Targets, AddRefOfMount(t) PROVE RefSetOfPod!Next
  <2>1. Seen' = Seen /\ Seen[t] = "live"
    BY <1>2 DEF AddRefOfMount, TypeOK, AppOf
  <2>2. t \in RefSetOfPod!Known
    BY <2>1 DEF RefSetOfPod!Known
  <2>3. CASE exists
    <3>1. RefSetOfPod!AddRef(t, {})
      BY <1>2, <2>1, <2>2, <2>3 DEF AddRefOfMount, RefSetOfPod!AddRef
    <3> QED
      BY <3>1 DEF RefSetOfPod!Next
  <2>4. CASE ~exists
    <3>1. RefSetOfPod!Deploy({t})
      BY <1>2, <2>1, <2>2, <2>4 DEF AddRefOfMount, RefSetOfPod!Deploy, TypeOK
    <3> QED
      BY <3>1 DEF RefSetOfPod!Next
  <2> QED
    BY <2>3, <2>4 DEF TypeOK
<1>3. ASSUME NEW t \in Targets, JUmount(t) PROVE RefSetOfPod!Next \/ UNCHANGED RefSetOfPod!vars
  <2>1. Seen' = Seen /\ Seen[t] = "term" /\ UNCHANGED exists /\ refs' = refs \ {t}
    BY <1>3 DEF JUmount, TypeOK, AppOf
  <2>2. CASE t \in refs
    <3>1. RefSetOfPod!Drop({t})
      BY <2>1, <2>2 DEF RefSetOfPod!Drop, TypeOK
    <3> QED
      BY <3>1 DEF RefSetOfPod!Next
  <2>3. CASE t \notin refs
    BY <2>1, <2>3 DEF RefSetOfPod!vars
  <2> QED
    BY <2>2, <2>3
<1>4. CASE Deliver \/ TimerFires \/ Tick \/ GetPod \/ ListAppPod \/ ReconcileFails \/ UNCHANGED vars
  BY <1>4 DEF Deliver, TimerFires, Tick, GetPod, ListAppPod, ReconcileFails, vars, RefSetOfPod!vars
<1>5. CASE RunUsed \/ RunDelayed
  BY <1>5, RunDrops DEF RunUsed, RunDelayed
<1>6. CASE RunDelete
  <2>1. Run(FALSE, TRUE) /\ exists /\ refs' = refs \ Stale /\ UNCHANGED app
    BY <1>6 DEF RunDelete, Run
  <2>2. CASE refs = Stale
    <3>1. RefSetOfPod!Remove
      BY <1>6, <2>1, <2>2 DEF RunDelete, RefSetOfPod!Remove
    <3> QED
      BY <3>1 DEF RefSetOfPod!Next
  <2>3. CASE refs # Stale
    BY <1>6, <2>1, <2>3, RunDrops DEF RunDelete
  <2> QED
    BY <2>2, <2>3
<1> QED
  BY <1>1, <1>2, <1>3, <1>4, <1>5, <1>6 DEF Next, Apps, Round

\* The pod manager that watches the API server, with its delayed deletions, implements the
\* same abstract reference set as the calls of MountPod.
THEOREM Refinement == Spec => ImplementsRefSet
<1>1. Init => RefSetOfPod!Init
  BY DEF Init, RefSetOfPod!Init, AppOf
<1> QED
  BY <1>1, TypeCorrect, RoundsAreSound, RefSetStep, PTL DEF Spec, ImplementsRefSet, RefSetOfPod!Spec

-----------------------------------------------------------------------------
(* The delay.                                                              *)

\* What the delay comes to: the time of the deletion is written as local time and read
\* as UTC, so west of Greenwich it is shorter by the zone.
ShortestDelay == IF Zone >= 0 THEN Delay ELSE GetTimeAfterDelay

\* The time of the deletion stands on an unused pod only, and the time left and the time
\* it has been unused make up the delay.
AtIsOfUnused ==
  ~raced /\ at # None => exists /\ refs = {} /\ at + idle >= ShortestDelay

\* A round knows the time of the deletion and every reference, if no publish raced it.
RoundIsFresh ==
  ~raced /\ rec.pc # "idle" => rec.at = at /\ refs \subseteq rec.refs

DelayInv == AtIsOfUnused /\ RoundIsFresh

\* The zone, if it is not to the west, only adds to the delay.
LEMMA DelayBounds ==
  /\ ShortestDelay \in Nat /\ ShortestDelay <= Delay /\ ShortestDelay <= GetTimeAfterDelay
  BY DelayAssumption DEF ShortestDelay, GetTimeAfterDelay, Clamp

\* A round that finds no application pod takes every reference off that it has read.
LEMMA RunKnows ==
  ASSUME TypeOK, DelayInv, ~raced, NEW exist, NEW delete, Run(exist, delete)
  PROVE  /\ rec.at = at
         /\ ~exist => refs \ Stale = {}
  BY DEF Run, DelayInv, RoundIsFresh, ExistTargets, Stale

\* Every step keeps the two.
LEMMA DelayStep == TypeOK /\ DelayInv /\ [Next]_vars => DelayInv'
<1> SUFFICES ASSUME TypeOK, DelayInv, [Next]_vars, ~raced' PROVE DelayInv'
  BY DEF DelayInv, AtIsOfUnused, RoundIsFresh
<1> USE DEF DelayInv, AtIsOfUnused, RoundIsFresh
<1>1. CASE Apps
  <2> SUFFICES ASSUME NEW t \in Targets,
                      AppStarts(t) \/ AddRefOfMount(t) \/ AppDeleted(t) \/ AppForced(t) \/ JUmount(t)
               PROVE  DelayInv'
    BY <1>1 DEF Apps
  <2>1. CASE AppStarts(t) \/ AppDeleted(t) \/ AppForced(t)
    BY <2>1 DEF AppStarts, AppDeleted, AppForced
  <2>2. CASE AddRefOfMount(t)
    BY <2>2 DEF AddRefOfMount
  <2>3. CASE JUmount(t)
    BY <2>3 DEF JUmount
  <2> QED
    BY <2>1, <2>2, <2>3
<1>2. CASE Deliver \/ TimerFires
  BY <1>2 DEF Deliver, TimerFires
<1>3. CASE Tick
  <2>1. RoundIsFresh'
    BY <1>3 DEF Tick, TypeOK, Rounds
  <2>2. ASSUME at' # None PROVE exists' /\ refs' = {} /\ at' + idle' >= ShortestDelay
    <3>1. at # None /\ at \in Nat /\ at' = Clamp(at - 1)
      BY <1>3, <2>2, TimesLeft DEF Tick, Left, TypeOK, Times
    <3>2. exists /\ refs = {} /\ at + idle >= ShortestDelay
      BY <1>3, <3>1 DEF Tick
    <3>3. CASE idle < Delay
      BY <1>3, <3>1, <3>2, <3>3, DelayBounds, DelayAssumption DEF Tick, Clamp, TypeOK
    <3>4. CASE idle = Delay
      BY <1>3, <3>1, <3>2, <3>4, DelayBounds, DelayAssumption DEF Tick, Clamp, TypeOK
    <3> QED
      BY <3>3, <3>4, DelayAssumption DEF TypeOK
  <2> QED
    BY <2>1, <2>2
<1>4. CASE GetPod
  BY <1>4 DEF GetPod, NoRound
<1>5. CASE ListAppPod
  <2>1. PICK seen : rec' = [rec EXCEPT !.pc = "run", !.seen = seen]
    BY <1>5 DEF ListAppPod
  <2> QED
    BY <1>5, <2>1 DEF ListAppPod, TypeOK, Rounds
<1>6. CASE RunUsed
  <2>1. rec' = NoRound /\ ~raced
    BY <1>6 DEF RunUsed, Run
  <2>2. at' = None
    BY <1>6, <2>1, RunKnows DEF RunUsed, Run, DelAt
  <2> QED
    BY <2>1, <2>2 DEF NoRound
<1>7. CASE RunDelayed
  <2>1. rec' = NoRound /\ ~raced
    BY <1>7 DEF RunDelayed, Run
  <2>2. refs' = {} /\ rec.at = at
    BY <1>7, <2>1, RunKnows DEF RunDelayed
  <2>3. CASE at = None
    <3>1. exists /\ at' = GetTimeAfterDelay /\ UNCHANGED <<exists, idle>>
      BY <1>7, <2>2, <2>3 DEF RunDelayed
    <3>2. at' + idle' >= ShortestDelay
      BY <3>1, TimesLeft, DelayBounds, DelayAssumption DEF TypeOK
    <3> QED
      BY <2>1, <2>2, <3>1, <3>2 DEF NoRound
  <2>4. CASE at # None
    BY <1>7, <2>1, <2>2, <2>4 DEF RunDelayed, NoRound
  <2> QED
    BY <2>3, <2>4
<1>8. CASE RunDelete
  <2>1. rec' = NoRound /\ ~raced
    BY <1>8 DEF RunDelete, Run
  <2>2. refs \ Stale = {}
    BY <1>8, <2>1, RunKnows DEF RunDelete
  <2> QED
    BY <1>8, <2>1, <2>2 DEF RunDelete, NoRound
<1>9. CASE ReconcileFails
  BY <1>9 DEF ReconcileFails, NoRound
<1>10. CASE UNCHANGED vars
  BY <1>10 DEF vars
<1> QED
  BY <1>1, <1>2, <1>3, <1>4, <1>5, <1>6, <1>7, <1>8, <1>9, <1>10 DEF Next, Round

\* They hold of every behaviour.
LEMMA DelayInvariant == Spec => []DelayInv
<1>1. Init => DelayInv
  BY DEF Init, DelayInv, AtIsOfUnused, RoundIsFresh, NoRound
<1> QED
  BY <1>1, DelayStep, TypeCorrect, PTL DEF Spec

\* The pod goes in RunDelete only.
LEMMA DeletedByRun == TypeOK /\ [Next]_vars /\ exists /\ ~exists' => RunDelete
<1> SUFFICES ASSUME TypeOK, [Next]_vars, exists, ~exists', ~RunDelete PROVE FALSE
  OBVIOUS
<1>1. CASE Apps
  BY <1>1 DEF Apps, AppStarts, AddRefOfMount, AppDeleted, AppForced, JUmount
<1>2. CASE Deliver \/ TimerFires \/ Tick
  BY <1>2 DEF Deliver, TimerFires, Tick
<1>3. CASE Round
  BY <1>3 DEF Round, GetPod, ListAppPod, RunUsed, RunDelayed, ReconcileFails
<1> QED
  BY <1>1, <1>2, <1>3 DEF Next, vars

\* In whatever zone the plugin runs, its mount pod is deleted after it has been unused
\* for what the delay comes to there, unless a publish fell into the round.
THEOREM DeletedAfterShortestDelay ==
  Spec => [][exists /\ ~exists' => raced \/ idle >= ShortestDelay]_vars
<1>1. TypeOK /\ DelayInv /\ [Next]_vars =>
        [exists /\ ~exists' => raced \/ idle >= ShortestDelay]_vars
  <2> SUFFICES ASSUME TypeOK, DelayInv, [Next]_vars, exists, ~exists', ~raced
               PROVE  idle >= ShortestDelay
    OBVIOUS
  <2>1. Run(FALSE, TRUE)
    BY DeletedByRun DEF RunDelete
  <2>2. at = 0
    BY <2>1, RunKnows DEF Run
  <2>3. at + idle >= ShortestDelay
    BY <2>2, DelayAssumption DEF DelayInv, AtIsOfUnused
  <2> QED
    BY <2>2, <2>3, DelayAssumption, DelayBounds DEF TypeOK
<1> QED
  BY <1>1, TypeCorrect, DelayInvariant, PTL DEF Spec

\* Where local time is not behind UTC, the deletion waits for the whole delay: for every
\* delay, any targets and any failing calls.
THEOREM WholeDelayWaited == Zone >= 0 => (Spec => DeletedAfterDelay)
<1>1. CASE Zone >= 0
  <2>1. TypeOK /\ [exists /\ ~exists' => raced \/ idle >= ShortestDelay]_vars =>
          [exists /\ ~exists' => raced \/ idle = Delay]_vars
    BY <1>1, DelayAssumption DEF TypeOK, ShortestDelay, vars
  <2> QED
    BY <2>1, TypeCorrect, DeletedAfterShortestDelay, PTL DEF DeletedAfterDelay
<1> QED
  BY <1>1

=============================================================================
