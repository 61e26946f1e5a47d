------------------------ MODULE ReconcileRoundProofs ------------------------
(***************************************************************************)
(* Proofs about ReconcileRound, for every set of mount pods, every longest *)
(* back-off and every delay between two rounds.                            *)
(***************************************************************************)
EXTENDS ReconcileRound, TLAPS

\* A back-off stays within maxRetryPeriod when it doubles.
LEMMA NextBackOffBound ==
  ASSUME NEW b \in 0..MaxRetryPeriod
  PROVE  NextBackOff(b) \in 1..MaxRetryPeriod
  BY BoundsAssumption DEF NextBackOff

\* The goroutines, the errors and the back-offs keep their types.
LEMMA TypeStep == TypeOK /\ [Next]_vars => TypeOK'
<1> SUFFICES ASSUME TypeOK, [Next]_vars PROVE TypeOK'
  OBVIOUS
<1> USE DEF TypeOK
<1>1. CASE List \/ Wait
  BY <1>1 DEF List, Wait
<1>2. CASE ListFails \/ RoundTimesOut
  BY <1>2, BoundsAssumption DEF ListFails, RoundTimesOut
<1>3. CASE Sleep
  <2>1. PICK d \in 1..MaxLag :
          /\ backoff' = [p \in Pods |-> IF Expired(p, d) THEN 0 ELSE backoff[p]]
          /\ since' = [p \in Pods |-> IF Expired(p, d) \/ backoff[p] = 0 THEN 0 ELSE since[p] + d]
    BY <1>3 DEF Sleep
  <2>2. \A p \in Pods : ~Expired(p, d) => since[p] + d \in 0..2 * MaxRetryPeriod
    BY BoundsAssumption DEF Expired
  <2>3. since' \in [Pods -> 0..2 * MaxRetryPeriod]
    BY <2>1, <2>2, BoundsAssumption
  <2>4. backoff' \in [Pods -> 0..MaxRetryPeriod]
    BY <2>1, BoundsAssumption
  <2> QED
    BY <1>3, <2>3, <2>4 DEF Sleep
<1>4. ASSUME NEW p \in Pods, Start(p) \/ ReturnErr(p) PROVE TypeOK'
  BY <1>4 DEF Start, ReturnErr
<1>5. ASSUME NEW p \in Pods, Run(p) PROVE TypeOK'
  BY <1>5 DEF Run
<1>6. ASSUME NEW p \in Pods, Check(p) PROVE TypeOK'
  <2>1. NextBackOff(backoff[p]) \in 0..MaxRetryPeriod
    BY NextBackOffBound, BoundsAssumption
  <2>2. backoff' \in [Pods -> 0..MaxRetryPeriod]
    BY <1>6, <2>1, BoundsAssumption DEF Check
  <2>3. since' \in [Pods -> 0..2 * MaxRetryPeriod]
    BY <1>6, BoundsAssumption DEF Check
  <2>4. g' \in [Pods -> {"new", "running", "ran", "failed", "end"}]
    BY <1>6 DEF Check
  <2> QED
    BY <1>6, <2>2, <2>3, <2>4 DEF Check
<1>7. ASSUME NEW p \in Pods, PodChanges(p) PROVE TypeOK'
  BY <1>7 DEF PodChanges
<1>8. CASE UNCHANGED vars
  BY <1>8 DEF vars
<1> QED
  BY <1>1, <1>2, <1>3, <1>4, <1>5, <1>6, <1>7, <1>8 DEF Next, Goroutine

\* g.Wait keeps the rounds apart.
LEMMA RoundStep == TypeOK /\ RoundsApart /\ [Next]_vars => RoundsApart'
<1> SUFFICES ASSUME TypeOK, RoundsApart, [Next]_vars PROVE RoundsApart'
  OBVIOUS
<1> USE DEF TypeOK, RoundsApart
<1>1. CASE List \/ ListFails \/ RoundTimesOut \/ Wait \/ Sleep
  BY <1>1 DEF List, ListFails, RoundTimesOut, Wait, Sleep
<1>2. ASSUME NEW p \in Pods, Goroutine(p) PROVE RoundsApart'
  <2>1. g[p] # "end" /\ UNCHANGED round
    BY <1>2 DEF Goroutine, Start, Run, Check, ReturnErr
  <2> QED
    BY <2>1
<1>3. ASSUME NEW p \in Pods, PodChanges(p) PROVE RoundsApart'
  BY <1>3 DEF PodChanges
<1>4. CASE UNCHANGED vars
  BY <1>4 DEF vars
<1> QED
  BY <1>1, <1>2, <1>3, <1>4 DEF Next

\* The initial state of doReconcile.
LEMMA InitTypes == Init => TypeOK /\ RoundsApart
<1> SUFFICES ASSUME Init PROVE TypeOK /\ RoundsApart
  OBVIOUS
<1>1. faults \in 0..MaxFaults /\ 0 \in 0..MaxRetryPeriod /\ 0 \in 0..2 * MaxRetryPeriod
  BY BoundsAssumption DEF Init
<1> QED
  BY <1>1 DEF Init, TypeOK, RoundsApart

-----------------------------------------------------------------------------
(* The theorems.                                                           *)

\* No mount pod is left out for longer than maxRetryPeriod at a time, and every variable has
\* its type.
THEOREM TypeCorrect == Spec => []TypeOK
  BY InitTypes, TypeStep, PTL DEF Spec

\* No goroutine of doReconcile outlives its round.
THEOREM NoOverlap == Spec => []RoundsApart
  BY InitTypes, TypeStep, RoundStep, PTL DEF Spec

=============================================================================
