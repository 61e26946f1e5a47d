------------------------- MODULE MCControllerService -------------------------
EXTENDS ControllerService, TLC

CONSTANTS v1, v2, v3, s1, s2, c1, c2

\* Which volume a snapshot is of, and what a volume is created from.
TwoSnapsOf1 == s1 :> v1 @@ s2 :> v1
OneSnapOf1  == s1 :> v1
NoSnaps     == <<>>
FromSnap    == v1 :> NoSource @@ v2 :> s1
OneVol      == v1 :> NoSource
ThreeVols   == v1 :> NoSource @@ v2 :> NoSource @@ v3 :> NoSource

Symmetry == Permutations(Slots)

=============================================================================
