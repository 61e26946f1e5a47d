------------------------------ MODULE MCWarmup ------------------------------
(* Pods for TLC: one uses the claim between another claim and another kind  *)
(* of volume, one the claim alone.                                          *)
EXTENDS Warmup, TLC

CONSTANTS p1, p2, n1, n2

MixedVolumes == (p1 :> <<"otherClaim", "claim", "other">>) @@ (p2 :> <<"claim">>)

EachItsNode == (p1 :> n1) @@ (p2 :> n2)

=============================================================================
