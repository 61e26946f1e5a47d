----------------------------- MODULE MCMountPod -----------------------------
EXTENDS MountPod, TLC

Symmetry == Permutations(Targets)

=============================================================================
