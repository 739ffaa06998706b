------------------------- MODULE MCSessionReconciler -------------------------
EXTENDS SessionReconciler, TLC

Symmetry == Permutations(Keys) \cup Permutations(IPs)
=============================================================================
