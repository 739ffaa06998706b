--------------------------- MODULE MCWrapperChild ----------------------------
EXTENDS WrapperChild, TLC

Symmetry == Permutations(Calls) \cup Permutations(ChildTokens)
=============================================================================
