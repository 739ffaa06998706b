------------------------- MODULE MCSessionLifecycle --------------------------
EXTENDS SessionLifecycle, FiniteSets, TLC

\* Informers deliver at once: a bound for the runs that are not about them.
PromptInformers ==
    (cSession # session \/ cPod # pod) => (cSession' # cSession \/ cPod' # cPod)

\* Bound: with more than two kinds of disturbance, tokens for one key and its first Session.
SmallWhenFaulty ==
    Cardinality(faults) > 2 =>
        uid' <= 1 /\ Cardinality({mint'[t] : t \in Tokens} \ {None}) <= 1

\* Keys are treated alike, and a fresh token is any of those left.
Symmetry == Permutations(Keys) \cup Permutations(Tokens)
=============================================================================
