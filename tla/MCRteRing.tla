----------------------------- MODULE MCRteRing -----------------------------
EXTENDS RteRing, TLC
Symmetry == Permutations(Producers) \cup Permutations(Consumers) \cup Permutations(Items)
=============================================================================
