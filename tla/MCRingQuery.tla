---------------------------- MODULE MCRingQuery ----------------------------
EXTENDS RingQuery, TLC
Symmetry == Permutations(Producers) \cup Permutations(Items)
=============================================================================
