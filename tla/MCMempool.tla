----------------------------- MODULE MCMempool -----------------------------
EXTENDS Mempool, TLC
Symmetry == Permutations(Lcores) \cup Permutations(Objs)
=============================================================================
