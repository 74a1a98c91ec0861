----------------------------- MODULE MCRingBuf -----------------------------
EXTENDS RingBuf, TLC
CONSTANTS w1, r1, r2
Symmetry == Permutations(Readers)
=============================================================================
