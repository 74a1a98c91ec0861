-------------------------------- MODULE MCIpc --------------------------------
EXTENDS Ipc
CONSTANTS c1, c2, c3
Symmetry == Permutations(Calls)
=============================================================================
