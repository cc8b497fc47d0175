-------------------------------- MODULE MCgc --------------------------------
EXTENDS MalangGCInv, TLC
NodeSymmetry == Permutations(Node)
=============================================================================
