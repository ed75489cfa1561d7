------------------------------- MODULE MCLlist -------------------------------
EXTENDS Llist, TLC
Symmetry == Permutations(Nodes)
=============================================================================
