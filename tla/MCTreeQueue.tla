----------------------------- MODULE MCTreeQueue -----------------------------
EXTENDS TreeQueue, TLC
Symmetry == Permutations(Node)
=============================================================================
