----------------------------- MODULE MCFdTable -----------------------------
EXTENDS FdTable, TLC

Symmetry == Permutations(File) \cup Permutations(Task \ Lone)
=============================================================================
