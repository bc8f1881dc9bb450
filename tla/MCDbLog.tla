------------------------------ MODULE MCDbLog ------------------------------
EXTENDS DbLog, TLC

\* For the runs that check no liveness: the tasks that only commit.
Symmetry == Permutations(Task \ Updaters)
=============================================================================
