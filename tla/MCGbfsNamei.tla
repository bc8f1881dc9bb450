---------------------------- MODULE MCGbfsNamei ----------------------------
EXTENDS GbfsNameiProps, TLC

NameSymmetry == Permutations(Name)

\* No page read fails.
NoReadFaults == {{}}

\* During an operation the second page of the root, or of the first
\* directory made, may fail to be read.
SomeReadFaults == {{}, {<<Root, 0>>}, {<<FirstIno, 1>>}}

\* No commit fails, as on a file system that is not mounted dirsync.
NoCommitFaults == {0}
=============================================================================
