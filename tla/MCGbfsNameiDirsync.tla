------------------------- MODULE MCGbfsNameiDirsync -------------------------
(***************************************************************************)
(* gbfs mounted dirsync, where committing a directory page may fail in at  *)
(* most MaxFaults operations.                                              *)
(***************************************************************************)
EXTENDS MCGbfsNamei

CONSTANT MaxFaults      \* bound: the operations whose commit fails

EIO == 5

VARIABLE faults         \* how many have failed

DirsyncInit == Init /\ faults = 0

FailingStep ==
    /\ faults < MaxFaults
    /\ faults' = faults + 1
    /\ \E d \in Ino, nm \in Name, bad \in ReadFaults : NextNames(d, nm, bad, EIO)

DirsyncNext == FailingStep \/ (Next /\ UNCHANGED faults)

DirsyncSpec == DirsyncInit /\ [][DirsyncNext]_<<vars, faults>>
-----------------------------------------------------------------------------
\* A count past s_max_links has wrapped below zero.
Signed(n) == IF n <= LinkMax THEN n ELSE n - LinkMod

\* Links are refused in time, and a commit that fails, which may leave a slot
\* without a link or a link without a slot, puts a count wrong by one: it never
\* is further from the slots that refer to the inode than commits have failed,
\* whatever is looked up, renamed and removed afterwards.
LinkCountWithin ==
    \A i \in Ino :
        LET slots == Cardinality(References(i)) + (IF i = Root THEN 2 ELSE 0)
        IN  Signed(nlink[i]) \in slots - faults .. slots + faults
=============================================================================
