------------------------------ MODULE GbfsDir ------------------------------
(***************************************************************************)
(* The directory format of gbfs and the operations of fs/dir.c on it.      *)
(*                                                                         *)
(* A directory is the sequence of its 64-byte slots below i_size: slot k   *)
(* lies at byte 64 * (k - 1), so Len(es) * 64 is the directory's i_size.   *)
(* A slot whose ino is 0 is free (its stale name is never read).  The      *)
(* slots lie in pages of PageSlots slots; an operator takes the set `bad'  *)
(* of the pages of this directory whose read fails (dir_get_page returns   *)
(* an error), and each loop of the code treats those in its own way.       *)
(***************************************************************************)
EXTENDS Naturals, Sequences, FiniteSetsExt

CONSTANT PageSlots      \* slots in a page: PAGE_SIZE / s_dirsize

ASSUME PageSlotsAssumption == PageSlots \in Nat /\ PageSlots >= 2

Dot    == "."
DotDot == ".."

\* gbfs_dirent: the inode number and the name of one slot.
Slot(i, nm) == [ino |-> i, name |-> nm]

\* The page a slot lies in: pos >> PAGE_SHIFT.
PageOf(k) == (k - 1) \div PageSlots

-----------------------------------------------------------------------------
(***************************************************************************)
(* Searching                                                               *)
(***************************************************************************)

\* Mutant: the last slot is not looked at (p < limit).
MatchesButLast(es, nm, bad) ==
    {k \in DOMAIN es : /\ PageOf(k) \notin bad
                       /\ k # Len(es)
                       /\ es[k].ino # 0
                       /\ es[k].name = nm}

\* The slots gbfs_find_entry stops at: it skips the pages it cannot read
\* and the free slots, and compares the name of the others.
Matches(es, nm, bad) ==
    {k \in DOMAIN es : /\ PageOf(k) \notin bad
                       /\ es[k].ino # 0
                       /\ es[k].name = nm}

\* The slot found, or 0 (NULL).
FindEntry(es, nm, bad) ==
    IF Matches(es, nm, bad) = {} THEN 0 ELSE Min(Matches(es, nm, bad))

\* The inode number found, or 0.
InodeByName(es, nm, bad) ==
    LET k == FindEntry(es, nm, bad) IN IF k = 0 THEN 0 ELSE es[k].ino

\* gbfs_dotdot takes the second slot of page 0, unseen; 0 is NULL.
DotDotSlot(bad) == IF 0 \in bad THEN 0 ELSE 2

\* Mutant: only the first page is searched.
EmptyFirstPage(es, self, bad) ==
    \A k \in DOMAIN es :
        \/ PageOf(k) # 0
        \/ es[k].ino = 0
        \/ es[k].name = Dot /\ es[k].ino = self
        \/ es[k].name = DotDot

\* gbfs_empty_dir: no readable slot holds anything but "." (naming the
\* directory itself) and "..".
EmptyDir(es, self, bad) ==
    \A k \in DOMAIN es :
        \/ PageOf(k) \in bad
        \/ es[k].ino = 0
        \/ es[k].name = Dot /\ es[k].ino = self
        \/ es[k].name = DotDot

-----------------------------------------------------------------------------
(***************************************************************************)
(* Changing                                                                *)
(***************************************************************************)

\* The slots the loop of gbfs_add_link can stop at: the first one of an
\* unreadable page, the end of the directory (dir_end), a free slot, or one
\* that has the name.
Stops(es, nm, bad) ==
    {k \in 1 .. Len(es) + 1 : \/ PageOf(k) \in bad
                              \/ k = Len(es) + 1
                              \/ es[k].ino = 0
                              \/ es[k].name = nm}

\* The slot gbfs_add_link takes, or 0 when it returns -EIO or -EEXIST.
AddSlot(es, nm, bad) ==
    LET k == Min(Stops(es, nm, bad))
    IN  IF \/ PageOf(k) \in bad
           \/ k <= Len(es) /\ es[k].ino # 0
        THEN 0
        ELSE k

\* Mutant: a free slot keeps its old name.
FillSlotOldName(es, k, nm, i) ==
    IF k = Len(es) + 1 THEN Append(es, Slot(i, nm))
                       ELSE [es EXCEPT ![k] = Slot(i, @.name)]

\* Mutant: the slot's number is stored for the inode's.
FillSlotNumber(es, k, nm, i) ==
    IF k = Len(es) + 1 THEN Append(es, Slot(k, nm))
                       ELSE [es EXCEPT ![k] = Slot(k, nm)]

\* The directory after gbfs_add_link has filled slot k, which may be the one
\* just past i_size.
FillSlot(es, k, nm, i) ==
    IF k = Len(es) + 1 THEN Append(es, Slot(i, nm))
                       ELSE [es EXCEPT ![k] = Slot(i, nm)]

\* gbfs_delete_entry and gbfs_set_link: the slot's inode number is replaced.
SetLink(es, k, i)  == [es EXCEPT ![k] = Slot(i, @.name)]
DeleteEntry(es, k) == SetLink(es, k, 0)

\* gbfs_make_empty: the first page of a new directory.
MakeEmpty(self, parent) == << Slot(self, Dot), Slot(parent, DotDot) >>

-----------------------------------------------------------------------------
\* Two slots in use have different names.
Unique(es) ==
    \A j, k \in DOMAIN es :
        es[j].ino # 0 /\ es[k].ino # 0 /\ es[j].name = es[k].name => j = k
=============================================================================
