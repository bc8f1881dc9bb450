--------------------------- MODULE GbfsStoreProps ---------------------------
(***************************************************************************)
(* What the caches and the database of gbfs must keep of a file.           *)
(***************************************************************************)
EXTENDS GbfsStore

\* What a reader would be given now.
RawOf(i)     == IF Cached(i) THEN inode[i] ELSE rec[i]
DataOf(i, p) == IF page[i][p] # Uncached THEN page[i][p] ELSE stored[i][p]

\* Block o of page p begins within the first n blocks of a file.
Within(p, o, n) == p * PageBlocks + o <= n

\* An inode that has names is in use and its link count is their number,
\* whether it is read from memory or, after any write-back, eviction, unmount
\* and mount, from the database.
LinksKept ==
    \A i \in Ino : names[i] > 0 =>
        RawOf(i).mode = 1 /\ RawOf(i).nlinks = names[i]

\* Once a deleted inode has left the cache its raw inode is cleared on disk,
\* and no late write-back brings it to life again.
DeletedCleared ==
    \A i \in Ino : names[i] = 0 /\ ~Cached(i) =>
        rec[i].mode = 0 /\ rec[i].nlinks = 0

\* The inductive invariant that LinksKept and DeletedCleared rest on when no
\* get or put fails: memory always has the right count, and so has the
\* database unless the inode is marked dirty.
CountRight(i) ==
    /\ Cached(i) => inode[i].mode = 1 /\ inode[i].nlinks = names[i]
    /\ i \notin dirty =>
          /\ rec[i].nlinks = names[i]
          /\ rec[i].mode = IF names[i] > 0 \/ Cached(i) THEN 1 ELSE 0
    /\ i \in dirty \cup held => Cached(i)
    /\ Cached(i) => mounted
    /\ i >= nextino => names[i] = 0 /\ ~Cached(i)

LinkInv == \A i \in Ino : CountRight(i)

\* Dirty pages are in memory, and pages only while their inode is.
PageInv ==
    \A i \in Ino, p \in Page :
        /\ <<i, p>> \in pdirty => page[i][p] # Uncached
        /\ page[i][p] # Uncached => Cached(i)

-----------------------------------------------------------------------------
(***************************************************************************)
(* Two things gbfs does not store, as history: they record what a step has *)
(* left unwritten, and constrain no step.                                  *)
(***************************************************************************)
VARIABLES
    cut,        \* blocks <<i, p, o>> setattr has zeroed in a clean page only
    lag         \* inodes whose size a write has moved without marking them dirty

histvars == <<vars, cut, lag>>

CleanPage(i, p) == page[i][p] # Uncached /\ <<i, p>> \notin pdirty

\* What this step, if it is a Setattr, cuts off.
CutOff == {c \in Ino \X Page \X Block :
               \E n \in Size : ~Within(c[2], c[3], n) /\ Setattr(c[1], n)}

\* The file whose size this step, if it is a Write, moves.
Grown == {i \in Ino : \E p \in Page, v \in Val : \E f \in Block : \E l \in f .. PageBlocks :
              Write(i, p, f, l, v) /\ inode'[i].size # inode[i].size}

HistInit == Init /\ cut = {} /\ lag = {}

\* Marking the page or the inode dirty puts the omission right; leaving memory
\* brings the stored state back.
HistNext ==
    /\ Next
    /\ cut' = {c \in cut \cup CutOff : CleanPage(c[1], c[2])'}
    /\ lag' = {i \in lag \cup Grown : Cached(i)' /\ i \notin dirty'}

HistSpec == HistInit /\ [][HistNext]_histvars

\* A page in memory that is clean is the one in the database, but for what
\* setattr has cut off.
CleanStored ==
    \A i \in Ino, p \in Page : CleanPage(i, p) =>
        \A o \in Block : <<i, p, o>> \in cut \/ page[i][p][o] = stored[i][p][o]

\* An inode in memory that is clean has the size in the database, unless a
\* write has moved it.  DataKept rests on both.
SizeStored ==
    \A i \in Ino : Cached(i) /\ i \notin dirty \cup lag => rec[i].size = inode[i].size

\* What a step leaves of the files that have names: all, with two exceptions,
\* the size if a write has moved it without marking the inode dirty, and
\* blocks a smaller size has cut off without marking their page dirty.
FilesKept ==
    \A i \in Ino : names[i] > 0 =>
        /\ i \notin lag => RawOf(i)'.size = RawOf(i).size
        /\ \A p \in Page, o \in Block :
              /\ Within(p, o, RawOf(i).size) /\ Within(p, o, RawOf(i)'.size)
              /\ <<i, p, o>> \notin cut
              => DataOf(i, p)'[o] = DataOf(i, p)[o]

\* Write-back, reclaim, eviction, reading, unmounting and mounting change
\* neither the size of a file nor what is read from it, but for what gbfs has
\* left unwritten (lag, cut).
DataKept == [][Background => FilesKept]_vars

\* A write changes the blocks it was given, and no other block of the file.
WriteKeepsRest ==
    [][\A i \in Ino, p \in Page, v \in Val : \A f \in Block : \A l \in f .. PageBlocks :
        Write(i, p, f, l, v) =>
            \A q \in Page, o \in Block : Within(q, o, inode[i].size) =>
                \/ q = p /\ o \in f .. l
                \/ DataOf(i, q)'[o] = DataOf(i, q)[o]]_vars
=============================================================================
