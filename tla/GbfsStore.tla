----------------------------- MODULE GbfsStore -----------------------------
(***************************************************************************)
(* The persistence of gbfs: raw inodes and pages are records of one        *)
(* database (fs/inode.c, fs/bitmap.c), and the kernel's inode cache and    *)
(* page cache stand in front of it.                                        *)
(*                                                                         *)
(* Operations change the caches; records change when the flusher, fsync,   *)
(* unmount or the last iput of a deleted inode writes them, one DB->put    *)
(* each.  All of these interleave.  Which names exist is kept apart        *)
(* (module GbfsNamei): here names[i] only counts them, so that what the    *)
(* caches and the database say of an inode has something to agree with.    *)
(*                                                                         *)
(* A page consists of PageBlocks blocks, the parts a write or a size can   *)
(* distinguish; sizes are counted in blocks.                               *)
(***************************************************************************)
EXTENDS Integers, FiniteSets

CONSTANTS
    MaxIno,         \* bound: the last inode number handed out
    MaxNames,       \* bound: the names an inode has at once
    Pages,          \* bound: the pages of the largest file
    PageBlocks,     \* blocks in a page
    Val,            \* what can be written into a block
    DbErrors,       \* what DB->put and DB->get may return; 0 is success
    Uncached        \* stands for an inode or a page that is not in memory

FirstIno == 5                       \* where gbfs_new_inode starts counting
Ino   == FirstIno .. MaxIno
Page  == 0 .. Pages - 1
Block == 1 .. PageBlocks
Size  == 0 .. Pages * PageBlocks

Data     == [Block -> Val \cup {0}]
Zeroes   == [o \in Block |-> 0]
Raw(m, n, s) == [mode |-> m, nlinks |-> n, size |-> s]
RawInode == [mode : {0, 1}, nlinks : 0 .. MaxNames, size : Size]

ASSUME StoreAssumption ==
    /\ MaxIno \in Nat /\ MaxIno >= FirstIno
    /\ MaxNames \in Nat \ {0}
    /\ Pages \in Nat \ {0} /\ PageBlocks \in Nat \ {0}
    /\ 0 \notin Val
    /\ DbErrors \subseteq Int /\ 0 \in DbErrors
    /\ Uncached \notin RawInode /\ Uncached \notin Data

VARIABLES
    rec,        \* rec[i]: the raw inode in the database, zeroes if there is none
    stored,     \* stored[i][p]: the page in the database, zeroes if there is none
    inode,      \* inode[i]: the inode in memory
    page,       \* page[i][p]: the page in memory, if it is up to date
    dirty,      \* the inodes marked dirty
    pdirty,     \* the pages marked dirty
    names,      \* names[i]: how many names inode i has
    held,       \* the inodes open files refer to
    mounted,
    nextino     \* gbfs_new_inode's static counter

vars == <<rec, stored, inode, page, dirty, pdirty, names, held, mounted,
          nextino>>

TypeOK ==
    /\ rec     \in [Ino -> RawInode]
    /\ stored  \in [Ino -> [Page -> Data]]
    /\ inode   \in [Ino -> RawInode \cup {Uncached}]
    /\ page    \in [Ino -> [Page -> Data \cup {Uncached}]]
    /\ dirty   \subseteq Ino
    /\ pdirty  \subseteq Ino \X Page
    /\ names   \in [Ino -> 0 .. MaxNames]
    /\ held    \subseteq Ino
    /\ mounted \in BOOLEAN
    /\ nextino \in FirstIno .. MaxIno + 1

\* A new database, just mounted: every raw inode reads as zeroes.
Init ==
    /\ rec     = [i \in Ino |-> Raw(0, 0, 0)]
    /\ stored  = [i \in Ino |-> [p \in Page |-> Zeroes]]
    /\ inode   = [i \in Ino |-> Uncached]
    /\ page    = [i \in Ino |-> [p \in Page |-> Uncached]]
    /\ dirty   = {}
    /\ pdirty  = {}
    /\ names   = [i \in Ino |-> 0]
    /\ held    = {}
    /\ mounted = TRUE
    /\ nextino = FirstIno

Cached(i)    == inode[i] # Uncached
NoPages      == [p \in Page |-> Uncached]
PagesOf(i)   == {i} \X Page
Larger(m, n) == IF m > n THEN m ELSE n

-----------------------------------------------------------------------------
(***************************************************************************)
(* Names and references.  The directories and dentries are elsewhere.      *)
(***************************************************************************)

\* gbfs_iget of an inode that is not in memory; an error leaves it there.
Iget(i) ==
    /\ mounted /\ names[i] > 0 /\ ~Cached(i)
    /\ inode' = [inode EXCEPT ![i] = rec[i]]
    /\ UNCHANGED <<rec, stored, page, dirty, pdirty, names, held, mounted,
                   nextino>>

\* gbfs_new_inode and the link of its first name.
Create(i) ==
    /\ mounted /\ i = nextino
    /\ nextino' = nextino + 1
    /\ inode'   = [inode EXCEPT ![i] = Raw(1, 1, 0)]
    /\ page'    = [page EXCEPT ![i] = NoPages]
    /\ dirty'   = dirty \cup {i}
    /\ names'   = [names EXCEPT ![i] = @ + 1]
    /\ UNCHANGED <<rec, stored, pdirty, held, mounted>>

Open(i) ==
    /\ Cached(i) /\ names[i] > 0
    /\ i \notin held
    /\ held' = held \cup {i}
    /\ UNCHANGED <<rec, stored, inode, page, dirty, pdirty, names, mounted,
                   nextino>>

Close(i) ==
    /\ i \in held
    /\ held' = held \ {i}
    /\ UNCHANGED <<rec, stored, inode, page, dirty, pdirty, names, mounted,
                   nextino>>

\* inode_inc_link_count and inode_dec_link_count.
Relinked(i, n) ==
    /\ inode' = [inode EXCEPT ![i] = Raw(@.mode, @.nlinks + n, @.size)]
    /\ dirty' = dirty \cup {i}

\* gbfs_link, and the new name of a rename.
AddName(i) ==
    /\ Cached(i) /\ names[i] \in 1 .. MaxNames - 1
    /\ Relinked(i, 1)
    /\ names' = [names EXCEPT ![i] = @ + 1]
    /\ UNCHANGED <<rec, stored, page, pdirty, held, mounted, nextino>>

\* gbfs_unlink, and a rename over the name.
RemoveName(i) ==
    /\ Cached(i) /\ names[i] > 0
    /\ Relinked(i, -1)
    /\ names' = [names EXCEPT ![i] = @ - 1]
    /\ UNCHANGED <<rec, stored, page, pdirty, held, mounted, nextino>>

-----------------------------------------------------------------------------
(***************************************************************************)
(* File contents                                                           *)
(***************************************************************************)

\* gbfs_readpage, for a page that begins inside the file.
Read(i, p) ==
    /\ i \in held
    /\ p * PageBlocks < inode[i].size
    /\ page[i][p] = Uncached
    /\ page' = [page EXCEPT ![i][p] = stored[i][p]]
    /\ UNCHANGED <<rec, stored, inode, dirty, pdirty, names, held, mounted,
                   nextino>>

\* simple_write_begin: a page that is not in memory is not read but zeroed.
WriteBegin(i, p) == IF page[i][p] = Uncached THEN Zeroes ELSE page[i][p]

\* generic_file_write_iter of v into blocks f to l of one page.  It marks the
\* inode dirty only when the time of change (kept in seconds) moves, and
\* before simple_write_end sets the size: the flusher may run in between.
Write(i, p, f, l, v) ==
    /\ i \in held
    /\ page'   = [page EXCEPT ![i][p] =
                     [o \in Block |-> IF o \in f .. l THEN v ELSE WriteBegin(i, p)[o]]]
    /\ pdirty' = pdirty \cup {<<i, p>>}
    /\ inode'  = [inode EXCEPT ![i] =
                     Raw(@.mode, @.nlinks, Larger(@.size, p * PageBlocks + l))]
    /\ dirty'  \in {dirty, dirty \cup {i}}
    /\ UNCHANGED <<rec, stored, names, held, mounted, nextino>>

\* truncate_setsize: pages beyond the size leave the cache, and what is
\* cached of the last one is zeroed beyond it, without marking it dirty.
Truncated(i, n) ==
    [p \in Page |->
        IF page[i][p] = Uncached \/ p * PageBlocks >= n THEN Uncached
        ELSE [o \in Block |-> IF p * PageBlocks + o <= n THEN page[i][p][o] ELSE 0]]

\* gbfs_setattr with ATTR_SIZE.  The records stay: gbfs_truncate is not called.
Setattr(i, n) ==
    /\ Cached(i) /\ names[i] > 0
    /\ n # inode[i].size
    /\ inode'  = [inode EXCEPT ![i] = Raw(@.mode, @.nlinks, n)]
    /\ page'   = [page EXCEPT ![i] = Truncated(i, n)]
    /\ pdirty' = {q \in pdirty : q[1] = i => q[2] * PageBlocks < n}
    /\ dirty'  = dirty \cup {i}
    /\ UNCHANGED <<rec, stored, names, held, mounted, nextino>>

-----------------------------------------------------------------------------
(***************************************************************************)
(* Writing back                                                            *)
(***************************************************************************)

\* Mutant: the page's number is missing in the key of its record.
PutPageNumberless(i, p) == [stored EXCEPT ![i][0] = page[i][p]]

\* The record gbfs_writepage puts.
PutPage(i, p) == [stored EXCEPT ![i][p] = page[i][p]]

\* gbfs_writepage, for the flusher.  The page is clean afterwards even if the
\* put has failed.
WritePage(i, p, err) ==
    /\ <<i, p>> \in pdirty
    /\ pdirty' = pdirty \ {<<i, p>>}
    /\ stored' = IF err = 0 THEN PutPage(i, p) ELSE stored
    /\ UNCHANGED <<rec, inode, page, dirty, names, held, mounted, nextino>>

\* Mutant: i_nlinks is forgotten.
WrittenOldLinks(i) == Raw(inode[i].mode, rec[i].nlinks, inode[i].size)

\* The raw inode gbfs_write_inode puts: the one it has read, with every field
\* replaced.
Written(i) == inode[i]

\* gbfs_write_inode; the flusher has taken the inode for clean before.
WriteInode(i, err) ==
    /\ i \in dirty
    /\ dirty' = dirty \ {i}
    /\ rec'   = IF err = 0 THEN [rec EXCEPT ![i] = Written(i)] ELSE rec
    /\ UNCHANGED <<stored, inode, page, pdirty, names, held, mounted, nextino>>

\* The pages and inodes of a set S in the database once they are written back.
StoredAll(S) ==
    [i \in Ino |-> [p \in Page |->
        IF i \in S /\ <<i, p>> \in pdirty THEN page[i][p] ELSE stored[i][p]]]

\* generic_file_fsync: the pages, and the inode if it is dirty.
Fsync(i) ==
    /\ i \in held
    /\ stored' = StoredAll({i})
    /\ pdirty' = pdirty \ PagesOf(i)
    /\ rec'    = IF i \in dirty THEN [rec EXCEPT ![i] = Written(i)] ELSE rec
    /\ dirty'  = dirty \ {i}
    /\ UNCHANGED <<inode, page, names, held, mounted, nextino>>

\* The page cache gives up a clean page.
Reclaim(i, p) ==
    /\ page[i][p] # Uncached /\ <<i, p>> \notin pdirty
    /\ page' = [page EXCEPT ![i][p] = Uncached]
    /\ UNCHANGED <<rec, stored, inode, dirty, pdirty, names, held, mounted,
                   nextino>>

\* The inode cache gives up a clean inode that nothing refers to.
Evict(i) ==
    /\ Cached(i) /\ inode[i].nlinks > 0
    /\ i \notin held \cup dirty
    /\ pdirty \cap PagesOf(i) = {}
    /\ inode' = [inode EXCEPT ![i] = Uncached]
    /\ page'  = [page EXCEPT ![i] = NoPages]
    /\ UNCHANGED <<rec, stored, dirty, pdirty, names, held, mounted, nextino>>

\* Mutant: the link count is not cleared.
ClearedMode(r) == Raw(0, r.nlinks, r.size)

\* Mutant: the link count is lowered, not cleared.
ClearedByOne(r) == Raw(0, r.nlinks - 1, r.size)

\* gbfs_clear_inode changes the raw inode it reads back.
Cleared(r) == Raw(0, 0, r.size)

\* gbfs_evict_inode of a deleted inode on its last iput: what is dirty is
\* dropped.  When its raw inode cannot be read or put, nothing is said.
Free(i, err) ==
    /\ Cached(i) /\ inode[i].nlinks = 0
    /\ i \notin held
    /\ rec'    = IF err = 0 THEN [rec EXCEPT ![i] = Cleared(@)] ELSE rec
    /\ inode'  = [inode EXCEPT ![i] = Uncached]
    /\ page'   = [page EXCEPT ![i] = NoPages]
    /\ dirty'  = dirty \ {i}
    /\ pdirty' = pdirty \ PagesOf(i)
    /\ UNCHANGED <<stored, names, held, mounted, nextino>>

-----------------------------------------------------------------------------
(***************************************************************************)
(* Unmounting and mounting                                                 *)
(***************************************************************************)

\* generic_shutdown_super frees the deleted inodes, writes back everything
\* else, empties the caches and lets gbfs_put_super close the database.
Unmount ==
    LET deleted == {i \in Ino : Cached(i) /\ inode[i].nlinks = 0} IN
    /\ mounted /\ held = {}
    /\ rec'     = [i \in Ino |-> IF i \in deleted    THEN Cleared(rec[i])
                                 ELSE IF i \in dirty THEN Written(i)
                                 ELSE rec[i]]
    /\ stored'  = StoredAll(Ino \ deleted)
    /\ inode'   = [i \in Ino |-> Uncached]
    /\ page'    = [i \in Ino |-> NoPages]
    /\ dirty'   = {}
    /\ pdirty'  = {}
    /\ mounted' = FALSE
    /\ UNCHANGED <<names, held, nextino>>

Mount ==
    /\ ~mounted
    /\ mounted' = TRUE
    /\ UNCHANGED <<rec, stored, inode, page, dirty, pdirty, names, held,
                   nextino>>

-----------------------------------------------------------------------------
Background ==
    \/ \E i \in Ino : Iget(i) \/ Evict(i) \/ Fsync(i) \/ Open(i) \/ Close(i)
    \/ \E i \in Ino, p \in Page : Read(i, p) \/ Reclaim(i, p)
    \/ \E i \in Ino, p \in Page, err \in DbErrors : WritePage(i, p, err)
    \/ \E i \in Ino, err \in DbErrors : WriteInode(i, err)
    \/ Unmount \/ Mount

Next ==
    \/ Background
    \/ \E i \in Ino : Create(i) \/ AddName(i) \/ RemoveName(i)
    \/ \E i \in Ino, n \in Size : Setattr(i, n)
    \/ \E i \in Ino, p \in Page, v \in Val : \E f \in Block : \E l \in f .. PageBlocks :
          Write(i, p, f, l, v)
    \/ \E i \in Ino, err \in DbErrors : Free(i, err)

Spec == Init /\ [][Next]_vars
=============================================================================
