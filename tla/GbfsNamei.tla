----------------------------- MODULE GbfsNamei -----------------------------
(***************************************************************************)
(* The namespace of a mounted gbfs: the directory operations of            *)
(* fs/namei.c on the directories of fs/dir.c, the inode numbers and link   *)
(* counts of fs/bitmap.c, and the release of a deleted inode in            *)
(* fs/inode.c.                                                             *)
(*                                                                         *)
(* The VFS (Linux 4.9, external to the repository) holds the i_mutex of    *)
(* every directory an operation changes, so an operation is one step here. *)
(* What interleaves is everything around it: name lookups that leave       *)
(* dentries behind, the reclaim of those dentries, open files that outlive *)
(* their names, and the eviction of inodes that nothing refers to.         *)
(* The VFS's part is modelled by what it lets gbfs see: an operation runs  *)
(* on names that have been looked up, and only after the checks of         *)
(* may_create, may_delete, lock_rename and s_max_links.                    *)
(*                                                                         *)
(* Every operation takes the set `bad' of <<directory, page>> pairs whose  *)
(* read fails while it runs, and `err', whether committing a directory     *)
(* page fails, which only a file system mounted dirsync can see.           *)
(***************************************************************************)
EXTENDS GbfsDir

CONSTANTS
    Name,           \* names of at most s_namelen bytes; a longer one fails in gbfs_lookup
    MaxIno,         \* bound: the last inode number handed out
    MaxHeld,        \* bound: the inodes held open at once
    LinkMax,        \* s_max_links, GBFS_LINK_MAX
    LinkMod,        \* what a link count wraps at: 2^16, as gbfs_inode.i_nlinks
    ReadFaults,     \* the sets of <<directory, page>> that may fail to be read
    CommitFaults    \* what write_one_page may return in dir_commit_chunk; 0 is success

Root     == 1       \* GBFS_ROOT_INO
FirstIno == 5       \* the initial value of gbfs_new_inode's static counter
Ino      == {Root} \cup FirstIno .. MaxIno

Negative == 0       \* a dentry for a name that does not exist
NoDentry == -1      \* no dentry is cached for the name

ASSUME NameiAssumption ==
    /\ MaxIno \in Nat /\ MaxIno >= FirstIno
    /\ MaxHeld \in Nat
    /\ LinkMax \in Nat /\ LinkMax >= 2
    /\ LinkMod \in Nat /\ LinkMod > LinkMax + 2
    /\ Dot \notin Name /\ DotDot \notin Name
    /\ ReadFaults \subseteq SUBSET (Ino \X Nat) /\ {} \in ReadFaults
    /\ CommitFaults \subseteq Int /\ 0 \in CommitFaults

VARIABLES
    mode,       \* mode[i]: what inode i is; "none" is a raw inode with i_mode 0
    nlink,      \* nlink[i]: its link count
    dirent,     \* dirent[d]: the slots of directory d
    nextino,    \* gbfs_new_inode's static counter
    dentry,     \* dentry[d][nm]: the cached dentry of nm in d
    parent,     \* parent[d]: the d_parent of directory d's dentry
    held,       \* the inodes an open file or a working directory refers to
    linkable,   \* the inodes with I_LINKABLE: made by O_TMPFILE, never named
    dead        \* the inodes with S_DEAD: removed directories

vars == <<mode, nlink, dirent, nextino, dentry, parent, held, linkable, dead>>

Mode  == {"none", "nondir", "dir"}
Entry == [ino : Ino \cup {0}, name : Name \cup {Dot, DotDot}]

TypeOK ==
    /\ mode     \in [Ino -> Mode]
    /\ nlink    \in [Ino -> 0 .. LinkMod - 1]
    /\ dirent   \in [Ino -> Seq(Entry)]
    /\ nextino  \in FirstIno .. MaxIno + 1
    /\ dentry   \in [Ino -> [Name -> Ino \cup {Negative, NoDentry}]]
    /\ parent   \in [Ino -> Ino]
    /\ held     \subseteq Ino
    /\ linkable \subseteq Ino
    /\ dead     \subseteq Ino

\* A freshly made database: the root's raw inode is synthesized with two
\* links and no entries, every other one as zeroes.
Init ==
    /\ mode     = [i \in Ino |-> IF i = Root THEN "dir" ELSE "none"]
    /\ nlink    = [i \in Ino |-> IF i = Root THEN 2 ELSE 0]
    /\ dirent   = [i \in Ino |-> << >>]
    /\ nextino  = FirstIno
    /\ dentry   = [i \in Ino |-> [nm \in Name |-> NoDentry]]
    /\ parent   = [i \in Ino |-> Root]
    /\ held     = {}
    /\ linkable = {}
    /\ dead     = {}

-----------------------------------------------------------------------------
(***************************************************************************)
(* What the VFS checks before it calls the file system                     *)
(***************************************************************************)

BadPages(bad, d) == {p[2] : p \in {q \in bad : q[1] = d}}

LiveDir(d) == mode[d] = "dir" /\ d \notin dead

HasDentry(i) == \E d \in Ino, nm \in Name : dentry[d][nm] = i
Cached(i)    == i = Root \/ i \in held \/ HasDentry(i)
NoDentries   == [nm \in Name |-> NoDentry]

\* A path walk has reached directory d.
Walked(d) == LiveDir(d) /\ Cached(d)

CanCreate(d, nm) == Walked(d) /\ dentry[d][nm] = Negative
CanDelete(d, nm) == Walked(d) /\ dentry[d][nm] \in Ino

\* The directories on the way from d up to the root, d included.
Ancestors(d) ==
    {a \in Ino : \A S \in SUBSET Ino :
        (d \in S /\ \A x \in S \ {Root} : parent[x] \in S) => a \in S}

\* Mutant: the limit itself still has room.
LinkRoomOffByOne(i) == nlink[i] <= LinkMax

\* may another link to i be made?  gbfs_fill_super sets s_max_links.
LinkRoom(i) == nlink[i] < LinkMax

\* drop_nlink, k times, on a count of n: the count is unsigned.
Dropped(n, k) == IF n >= k THEN n - k ELSE n - k + LinkMod

\* d_delete: the dentry turns negative, or is unhashed if it is in use.
Deleted(i) == {Negative} \cup IF i \in held THEN {NoDentry} ELSE {}

\* The bounds of the model.
HasIno  == nextino <= MaxIno
CanHold == Cardinality(held) < MaxHeld

-----------------------------------------------------------------------------
(***************************************************************************)
(* gbfs_add_link in this state                                             *)
(***************************************************************************)

AddedSlot(d, nm, bad) == AddSlot(dirent[d], nm, BadPages(bad, d))

\* The directories once gbfs_add_link has returned, whatever it returns: a
\* failed commit leaves the slot filled.
Added(d, nm, i, bad) ==
    IF AddedSlot(d, nm, bad) = 0 THEN dirent
    ELSE [dirent EXCEPT ![d] = FillSlot(@, AddedSlot(d, nm, bad), nm, i)]

AddSucceeds(d, nm, bad, err) == AddedSlot(d, nm, bad) # 0 /\ err = 0

Found(d, nm, bad) == FindEntry(dirent[d], nm, BadPages(bad, d))

-----------------------------------------------------------------------------
(***************************************************************************)
(* Lookups and references                                                  *)
(***************************************************************************)

Lookup(d, nm, bad) ==
    /\ Walked(d)
    /\ dentry[d][nm] = NoDentry
    /\ LET i == InodeByName(dirent[d], nm, BadPages(bad, d))
       IN  /\ dentry' = [dentry EXCEPT ![d][nm] = i]
           /\ parent' = IF i # 0 /\ mode[i] = "dir"
                        THEN [parent EXCEPT ![i] = d] ELSE parent
    /\ UNCHANGED <<mode, nlink, dirent, nextino, held, linkable, dead>>

\* The dentry cache gives up an unused dentry that has no children.
DropDentry(d, nm) ==
    /\ dentry[d][nm] # NoDentry
    /\ dentry[d][nm] \in Ino => /\ dentry[d][nm] \notin held
                                /\ dentry[dentry[d][nm]] = NoDentries
    /\ dentry' = [dentry EXCEPT ![d][nm] = NoDentry]
    /\ UNCHANGED <<mode, nlink, dirent, nextino, parent, held, linkable, dead>>

Open(i) ==
    /\ HasDentry(i) /\ CanHold
    /\ i \notin held
    /\ held' = held \cup {i}
    /\ UNCHANGED <<mode, nlink, dirent, nextino, dentry, parent, linkable, dead>>

Close(i) ==
    /\ i \in held
    /\ held' = held \ {i}
    /\ UNCHANGED <<mode, nlink, dirent, nextino, dentry, parent, linkable, dead>>

\* Mutant: any inode that leaves the cache is freed.
EvictLinked(i) ==
    /\ mode[i] # "none"
    /\ ~Cached(i)
    /\ dentry[i] = NoDentries
    /\ mode'     = [mode EXCEPT ![i] = "none"]
    /\ dirent'   = [dirent EXCEPT ![i] = << >>]
    /\ linkable' = linkable \ {i}
    /\ dead'     = dead \ {i}
    /\ parent'   = [parent EXCEPT ![i] = Root]
    /\ UNCHANGED <<nlink, nextino, dentry, held>>

\* The last iput of an inode without links: gbfs_evict_inode empties it and
\* gbfs_free_inode clears the raw inode.
Evict(i) ==
    /\ mode[i] # "none"
    /\ nlink[i] = 0
    /\ ~Cached(i)
    /\ dentry[i] = NoDentries
    /\ mode'     = [mode EXCEPT ![i] = "none"]
    /\ dirent'   = [dirent EXCEPT ![i] = << >>]
    /\ linkable' = linkable \ {i}
    /\ dead'     = dead \ {i}
    /\ parent'   = [parent EXCEPT ![i] = Root]
    /\ UNCHANGED <<nlink, nextino, dentry, held>>

-----------------------------------------------------------------------------
(***************************************************************************)
(* Making names                                                            *)
(***************************************************************************)

\* gbfs_create, gbfs_mknod and gbfs_symlink.  When the link cannot be added
\* the new inode loses its only link and is evicted at once; its number is
\* spent.
Create(d, nm, bad, err) ==
    /\ CanCreate(d, nm) /\ HasIno
    /\ nextino' = nextino + 1
    /\ dirent'  = Added(d, nm, nextino, bad)
    /\ \/ /\ AddSucceeds(d, nm, bad, err)
          /\ mode'   = [mode EXCEPT ![nextino] = "nondir"]
          /\ nlink'  = [nlink EXCEPT ![nextino] = 1]
          /\ dentry' = [dentry EXCEPT ![d][nm] = nextino]
       \/ /\ ~AddSucceeds(d, nm, bad, err)
          /\ UNCHANGED <<mode, nlink, dentry>>
    /\ UNCHANGED <<parent, held, linkable, dead>>

\* page_symlink or gbfs_make_empty fails: the new inode is dropped before it
\* has a name.
CreateAborts(d, nm) ==
    /\ CanCreate(d, nm) /\ HasIno
    /\ nextino' = nextino + 1
    /\ UNCHANGED <<mode, nlink, dirent, dentry, parent, held, linkable, dead>>

Tmpfile(d) ==
    /\ Walked(d) /\ HasIno /\ CanHold
    /\ nextino'  = nextino + 1
    /\ mode'     = [mode EXCEPT ![nextino] = "nondir"]
    /\ held'     = held \cup {nextino}
    /\ linkable' \in {linkable, linkable \cup {nextino}}   \* O_EXCL, or not
    /\ UNCHANGED <<nlink, dirent, dentry, parent, dead>>

\* The count goes up before the link is added and down again if it is not.
Link(i, d, nm, bad, err) ==
    /\ CanCreate(d, nm)
    /\ mode[i] = "nondir" /\ Cached(i)
    /\ LinkRoom(i)
    /\ nlink[i] # 0 \/ i \in linkable
    /\ dirent' = Added(d, nm, i, bad)
    /\ \/ /\ AddSucceeds(d, nm, bad, err)
          /\ nlink'    = [nlink EXCEPT ![i] = @ + 1]
          /\ dentry'   = [dentry EXCEPT ![d][nm] = i]
          /\ linkable' = linkable \ {i}
       \/ /\ ~AddSucceeds(d, nm, bad, err)
          /\ UNCHANGED <<nlink, dentry, linkable>>
    /\ UNCHANGED <<mode, nextino, parent, held, dead>>

Mkdir(d, nm, bad, err) ==
    /\ CanCreate(d, nm) /\ HasIno
    /\ LinkRoom(d)
    /\ nextino' = nextino + 1
    /\ \/ /\ AddSucceeds(d, nm, bad, err)
          /\ mode'   = [mode EXCEPT ![nextino] = "dir"]
          /\ nlink'  = [nlink EXCEPT ![d] = @ + 1, ![nextino] = 2]
          /\ dirent' = [Added(d, nm, nextino, bad) EXCEPT
                           ![nextino] = MakeEmpty(nextino, d)]
          /\ dentry' = [dentry EXCEPT ![d][nm] = nextino]
          /\ parent' = [parent EXCEPT ![nextino] = d]
       \/ /\ ~AddSucceeds(d, nm, bad, err)
          /\ dirent' = Added(d, nm, nextino, bad)
          /\ UNCHANGED <<mode, nlink, dentry, parent>>
    /\ UNCHANGED <<held, linkable, dead>>

-----------------------------------------------------------------------------
(***************************************************************************)
(* Removing names                                                          *)
(***************************************************************************)

\* The slot is freed even when committing it fails; the link count is not
\* touched then.
Unlink(d, nm, bad, err) ==
    /\ CanDelete(d, nm)
    /\ mode[dentry[d][nm]] # "dir"
    /\ Found(d, nm, bad) # 0
    /\ dirent' = [dirent EXCEPT ![d] = DeleteEntry(@, Found(d, nm, bad))]
    /\ \/ /\ err = 0
          /\ nlink' = [nlink EXCEPT ![dentry[d][nm]] = Dropped(@, 1)]
          /\ \E v \in Deleted(dentry[d][nm]) :
                dentry' = [dentry EXCEPT ![d][nm] = v]
       \/ err # 0 /\ UNCHANGED <<nlink, dentry>>
    /\ UNCHANGED <<mode, nextino, parent, held, linkable, dead>>

Rmdir(d, nm, bad, err) ==
    /\ CanDelete(d, nm)
    /\ LET i == dentry[d][nm] IN
       /\ LiveDir(i)
       /\ EmptyDir(dirent[i], i, BadPages(bad, i))
       /\ Found(d, nm, bad) # 0
       /\ dirent' = [dirent EXCEPT ![d] = DeleteEntry(@, Found(d, nm, bad))]
       /\ \/ /\ err = 0
             /\ nlink' = [nlink EXCEPT ![i] = Dropped(@, 2), ![d] = Dropped(@, 1)]
             /\ \E v \in Deleted(i) :
                   dentry' = [dentry EXCEPT ![d][nm] = v, ![i] = NoDentries]
             /\ dead' = dead \cup {i}
          \/ err # 0 /\ UNCHANGED <<nlink, dentry, dead>>
    /\ UNCHANGED <<mode, nextino, parent, held, linkable>>

-----------------------------------------------------------------------------
(***************************************************************************)
(* gbfs_rename                                                             *)
(***************************************************************************)

\* The source has been found and, for a directory, its ".." slot read.
CanRename(od, on, nd, nn, bad) ==
    LET src == dentry[od][on] IN
    /\ CanDelete(od, on)
    /\ Walked(nd)
    /\ mode[src] = "dir" =>
          /\ src \notin Ancestors(nd) \cup dead
          /\ DotDotSlot(BadPages(bad, src)) # 0
    /\ Found(od, on, bad) # 0

\* Mutant: the moved directory keeps its old "..".
MovedKeepsDotDot(od, on, nd, ents, bad) ==
    [ents EXCEPT ![od] = DeleteEntry(@, Found(od, on, bad))]

\* The last steps of a rename, from the directories ents that already hold
\* the new name.
Moved(od, on, nd, ents, bad) ==
    LET src == dentry[od][on]
        cut == [ents EXCEPT ![od] = DeleteEntry(@, Found(od, on, bad))]
    IN  IF mode[src] = "dir" THEN [cut EXCEPT ![src] = SetLink(@, 2, nd)]
                             ELSE cut

\* d_move
MovedDentry(od, on, nd, nn) ==
    [dentry EXCEPT ![nd][nn] = dentry[od][on], ![od][on] = NoDentry]

MovedParent(od, on, nd) ==
    IF mode[dentry[od][on]] = "dir"
    THEN [parent EXCEPT ![dentry[od][on]] = nd] ELSE parent

\* Nothing has the new name.  A failed gbfs_add_link ends the operation.
RenameNew(od, on, nd, nn, bad, err) ==
    LET src == dentry[od][on] IN
    /\ CanRename(od, on, nd, nn, bad)
    /\ dentry[nd][nn] = Negative
    /\ mode[src] = "dir" /\ nd # od => LinkRoom(nd)
    /\ \/ /\ AddSucceeds(nd, nn, bad, err)
          /\ dirent' = Moved(od, on, nd, Added(nd, nn, src, bad), bad)
          /\ nlink'  = IF mode[src] = "dir" /\ nd # od
                       THEN [nlink EXCEPT ![nd] = @ + 1, ![od] = Dropped(@, 1)]
                       ELSE nlink
          /\ dentry' = MovedDentry(od, on, nd, nn)
          /\ parent' = MovedParent(od, on, nd)
       \/ /\ ~AddSucceeds(nd, nn, bad, err)
          /\ dirent' = Added(nd, nn, src, bad)
          /\ UNCHANGED <<nlink, dentry, parent>>
    /\ UNCHANGED <<mode, nextino, held, linkable, dead>>

\* Mutant: drop_nlink is forgotten for a replaced directory.
LinksReplacedOnce(od, tgt, isdir) ==
    IF isdir THEN [nlink EXCEPT ![tgt] = Dropped(@, 1), ![od] = Dropped(@, 1)]
             ELSE [nlink EXCEPT ![tgt] = Dropped(@, 1)]

\* A replaced directory loses "." and its name, and od the moved directory's
\* "..", for which nd has already lost that of tgt.
LinksReplaced(od, tgt, isdir) ==
    IF isdir THEN [nlink EXCEPT ![tgt] = Dropped(@, 2), ![od] = Dropped(@, 1)]
             ELSE [nlink EXCEPT ![tgt] = Dropped(@, 1)]

\* The new name belongs to tgt, which is replaced.  gbfs_set_link and the
\* deletion of the old slot take effect whether or not they commit.
RenameOver(od, on, nd, nn, bad) ==
    LET src   == dentry[od][on]
        tgt   == dentry[nd][nn]
        isdir == mode[src] = "dir"
    IN
    /\ CanRename(od, on, nd, nn, bad)
    /\ tgt \in Ino /\ tgt # src
    /\ isdir <=> mode[tgt] = "dir"
    /\ isdir => /\ tgt \notin Ancestors(od) \cup dead
                /\ EmptyDir(dirent[tgt], tgt, BadPages(bad, tgt))
    /\ Found(nd, nn, bad) # 0
    /\ dirent' = Moved(od, on, nd,
                    [dirent EXCEPT ![nd] = SetLink(@, Found(nd, nn, bad), src)], bad)
    /\ nlink'  = LinksReplaced(od, tgt, isdir)
    /\ dentry' = IF isdir THEN [MovedDentry(od, on, nd, nn) EXCEPT ![tgt] = NoDentries]
                          ELSE MovedDentry(od, on, nd, nn)
    /\ parent' = MovedParent(od, on, nd)
    /\ dead'   = IF isdir THEN dead \cup {tgt} ELSE dead
    /\ UNCHANGED <<mode, nextino, held, linkable>>

-----------------------------------------------------------------------------
NextNames(d, nm, bad, err) ==
    \/ Create(d, nm, bad, err)
    \/ \E i \in Ino : Link(i, d, nm, bad, err)
    \/ Mkdir(d, nm, bad, err)
    \/ Unlink(d, nm, bad, err)
    \/ Rmdir(d, nm, bad, err)
    \/ \E nd \in Ino, nn \in Name : RenameNew(d, nm, nd, nn, bad, err)

Next ==
    \/ \E d \in Ino, nm \in Name, bad \in ReadFaults, err \in CommitFaults :
          NextNames(d, nm, bad, err)
    \/ \E od, nd \in Ino, on, nn \in Name, bad \in ReadFaults :
          RenameOver(od, on, nd, nn, bad)
    \/ \E d \in Ino, nm \in Name, bad \in ReadFaults : Lookup(d, nm, bad)
    \/ \E d \in Ino, nm \in Name : DropDentry(d, nm) \/ CreateAborts(d, nm)
    \/ \E i \in Ino : Tmpfile(i) \/ Open(i) \/ Close(i) \/ Evict(i)

Spec == Init /\ [][Next]_vars
=============================================================================
