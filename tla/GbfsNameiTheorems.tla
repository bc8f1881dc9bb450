------------------------- MODULE GbfsNameiTheorems -------------------------
(***************************************************************************)
(* Safety of the namespace for every set of names, every number of inodes  *)
(* and every link limit: link counts stay below their limit, a removed     *)
(* directory is empty, no name occurs twice in a directory, every cached   *)
(* dentry tells the truth, link counts are exact, every directory leads to *)
(* the root, and every operation is one step of the abstract file tree.    *)
(***************************************************************************)
EXTENDS GbfsNameiProps, GbfsDirTheorems, FiniteSetTheorems

\* The inode numbers are positive, so 0 and -1 can stand for other things.
LEMMA InoFacts ==
    /\ Ino \subseteq Nat \ {0} /\ Root \in Ino
    /\ Negative \notin Ino /\ NoDentry \notin Ino /\ NoDentry # 0
    /\ \A n \in FirstIno .. MaxIno + 1 : HasIno /\ n = nextino => n \in Ino
BY NameiAssumption DEF Ino, Root, FirstIno, Negative, NoDentry, HasIno

\* A directory of the model is a sequence of slots.
LEMMA EntryIsSlots == Entry = Slots(Ino \cup {0}, Name \cup {Dot, DotDot})
BY DEF Entry, Slots
-----------------------------------------------------------------------------
(***************************************************************************)
(* The directories after an operation are directories                      *)
(***************************************************************************)

\* gbfs_add_link and its failures leave directories behind.
LEMMA AddedType ==
    ASSUME TypeOK, NEW d \in Ino, NEW nm \in Name, NEW i \in Ino, NEW bad
    PROVE  Added(d, nm, i, bad) \in [Ino -> Seq(Entry)]
<1>. DEFINE k == AddedSlot(d, nm, bad)
<1>1. dirent[d] \in Seq(Entry)
    BY DEF TypeOK
<1>2. k \in 0 .. Len(dirent[d]) + 1
    BY <1>1, EntryIsSlots, AddSlotProperty DEF AddedSlot
<1>3. CASE k = 0
    BY <1>3 DEF Added, TypeOK
<1>4. CASE k # 0
    <2>1. k \in 1 .. Len(dirent[d]) + 1
        BY <1>1, <1>2, <1>4
    <2>2. FillSlot(dirent[d], k, nm, i) \in Seq(Entry)
        BY <1>1, <2>1, EntryIsSlots, FillSlotType
    <2>. QED
        BY <1>4, <2>2 DEF Added, TypeOK
<1>. QED
    BY <1>3, <1>4

\* Relinking or freeing any slot does.
LEMMA RelinkedType ==
    ASSUME NEW ents \in [Ino -> Seq(Entry)], NEW d, NEW k, NEW i \in Ino \cup {0}
    PROVE  [ents EXCEPT ![d] = SetLink(@, k, i)] \in [Ino -> Seq(Entry)]
<1>1. CASE d \in Ino
    <2>1. SetLink(ents[d], k, i) \in Seq(Entry)
        BY <1>1, EntryIsSlots, SetLinkType
    <2>. QED
        BY <1>1, <2>1
<1>2. CASE d \notin Ino
    BY <1>2
<1>. QED
    BY <1>1, <1>2

\* gbfs_delete_entry leaves directories behind.
LEMMA FreedType ==
    ASSUME NEW ents \in [Ino -> Seq(Entry)], NEW d, NEW k
    PROVE  [ents EXCEPT ![d] = DeleteEntry(@, k)] \in [Ino -> Seq(Entry)]
BY RelinkedType DEF DeleteEntry

\* So does the tail of a rename.
LEMMA MovedType ==
    ASSUME NEW ents \in [Ino -> Seq(Entry)], NEW od, NEW on, NEW nd \in Ino, NEW bad
    PROVE  Moved(od, on, nd, ents, bad) \in [Ino -> Seq(Entry)]
<1>. DEFINE cut == [ents EXCEPT ![od] = DeleteEntry(@, Found(od, on, bad))]
<1>1. cut \in [Ino -> Seq(Entry)]
    BY FreedType
<1>2. [cut EXCEPT ![dentry[od][on]] = SetLink(@, 2, nd)] \in [Ino -> Seq(Entry)]
    <2>. HIDE DEF cut
    <2>. QED
        BY <1>1, RelinkedType
<1>. QED
    BY <1>1, <1>2 DEF Moved

\* The values a cached dentry can have.
Dentries == Ino \cup {Negative, NoDentry}

\* Setting one dentry keeps the type of the dentry cache.
LEMMA DentryType ==
    ASSUME TypeOK
    PROVE  /\ dentry \in [Ino -> [Name -> Dentries]]
           /\ \A d \in Ino, nm \in Name, v \in Dentries :
                 [dentry EXCEPT ![d][nm] = v] \in [Ino -> [Name -> Dentries]]
<1>1. dentry \in [Ino -> [Name -> Dentries]]
    BY DEF TypeOK, Dentries
<1>2. ASSUME NEW d \in Ino, NEW nm \in Name, NEW v \in Dentries
      PROVE  [dentry EXCEPT ![d][nm] = v] \in [Ino -> [Name -> Dentries]]
    BY <1>1
<1>. QED
    BY <1>1, <1>2

\* The dentries and parents that d_move leaves have their types.
LEMMA MovedDentryType ==
    ASSUME TypeOK, NEW od \in Ino, NEW nd \in Ino, NEW on \in Name, NEW nn \in Name
    PROVE  /\ MovedDentry(od, on, nd, nn)
                  \in [Ino -> [Name -> Dentries]]
           /\ MovedParent(od, on, nd) \in [Ino -> Ino]
<1>. DEFINE new == [dentry EXCEPT ![nd][nn] = dentry[od][on]]
<1>1. dentry[od][on] \in Dentries /\ NoDentry \in Dentries
    BY DEF TypeOK, Dentries
<1>2. new \in [Ino -> [Name -> Dentries]]
    BY <1>1, DentryType
<1>3. [new EXCEPT ![od][on] = NoDentry] \in [Ino -> [Name -> Dentries]]
    <2>. HIDE DEF new
    <2>. QED
        BY <1>1, <1>2
<1>4. MovedDentry(od, on, nd, nn) = [new EXCEPT ![od][on] = NoDentry]
    BY DEF MovedDentry
<1>5. MovedParent(od, on, nd) \in [Ino -> Ino]
    BY DEF TypeOK, MovedParent
<1>. QED
    BY <1>3, <1>4, <1>5
-----------------------------------------------------------------------------
(***************************************************************************)
(* Type correctness                                                        *)
(***************************************************************************)

\* Lookups and references keep the types.
LEMMA TypeOKReferences ==
    ASSUME TypeOK,
           \/ \E d \in Ino, nm \in Name, bad \in ReadFaults : Lookup(d, nm, bad)
           \/ \E d \in Ino, nm \in Name : DropDentry(d, nm) \/ CreateAborts(d, nm)
           \/ \E i \in Ino : Tmpfile(i) \/ Open(i) \/ Close(i) \/ Evict(i)
    PROVE  TypeOK'
<1>1. ASSUME NEW d \in Ino, NEW nm \in Name, NEW bad \in ReadFaults,
             Lookup(d, nm, bad)
      PROVE  TypeOK'
    <2>. DEFINE i == InodeByName(dirent[d], nm, BadPages(bad, d))
    <2>1. i \in Ino \cup {0}
        <3>1. dirent[d] \in Seq(Slots(Ino \cup {0}, Name \cup {Dot, DotDot}))
            BY EntryIsSlots DEF TypeOK
        <3>. QED
            BY <3>1, InodeByNameType
    <2>2. dentry' \in [Ino -> [Name -> Dentries]]
        BY <1>1, <2>1, DentryType DEF Lookup, Negative, Dentries
    <2>3. parent' \in [Ino -> Ino]
        BY <1>1, <2>1 DEF Lookup, TypeOK
    <2>. QED
        BY <1>1, <2>2, <2>3 DEF Lookup, TypeOK, Dentries
<1>2. ASSUME NEW d \in Ino, NEW nm \in Name, DropDentry(d, nm)
      PROVE  TypeOK'
    BY <1>2 DEF DropDentry, TypeOK, Dentries
<1>3. ASSUME NEW d \in Ino, NEW nm \in Name, CreateAborts(d, nm)
      PROVE  TypeOK'
    BY <1>3, NameiAssumption DEF CreateAborts, HasIno, TypeOK, FirstIno
<1>4. ASSUME NEW d \in Ino, Tmpfile(d)
      PROVE  TypeOK'
    <2>1. nextino \in Ino
        BY <1>4, InoFacts DEF Tmpfile, TypeOK
    <2>2. nextino' \in FirstIno .. MaxIno + 1
        BY <1>4, NameiAssumption DEF Tmpfile, HasIno, TypeOK, FirstIno
    <2>. QED
        BY <1>4, <2>1, <2>2 DEF Tmpfile, TypeOK, Mode
<1>5. ASSUME NEW i \in Ino, Open(i) \/ Close(i)
      PROVE  TypeOK'
    BY <1>5 DEF Open, Close, TypeOK
<1>6. ASSUME NEW i \in Ino, Evict(i)
      PROVE  TypeOK'
    <2>1. << >> \in Seq(Entry)
        OBVIOUS
    <2>. QED
        BY <1>6, <2>1, InoFacts DEF Evict, TypeOK, Mode
<1>. QED
    BY <1>1, <1>2, <1>3, <1>4, <1>5, <1>6

\* What a link count can be.
Count == 0 .. LinkMod - 1

\* A count that is raised after a look at the limit stays one, and so does a
\* count that is dropped, wrapped or not.
LEMMA CountFacts ==
    /\ 1 \in Count /\ 2 \in Count
    /\ \A n \in Count : n < LinkMax => n + 1 \in Count
    /\ \A n \in Count : Dropped(n, 1) \in Count /\ Dropped(n, 2) \in Count
<1>1. LinkMod \in Nat /\ LinkMax \in Nat /\ LinkMax >= 2 /\ LinkMod > LinkMax + 2
    BY NameiAssumption
<1>2. ASSUME NEW n \in Count, NEW k \in {1, 2}
      PROVE  Dropped(n, k) \in Count
    BY <1>1, <1>2 DEF Dropped, Count
<1>. QED
    BY <1>1, <1>2 DEF Count

\* Making and removing names does.
LEMMA TypeOKNames ==
    ASSUME TypeOK, NEW d \in Ino, NEW nm \in Name,
           NEW bad \in ReadFaults, NEW err \in CommitFaults,
           NextNames(d, nm, bad, err)
    PROVE  TypeOK'
<1>. Negative \in Dentries /\ NoDentry \in Dentries /\ Ino \subseteq Dentries
    BY DEF Dentries
<1>1. ASSUME Create(d, nm, bad, err)
      PROVE  TypeOK'
    <2>1. nextino \in Ino /\ nextino' \in FirstIno .. MaxIno + 1
        BY <1>1, InoFacts, NameiAssumption DEF Create, HasIno, TypeOK, FirstIno
    <2>2. dirent' \in [Ino -> Seq(Entry)]
        BY <1>1, <2>1, AddedType DEF Create
    <2>3. mode' \in [Ino -> Mode] /\ nlink' \in [Ino -> Count]
        BY <1>1, <2>1, CountFacts DEF Create, TypeOK, Mode, Count
    <2>4. dentry' = dentry \/ dentry' = [dentry EXCEPT ![d][nm] = nextino]
        BY <1>1 DEF Create
    <2>5. dentry' \in [Ino -> [Name -> Dentries]]
        <3>1. nextino \in Dentries
            BY <2>1
        <3>. QED
            BY <2>4, <3>1, DentryType
    <2>. QED
        BY <1>1, <2>1, <2>2, <2>3, <2>5 DEF Create, TypeOK, Dentries, Count
<1>2. ASSUME NEW i \in Ino, Link(i, d, nm, bad, err)
      PROVE  TypeOK'
    <2>1. dirent' \in [Ino -> Seq(Entry)]
        BY <1>2, AddedType DEF Link
    <2>2. nlink' \in [Ino -> Count] /\ linkable' \subseteq Ino
        <3>1. nlink \in [Ino -> Count] /\ linkable \subseteq Ino
            BY DEF TypeOK, Count
        <3>. QED
            BY <1>2, <3>1, CountFacts DEF Link, LinkRoom
    <2>3. dentry' = dentry \/ dentry' = [dentry EXCEPT ![d][nm] = i]
        BY <1>2 DEF Link
    <2>4. dentry' \in [Ino -> [Name -> Dentries]]
        BY <2>3, DentryType
    <2>. QED
        BY <1>2, <2>1, <2>2, <2>4 DEF Link, TypeOK, Dentries, Count
<1>3. ASSUME Mkdir(d, nm, bad, err)
      PROVE  TypeOK'
    <2>1. nextino \in Ino /\ nextino' \in FirstIno .. MaxIno + 1
        BY <1>3, InoFacts, NameiAssumption DEF Mkdir, HasIno, TypeOK, FirstIno
    <2>2. MakeEmpty(nextino, d) \in Seq(Entry)
        BY <2>1 DEF MakeEmpty, Slot, Entry
    <2>3. Added(d, nm, nextino, bad) \in [Ino -> Seq(Entry)]
        BY <2>1, AddedType
    <2>4. dirent' \in [Ino -> Seq(Entry)]
        <3>1. PICK X \in [Ino -> Seq(Entry)], e \in Seq(Entry) :
                  X = Added(d, nm, nextino, bad) /\ e = MakeEmpty(nextino, d)
            BY <2>2, <2>3
        <3>2. dirent' = X \/ dirent' = [X EXCEPT ![nextino] = e]
            BY <1>3, <3>1 DEF Mkdir
        <3>3. [X EXCEPT ![nextino] = e] \in [Ino -> Seq(Entry)]
            OBVIOUS
        <3>. QED
            BY ONLY <3>1, <3>2, <3>3
    <2>5. mode' \in [Ino -> Mode] /\ parent' \in [Ino -> Ino]
        <3>1. /\ mode' = mode \/ mode' = [mode EXCEPT ![nextino] = "dir"]
              /\ parent' = parent \/ parent' = [parent EXCEPT ![nextino] = d]
            BY <1>3 DEF Mkdir
        <3>2. mode \in [Ino -> Mode] /\ "dir" \in Mode /\ parent \in [Ino -> Ino]
            BY DEF TypeOK, Mode
        <3>. QED
            BY <3>1, <3>2
    <2>8. nlink' \in [Ino -> Count]
        <3>. DEFINE one == [nlink EXCEPT ![d] = @ + 1]
        <3>0. nlink \in [Ino -> Count]
            BY DEF TypeOK, Count
        <3>1. one \in [Ino -> Count]
            BY <1>3, <3>0, CountFacts DEF Mkdir, LinkRoom
        <3>2. [one EXCEPT ![nextino] = 2] \in [Ino -> Count]
            <4>. HIDE DEF one
            <4>. QED
                BY <2>1, <3>1, CountFacts
        <3>. QED
            BY <1>3, <3>0, <3>2 DEF Mkdir
    <2>6. dentry' = dentry \/ dentry' = [dentry EXCEPT ![d][nm] = nextino]
        BY <1>3 DEF Mkdir
    <2>7. dentry' \in [Ino -> [Name -> Dentries]]
        <3>1. nextino \in Dentries
            BY <2>1
        <3>. QED
            BY <2>6, <3>1, DentryType
    <2>. QED
        BY <1>3, <2>1, <2>4, <2>5, <2>7, <2>8 DEF Mkdir, TypeOK, Dentries, Count
<1>4. ASSUME Unlink(d, nm, bad, err)
      PROVE  TypeOK'
    <2>1. dirent' \in [Ino -> Seq(Entry)]
        BY <1>4, FreedType DEF Unlink, TypeOK
    <2>2. nlink' \in [Ino -> Count]
        <3>1. nlink \in [Ino -> Count]
            BY DEF TypeOK, Count
        <3>. QED
            BY <1>4, <3>1, CountFacts DEF Unlink
    <2>3. dentry' = dentry \/ \E v \in Dentries : dentry' = [dentry EXCEPT ![d][nm] = v]
        BY <1>4 DEF Unlink, Deleted
    <2>4. dentry' \in [Ino -> [Name -> Dentries]]
        BY <2>3, DentryType
    <2>. QED
        BY <1>4, <2>1, <2>2, <2>4 DEF Unlink, TypeOK, Dentries, Count
<1>5. ASSUME Rmdir(d, nm, bad, err)
      PROVE  TypeOK'
    <2>. DEFINE i == dentry[d][nm]
    <2>1. dirent' \in [Ino -> Seq(Entry)]
        BY <1>5, FreedType DEF Rmdir, TypeOK
    <2>2. i \in Ino
        BY <1>5 DEF Rmdir, CanDelete
    <2>3. nlink' \in [Ino -> Count]
        <3>1. \/ nlink' = nlink
              \/ nlink' = [nlink EXCEPT ![i] = Dropped(@, 2), ![d] = Dropped(@, 1)]
            BY <1>5 DEF Rmdir
        <3>2. nlink \in [Ino -> Count]
            BY DEF TypeOK, Count
        <3>. HIDE DEF i
        <3>. QED
            BY <3>1, <3>2, CountFacts
    <2>4. dead' \subseteq Ino
        BY <1>5, <2>2 DEF Rmdir, TypeOK
    <2>5. dentry' \in [Ino -> [Name -> Dentries]]
        <3>1. \/ dentry' = dentry
              \/ \E v \in Dentries :
                    dentry' = [dentry EXCEPT ![d][nm] = v, ![i] = NoDentries]
            BY <1>5 DEF Rmdir, Deleted
        <3>2. ASSUME NEW v \in Dentries
              PROVE  [dentry EXCEPT ![d][nm] = v, ![i] = NoDentries]
                         \in [Ino -> [Name -> Dentries]]
            <4>. DEFINE new == [dentry EXCEPT ![d][nm] = v]
            <4>1. new \in [Ino -> [Name -> Dentries]]
                BY <3>2, DentryType
            <4>2. NoDentries \in [Name -> Dentries]
                BY DEF NoDentries
            <4>3. [new EXCEPT ![i] = NoDentries] \in [Ino -> [Name -> Dentries]]
                <5>. HIDE DEF new
                <5>. QED
                    BY <4>1, <4>2
            <4>. QED
                BY <4>3
        <3>3. dentry \in [Ino -> [Name -> Dentries]]
            BY DentryType
        <3>. QED
            <4>1. CASE dentry' = dentry
                BY <3>3, <4>1
            <4>2. ASSUME NEW v \in Dentries,
                         dentry' = [dentry EXCEPT ![d][nm] = v, ![i] = NoDentries]
                  PROVE  dentry' \in [Ino -> [Name -> Dentries]]
                <5>. DEFINE left == [dentry EXCEPT ![d][nm] = v, ![i] = NoDentries]
                <5>1. left \in [Ino -> [Name -> Dentries]] /\ dentry' = left
                    BY <3>2, <4>2
                <5>. HIDE DEF left
                <5>. QED
                    BY <5>1
            <4>. QED
                BY <3>1, <4>1, <4>2
    <2>. QED
        BY <1>5, <2>1, <2>3, <2>4, <2>5 DEF Rmdir, TypeOK, Dentries, Count
<1>6. ASSUME NEW nd \in Ino, NEW nn \in Name, RenameNew(d, nm, nd, nn, bad, err)
      PROVE  TypeOK'
    <2>. DEFINE src == dentry[d][nm]
    <2>1. src \in Ino
        BY <1>6 DEF RenameNew, CanRename, CanDelete
    <2>2. Added(nd, nn, src, bad) \in [Ino -> Seq(Entry)]
        BY <2>1, AddedType
    <2>3. dirent' \in [Ino -> Seq(Entry)]
        <3>1. Moved(d, nm, nd, Added(nd, nn, src, bad), bad) \in [Ino -> Seq(Entry)]
            BY <2>2, MovedType
        <3>. QED
            BY <1>6, <2>2, <3>1 DEF RenameNew
    <2>4. nlink' \in [Ino -> Count]
        <3>1. \/ nlink' = nlink
              \/ /\ nlink[nd] < LinkMax
                 /\ nlink' = [nlink EXCEPT ![nd] = @ + 1, ![d] = Dropped(@, 1)]
            BY <1>6 DEF RenameNew, LinkRoom
        <3>2. nlink \in [Ino -> Count]
            BY DEF TypeOK, Count
        <3>. QED
            BY <3>1, <3>2, CountFacts
    <2>5. dentry' \in [Ino -> [Name -> Dentries]] /\ parent' \in [Ino -> Ino]
        <3>1. \/ dentry' = dentry /\ parent' = parent
              \/ /\ dentry' = MovedDentry(d, nm, nd, nn)
                 /\ parent' = MovedParent(d, nm, nd)
            BY <1>6 DEF RenameNew
        <3>. QED
            <4>1. parent \in [Ino -> Ino]
                BY DEF TypeOK
            <4>2. dentry \in [Ino -> [Name -> Dentries]]
                BY DentryType
            <4>3. /\ MovedDentry(d, nm, nd, nn) \in [Ino -> [Name -> Dentries]]
                  /\ MovedParent(d, nm, nd) \in [Ino -> Ino]
                BY MovedDentryType
            <4>. QED
                BY <3>1, <4>1, <4>2, <4>3
    <2>. QED
        BY <1>6, <2>3, <2>4, <2>5 DEF RenameNew, TypeOK, Dentries, Count
<1>. QED
    BY <1>1, <1>2, <1>3, <1>4, <1>5, <1>6 DEF NextNames

\* Replacing a name by a rename does.
LEMMA TypeOKRenameOver ==
    ASSUME TypeOK, NEW od \in Ino, NEW nd \in Ino, NEW on \in Name, NEW nn \in Name,
           NEW bad \in ReadFaults, RenameOver(od, on, nd, nn, bad)
    PROVE  TypeOK'
<1>. DEFINE src == dentry[od][on]
            tgt == dentry[nd][nn]
<1>1. src \in Ino /\ tgt \in Ino
    BY DEF RenameOver, CanRename, CanDelete
<1>2. [dirent EXCEPT ![nd] = SetLink(@, Found(nd, nn, bad), src)]
          \in [Ino -> Seq(Entry)]
    BY <1>1, RelinkedType DEF TypeOK
<1>3. dirent' \in [Ino -> Seq(Entry)]
    BY <1>2, MovedType DEF RenameOver
<1>4. nlink' \in [Ino -> Count]
    <2>1. nlink \in [Ino -> Count]
        BY DEF TypeOK, Count
    <2>2. \/ nlink' = [nlink EXCEPT ![tgt] = Dropped(@, 2), ![od] = Dropped(@, 1)]
          \/ nlink' = [nlink EXCEPT ![tgt] = Dropped(@, 1)]
        BY DEF RenameOver, LinksReplaced
    <2>. HIDE DEF tgt
    <2>. QED
        BY <1>1, <2>1, <2>2, CountFacts
<1>5. /\ MovedDentry(od, on, nd, nn)
              \in [Ino -> [Name -> Dentries]]
      /\ MovedParent(od, on, nd) \in [Ino -> Ino]
    BY MovedDentryType
<1>6. NoDentries \in [Name -> Dentries]
    BY DEF NoDentries, Dentries
<1>7. dentry' \in [Ino -> [Name -> Dentries]]
    BY <1>5, <1>6 DEF RenameOver
<1>8. dead' \subseteq Ino
    BY <1>1 DEF RenameOver, TypeOK
<1>. QED
    BY <1>3, <1>4, <1>5, <1>7, <1>8 DEF RenameOver, TypeOK, Dentries, Count

\* Every state of the namespace is well typed, whatever fails.
THEOREM TypeCorrect == Spec => []TypeOK
<1>1. Init => TypeOK
    <2>1. << >> \in Seq(Entry)
        OBVIOUS
    <2>. QED
        BY <2>1, InoFacts, NameiAssumption DEF Init, TypeOK, Mode, FirstIno
<1>2. TypeOK /\ [Next]_vars => TypeOK'
    <2>1. TypeOK /\ Next => TypeOK'
        BY TypeOKNames, TypeOKRenameOver, TypeOKReferences DEF Next
    <2>2. TypeOK /\ UNCHANGED vars => TypeOK'
        BY DEF vars, TypeOK
    <2>. QED
        BY <2>1, <2>2
<1>. QED
    BY <1>1, <1>2, PTL DEF Spec
-----------------------------------------------------------------------------
(***************************************************************************)
(* Removed directories                                                     *)
(***************************************************************************)

\* A directory without names.
OnlyDots(es) ==
    \A k \in DOMAIN es : es[k].ino # 0 => es[k].name \in {Dot, DotDot}

\* What gbfs_empty_dir accepts has no names, if all its pages can be read.
LEMMA EmptyDirOnlyDots ==
    ASSUME NEW es, NEW self, EmptyDir(es, self, {})
    PROVE  OnlyDots(es)
BY DEF EmptyDir, OnlyDots

\* gbfs_add_link changes the one directory it is called on.
LEMMA AddedOthers ==
    ASSUME TypeOK, NEW d \in Ino, NEW nm, NEW i, NEW bad, NEW x \in Ino, x # d
    PROVE  Added(d, nm, i, bad)[x] = dirent[x]
BY DEF Added, TypeOK

\* Directories by inode number.
Directories == [Ino -> Seq(Entry)]

\* The tail of a rename changes the directory the old name was in, and the
\* directory that moved.
LEMMA MovedOthers ==
    ASSUME NEW ents \in Directories, NEW od, NEW on, NEW nd, NEW bad
    PROVE  \A x \in Ino \ {od} :
               (mode[dentry[od][on]] = "dir" => x # dentry[od][on]) =>
                   Moved(od, on, nd, ents, bad)[x] = ents[x]
<1>. DEFINE cut == [ents EXCEPT ![od] = DeleteEntry(@, Found(od, on, bad))]
<1>. TAKE x \in Ino \ {od}
<1>. HAVE mode[dentry[od][on]] = "dir" => x # dentry[od][on]
<1>1. cut[x] = ents[x]
    BY DEF Directories
<1>2. DOMAIN cut = Ino
    BY DEF Directories
<1>3. mode[dentry[od][on]] = "dir" =>
          [cut EXCEPT ![dentry[od][on]] = SetLink(@, 2, nd)][x] = cut[x]
    <2>. HIDE DEF cut
    <2>. QED
        BY <1>2
<1>. QED
    BY <1>1, <1>3 DEF Moved

\* A directory that is dead already changes only when it is evicted.
LEMMA DeadUntouched ==
    ASSUME TypeOK, NEW x \in dead,
           \/ \E d \in Ino, nm \in Name, bad \in ReadFaults, err \in CommitFaults :
                 NextNames(d, nm, bad, err)
           \/ \E od, nd \in Ino, on, nn \in Name, bad \in ReadFaults :
                 RenameOver(od, on, nd, nn, bad)
    PROVE  OnlyDots(dirent[x]) => OnlyDots(dirent'[x])
<1>. x \in Ino /\ dirent \in [Ino -> Seq(Entry)]
    BY DEF TypeOK
<1>1. ASSUME NEW d \in Ino, NEW nm \in Name, NEW bad, NEW err,
             Create(d, nm, bad, err) \/ \E i \in Ino : Link(i, d, nm, bad, err)
      PROVE  dirent'[x] = dirent[x]
    <2>1. x # d
        BY <1>1 DEF Create, Link, CanCreate, Walked, LiveDir
    <2>2. dirent' = Added(d, nm, nextino, bad)
          \/ \E i \in Ino : dirent' = Added(d, nm, i, bad)
        BY <1>1 DEF Create, Link
    <2>. QED
        BY <2>1, <2>2, AddedOthers
<1>2. ASSUME NEW d \in Ino, NEW nm \in Name, NEW bad, NEW err,
             Mkdir(d, nm, bad, err)
      PROVE  dirent'[x] = dirent[x] \/ dirent'[x] = MakeEmpty(nextino, d)
    <2>. DEFINE new == Added(d, nm, nextino, bad)
    <2>0. nextino \in Ino
        BY <1>2, InoFacts DEF Mkdir, TypeOK
    <2>1. x # d
        BY <1>2 DEF Mkdir, CanCreate, Walked, LiveDir
    <2>2. new \in [Ino -> Seq(Entry)] /\ new[x] = dirent[x]
        BY <2>0, <2>1, AddedType, AddedOthers
    <2>3. dirent' = new \/ dirent' = [new EXCEPT ![nextino] = MakeEmpty(nextino, d)]
        BY <1>2 DEF Mkdir
    <2>. HIDE DEF new
    <2>. QED
        BY <2>2, <2>3
<1>3. ASSUME NEW d \in Ino, NEW nm \in Name, NEW bad, NEW err,
             Unlink(d, nm, bad, err) \/ Rmdir(d, nm, bad, err)
      PROVE  dirent'[x] = dirent[x]
    BY <1>3 DEF Unlink, Rmdir, CanDelete, Walked, LiveDir
<1>4. ASSUME NEW od \in Ino, NEW on \in Name, NEW nd \in Ino, NEW nn \in Name,
             NEW bad, NEW err, RenameNew(od, on, nd, nn, bad, err)
      PROVE  dirent'[x] = dirent[x]
    <2>. DEFINE src == dentry[od][on]
                new == Added(nd, nn, src, bad)
    <2>0. src \in Ino
        BY <1>4 DEF RenameNew, CanRename, CanDelete
    <2>1. x # od /\ x # nd /\ (mode[src] = "dir" => x # src)
        BY <1>4 DEF RenameNew, CanRename, CanDelete, Walked, LiveDir
    <2>2. new \in [Ino -> Seq(Entry)] /\ new[x] = dirent[x]
        BY <2>0, <2>1, AddedType, AddedOthers
    <2>3. dirent' = new \/ dirent' = Moved(od, on, nd, new, bad)
        BY <1>4 DEF RenameNew
    <2>4. \A y \in Ino \ {od} :
              (mode[src] = "dir" => y # src) => Moved(od, on, nd, new, bad)[y] = new[y]
        <3>1. new \in Directories
            BY <2>2 DEF Directories
        <3>. HIDE DEF new
        <3>. QED
            BY ONLY <3>1, MovedOthers
    <2>5. Moved(od, on, nd, new, bad)[x] = new[x]
        BY <2>1, <2>4
    <2>. QED
        BY <2>2, <2>3, <2>5
<1>5. ASSUME NEW od \in Ino, NEW on \in Name, NEW nd \in Ino, NEW nn \in Name,
             NEW bad, RenameOver(od, on, nd, nn, bad)
      PROVE  dirent'[x] = dirent[x]
    <2>. DEFINE src == dentry[od][on]
                new == [dirent EXCEPT ![nd] = SetLink(@, Found(nd, nn, bad), src)]
    <2>0. src \in Ino
        BY <1>5 DEF RenameOver, CanRename, CanDelete
    <2>1. x # od /\ x # nd /\ (mode[src] = "dir" => x # src)
        BY <1>5 DEF RenameOver, CanRename, CanDelete, Walked, LiveDir
    <2>2. new \in [Ino -> Seq(Entry)] /\ new[x] = dirent[x]
        BY <2>0, <2>1, RelinkedType
    <2>3. dirent' = Moved(od, on, nd, new, bad)
        BY <1>5 DEF RenameOver
    <2>4. \A y \in Ino \ {od} :
              (mode[src] = "dir" => y # src) => Moved(od, on, nd, new, bad)[y] = new[y]
        <3>1. new \in Directories
            BY <2>2 DEF Directories
        <3>. HIDE DEF new
        <3>. QED
            BY ONLY <3>1, MovedOthers
    <2>5. Moved(od, on, nd, new, bad)[x] = new[x]
        BY <2>1, <2>4
    <2>. QED
        BY <2>2, <2>3, <2>5
<1>6. OnlyDots(MakeEmpty(nextino, x)) /\ \A d : OnlyDots(MakeEmpty(nextino, d))
    BY DEF OnlyDots, MakeEmpty, Slot
<1>. QED
    BY <1>1, <1>2, <1>3, <1>4, <1>5, <1>6 DEF NextNames

\* A directory that rmdir removes has just been found empty.
LEMMA RmdirEmpty ==
    ASSUME TypeOK, NEW d \in Ino, NEW nm \in Name, NEW err, Rmdir(d, nm, {}, err)
    PROVE  OnlyDots(dirent'[dentry[d][nm]])
<1>. DEFINE i == dentry[d][nm]
            k == Found(d, nm, {})
<1>1. i \in Ino /\ dirent \in [Ino -> Seq(Entry)]
    BY DEF Rmdir, CanDelete, TypeOK
<1>2. OnlyDots(dirent[i])
    BY EmptyDirOnlyDots DEF Rmdir, BadPages
<1>3. dirent' = [dirent EXCEPT ![d] = DeleteEntry(@, k)]
    BY DEF Rmdir
<1>4. ASSUME NEW j \in DOMAIN dirent'[i], dirent'[i][j].ino # 0
      PROVE  j \in DOMAIN dirent[i] /\ dirent'[i][j] = dirent[i][j]
    <2>1. CASE i # d
        BY <1>1, <1>3, <1>4, <2>1
    <2>2. CASE i = d
        <3>. HIDE DEF i, k
        <3>1. dirent'[i] = [dirent[i] EXCEPT ![k] = Slot(0, @.name)]
            BY <1>1, <1>3, <2>2 DEF DeleteEntry, SetLink
        <3>2. j \in DOMAIN dirent[i]
            BY <1>4, <3>1
        <3>3. j = k => dirent'[i][j] = Slot(0, dirent[i][k].name)
            BY <3>1, <3>2
        <3>4. j # k
            BY <1>4, <3>3 DEF Slot
        <3>. QED
            BY <3>1, <3>2, <3>4
    <2>. QED
        BY <2>1, <2>2
<1>. QED
    BY <1>2, <1>4 DEF OnlyDots

\* So has a directory that rename replaces; the new name goes elsewhere.
LEMMA RenameOverEmpty ==
    ASSUME TypeOK, NEW od \in Ino, NEW on \in Name, NEW nd \in Ino, NEW nn \in Name,
           RenameOver(od, on, nd, nn, {}), mode[dentry[od][on]] = "dir"
    PROVE  OnlyDots(dirent'[dentry[nd][nn]])
<1>. DEFINE src == dentry[od][on]
            tgt == dentry[nd][nn]
            new == [dirent EXCEPT ![nd] = SetLink(@, Found(nd, nn, {}), src)]
<1>0. nn \notin {Dot, DotDot} /\ on \notin {Dot, DotDot}
    BY NameiAssumption
<1>1. src \in Ino /\ tgt \in Ino /\ tgt # src /\ dirent \in [Ino -> Seq(Entry)]
    BY DEF RenameOver, CanRename, CanDelete, TypeOK
<1>2. OnlyDots(dirent[tgt])
    BY EmptyDirOnlyDots DEF RenameOver, BadPages
<1>3. ASSUME NEW d \in Ino, NEW m \in Name, Found(d, m, {}) # 0
      PROVE  d # tgt
    <2>1. dirent[d] \in Seq(Slots(Ino \cup {0}, Name \cup {Dot, DotDot}))
        BY <1>1, EntryIsSlots
    <2>2. BadPages({}, d) = {}
        BY DEF BadPages
    <2>3. Found(d, m, {}) \in Matches(dirent[d], m, {})
        BY <1>3, <2>1, <2>2, FindEntryProperty DEF Found
    <2>4. \E k \in DOMAIN dirent[d] : dirent[d][k].ino # 0 /\ dirent[d][k].name = m
        BY <2>3 DEF Matches
    <2>. QED
        BY <1>2, <2>4, NameiAssumption DEF OnlyDots
<1>4. tgt # nd /\ tgt # od
    BY <1>3 DEF RenameOver, CanRename
<1>5. new \in [Ino -> Seq(Entry)] /\ new[tgt] = dirent[tgt]
    BY <1>1, <1>4, RelinkedType
<1>6. dirent' = Moved(od, on, nd, new, {})
    BY DEF RenameOver
<1>7. dirent'[tgt] = new[tgt]
    <2>1. \A y \in Ino \ {od} :
              (mode[src] = "dir" => y # src) => Moved(od, on, nd, new, {})[y] = new[y]
        <3>1. new \in Directories
            BY <1>5 DEF Directories
        <3>. HIDE DEF new
        <3>. QED
            BY ONLY <3>1, MovedOthers
    <2>2. Moved(od, on, nd, new, {})[tgt] = new[tgt]
        BY <1>1, <1>4, <2>1
    <2>. QED
        BY <1>6, <2>2
<1>. QED
    BY <1>2, <1>5, <1>7

\* One step.
LEMMA DeadStep ==
    ASSUME TypeOK, DeadDirEmpty, Next, ReadFaults = {{}}
    PROVE  DeadDirEmpty'
<1>1. \A x \in dead : OnlyDots(dirent[x])
    BY DEF DeadDirEmpty, OnlyDots
<1>2. ASSUME NEW d \in Ino, NEW nm \in Name, NEW err \in CommitFaults,
             NextNames(d, nm, {}, err)
      PROVE  \A x \in dead' : OnlyDots(dirent'[x])
    <2>1. \A x \in dead : OnlyDots(dirent'[x])
        BY <1>1, <1>2, DeadUntouched
    <2>2. CASE Rmdir(d, nm, {}, err)
        <3>1. dead' = dead \/ dead' = dead \cup {dentry[d][nm]}
            BY <2>2 DEF Rmdir
        <3>. QED
            BY <2>1, <2>2, <3>1, RmdirEmpty
    <2>3. CASE ~Rmdir(d, nm, {}, err)
        <3>1. UNCHANGED dead
            BY <1>2, <2>3 DEF NextNames, Create, Link, Mkdir, Unlink, RenameNew
        <3>. QED
            BY <2>1, <3>1
    <2>. QED
        BY <2>2, <2>3
<1>3. ASSUME NEW od \in Ino, NEW nd \in Ino, NEW on \in Name, NEW nn \in Name,
             RenameOver(od, on, nd, nn, {})
      PROVE  \A x \in dead' : OnlyDots(dirent'[x])
    <2>1. \A x \in dead : OnlyDots(dirent'[x])
        BY <1>1, <1>3, DeadUntouched
    <2>2. \/ dead' = dead
          \/ mode[dentry[od][on]] = "dir" /\ dead' = dead \cup {dentry[nd][nn]}
        BY <1>3 DEF RenameOver
    <2>. QED
        BY <1>3, <2>1, <2>2, RenameOverEmpty
<1>4. ASSUME NEW d \in Ino, NEW nm \in Name,
             Lookup(d, nm, {}) \/ DropDentry(d, nm) \/ CreateAborts(d, nm)
      PROVE  UNCHANGED <<dead, dirent>>
    BY <1>4 DEF Lookup, DropDentry, CreateAborts
<1>5. ASSUME NEW i \in Ino, Tmpfile(i) \/ Open(i) \/ Close(i)
      PROVE  UNCHANGED <<dead, dirent>>
    BY <1>5 DEF Tmpfile, Open, Close
<1>6. ASSUME NEW i \in Ino, Evict(i)
      PROVE  \A x \in dead' : OnlyDots(dirent'[x])
    BY <1>1, <1>6 DEF Evict, TypeOK
<1>7. \A x \in dead' : OnlyDots(dirent'[x])
    BY <1>1, <1>2, <1>3, <1>4, <1>5, <1>6 DEF Next
<1>. QED
    BY <1>7 DEF DeadDirEmpty, OnlyDots

\* If every directory page can be read, rmdir and rename never remove a
\* directory with a file in it, even when commits fail.
THEOREM RemovedEmpty ==
    ASSUME ReadFaults = {{}}
    PROVE  Spec => []DeadDirEmpty
<1>1. Init => DeadDirEmpty
    BY DEF Init, DeadDirEmpty
<1>2. TypeOK /\ DeadDirEmpty /\ [Next]_vars => DeadDirEmpty'
    BY DeadStep DEF DeadDirEmpty, vars
<1>. QED
    BY <1>1, <1>2, TypeCorrect, PTL DEF Spec
-----------------------------------------------------------------------------
(***************************************************************************)
(* One directory and its dentries                                          *)
(***************************************************************************)

\* The directories of the model.
Directory == Seq(Slots(Ino \cup {0}, Name \cup {Dot, DotDot}))

\* The dentries of a directory after that of nm has become v.
Rebind(ds, nm, v) == [ds EXCEPT ![nm] = v]

\* A name that is absent is added.
LEMMA CoherentAdd ==
    ASSUME NEW es \in Directory, NEW ds \in [Name -> Dentries], Coherent(es, ds),
           NEW nm \in Name, ds[nm] = Negative, NEW i \in Ino, i # Root,
           AddSlot(es, nm, {}) # 0,
           NEW fs, fs = FillSlot(es, AddSlot(es, nm, {}), nm, i),
           NEW gs, gs = Rebind(ds, nm, i)
    PROVE  /\ fs \in Directory
           /\ Coherent(fs, gs)
           /\ Dotted(es) => Dotted(fs)
           /\ \A j \in 1 .. Len(es) : es[j].ino # 0 =>
                  j \in 1 .. Len(fs) /\ fs[j] = es[j]
<1>1. InodeByName(es, nm, {}) = 0 /\ Unique(es) /\ i # 0
    BY InoFacts DEF Coherent, Negative
<1>2. /\ fs \in Directory /\ Len(fs) >= Len(es) /\ Unique(fs)
      /\ InodeByName(fs, nm, {}) = i
      /\ \A m : m # nm => InodeByName(fs, m, {}) = InodeByName(es, m, {})
      /\ \A j \in 1 .. Len(es) : es[j].ino # 0 => fs[j] = es[j]
      /\ \A j \in 1 .. Len(fs) : \/ j \in 1 .. Len(es) /\ fs[j] = es[j]
                                 \/ fs[j] = Slot(i, nm)
    BY <1>1, FillSlotEffect DEF Directory
<1>3. Len(es) \in Nat /\ Len(fs) \in Nat
    BY <1>2
<1>4. \A m \in Name : gs[m] # NoDentry => gs[m] = InodeByName(fs, m, {})
    BY <1>2 DEF Coherent, Rebind
<1>5. \A k \in 1 .. Len(fs) : fs[k].name \in Name => fs[k].ino # Root
    BY <1>2 DEF Coherent, Slot
<1>6. Dotted(es) => Dotted(fs)
    BY <1>2, <1>3 DEF Dotted
<1>. QED
    BY <1>2, <1>3, <1>4, <1>5, <1>6 DEF Coherent

\* The slot of a name is given another inode number, or freed.
LEMMA CoherentRelink ==
    ASSUME NEW es \in Directory, NEW ds \in [Name -> Dentries], Coherent(es, ds),
           NEW nm \in Name, NEW k \in 1 .. Len(es), es[k].ino # 0, es[k].name = nm,
           NEW i \in Ino \cup {0}, i # Root, NEW v \in {i, NoDentry},
           NEW fs, fs = SetLink(es, k, i), NEW gs, gs = Rebind(ds, nm, v)
    PROVE  /\ fs \in Directory /\ Len(fs) = Len(es)
           /\ Coherent(fs, gs)
           /\ Dotted(es) => Dotted(fs)
           /\ \A j \in 1 .. Len(es) : j # k => fs[j] = es[j]
<1>1. /\ fs \in Directory /\ Len(fs) = Len(es) /\ Unique(fs)
      /\ InodeByName(fs, nm, {}) = i
      /\ \A m : m # nm => InodeByName(fs, m, {}) = InodeByName(es, m, {})
      /\ \A j \in 1 .. Len(es) : j # k => fs[j] = es[j]
      /\ fs[k] = Slot(i, nm)
    BY SetLinkEffect DEF Directory, Coherent
<1>2. \A m \in Name : gs[m] # NoDentry => gs[m] = InodeByName(fs, m, {})
    BY <1>1 DEF Coherent, Rebind
<1>3. \A j \in 1 .. Len(fs) : fs[j].name \in Name => fs[j].ino # Root
    BY <1>1 DEF Coherent, Slot
<1>4. ASSUME Dotted(es) PROVE Dotted(fs)
    <2>1. k # 1 /\ k # 2
        BY <1>4, NameiAssumption DEF Dotted
    <2>2. 1 \in 1 .. Len(es) /\ 2 \in 1 .. Len(es)
        BY <1>4 DEF Dotted
    <2>. QED
        BY <1>1, <1>4, <2>1, <2>2 DEF Dotted
<1>. QED
    BY <1>1, <1>2, <1>3, <1>4 DEF Coherent

\* ".." is given another inode number.
LEMMA CoherentDotDot ==
    ASSUME NEW es \in Directory, NEW ds \in [Name -> Dentries], Coherent(es, ds),
           Dotted(es), NEW i \in Ino, NEW fs, fs = SetLink(es, 2, i)
    PROVE  fs \in Directory /\ Coherent(fs, ds) /\ Dotted(fs)
<1>0. 2 \in 1 .. Len(es) /\ 1 \in 1 .. Len(es) /\ es[2].ino # 0 /\ es[2].name = DotDot
    BY DEF Dotted
<1>1. /\ fs \in Directory /\ Len(fs) = Len(es) /\ Unique(fs)
      /\ \A m : m # DotDot => InodeByName(fs, m, {}) = InodeByName(es, m, {})
      /\ \A j \in 1 .. Len(es) : j # 2 => fs[j] = es[j]
      /\ fs[2] = Slot(i, DotDot)
    BY <1>0, SetLinkEffect DEF Directory, Coherent
<1>2. \A m \in Name : ds[m] # NoDentry => ds[m] = InodeByName(fs, m, {})
    BY <1>1, NameiAssumption DEF Coherent
<1>3. \A j \in 1 .. Len(fs) : fs[j].name \in Name => fs[j].ino # Root
    BY <1>1, NameiAssumption DEF Coherent, Slot
<1>4. Dotted(fs)
    BY <1>0, <1>1, InoFacts DEF Dotted, Slot
<1>. QED
    BY <1>1, <1>2, <1>3, <1>4 DEF Coherent

\* Dentries are forgotten or looked up.
LEMMA CoherentDentries ==
    ASSUME NEW es, NEW ds \in [Name -> Dentries], Coherent(es, ds), NEW nm \in Name
    PROVE  /\ Coherent(es, NoDentries)
           /\ Coherent(es, [ds EXCEPT ![nm] = NoDentry])
           /\ Coherent(es, [ds EXCEPT ![nm] = InodeByName(es, nm, {})])
BY DEF Coherent, NoDentries

\* A cached positive dentry has its slot, which a search finds.
LEMMA NamedSlot ==
    ASSUME NEW es \in Directory, NEW ds \in [Name -> Dentries], Coherent(es, ds),
           NEW nm \in Name, ds[nm] \in Ino
    PROVE  /\ ds[nm] # Root
           /\ FindEntry(es, nm, {}) \in 1 .. Len(es)
           /\ es[FindEntry(es, nm, {})].ino # 0
           /\ es[FindEntry(es, nm, {})].name = nm
<1>. DEFINE k == FindEntry(es, nm, {})
<1>1. InodeByName(es, nm, {}) = ds[nm] /\ ds[nm] # 0
    BY InoFacts DEF Coherent
<1>2. k # 0 /\ k \in 1 .. Len(es) /\ es[k].ino # 0 /\ es[k].name = nm
    BY <1>1, FoundWhenAbsent DEF Directory
<1>3. es[k].ino = ds[nm]
    BY <1>1, <1>2 DEF InodeByName
<1>. QED
    BY <1>2, <1>3 DEF Coherent
-----------------------------------------------------------------------------
(***************************************************************************)
(* All directories and their dentries                                      *)
(***************************************************************************)

Dcaches == [Ino -> [Name -> Dentries]]

\* Directories E and dentries D agree; M are the modes of the inodes.
View(E, D, M) ==
    /\ E \in Directories /\ D \in Dcaches
    /\ \A d \in Ino : Coherent(E[d], D[d])
    /\ \A d \in Ino \ {Root} : M[d] = "dir" => Dotted(E[d])

\* One directory and its dentries change.
LEMMA ViewChange ==
    ASSUME NEW E, NEW D, NEW M, View(E, D, M), NEW d \in Ino,
           NEW es \in Directory, NEW ds \in [Name -> Dentries], Coherent(es, ds),
           d # Root /\ M[d] = "dir" => Dotted(es)
    PROVE  View([E EXCEPT ![d] = es], [D EXCEPT ![d] = ds], M)
<1>1. /\ [E EXCEPT ![d] = es] \in Directories
      /\ [D EXCEPT ![d] = ds] \in Dcaches
    BY EntryIsSlots DEF View, Directories, Dcaches, Directory
<1>2. \A x \in Ino : /\ [E EXCEPT ![d] = es][x] = IF x = d THEN es ELSE E[x]
                     /\ [D EXCEPT ![d] = ds][x] = IF x = d THEN ds ELSE D[x]
    BY DEF View, Directories, Dcaches
<1>. QED
    BY <1>1, <1>2 DEF View

\* What View says of one directory.
LEMMA ViewOf ==
    ASSUME NEW E, NEW D, NEW M, View(E, D, M), NEW d \in Ino
    PROVE  /\ E[d] \in Directory /\ D[d] \in [Name -> Dentries]
           /\ Coherent(E[d], D[d])
           /\ d # Root /\ M[d] = "dir" => Dotted(E[d])
BY EntryIsSlots DEF View, Directories, Dcaches, Directory

\* Dentries of a directory are dropped, all of them or one.
LEMMA ViewForget ==
    ASSUME NEW E, NEW D, NEW M, View(E, D, M), NEW d \in Ino, NEW nm \in Name
    PROVE  /\ View(E, [D EXCEPT ![d] = NoDentries], M)
           /\ View(E, [D EXCEPT ![d][nm] = NoDentry], M)
           /\ View(E, [D EXCEPT ![d][nm] = InodeByName(E[d], nm, {})], M)
<1>. DEFINE es == E[d]
            ds == D[d]
            one == [ds EXCEPT ![nm] = NoDentry]
            got == [ds EXCEPT ![nm] = InodeByName(es, nm, {})]
<1>1. /\ es \in Directory /\ ds \in [Name -> Dentries] /\ Coherent(es, ds)
      /\ d # Root /\ M[d] = "dir" => Dotted(es)
    BY ViewOf
<1>2. Coherent(es, NoDentries) /\ Coherent(es, one) /\ Coherent(es, got)
    BY <1>1, CoherentDentries
<1>3. InodeByName(es, nm, {}) \in Dentries
    <2>1. InodeByName(es, nm, {}) \in Ino \cup {0}
        BY <1>1, InodeByNameType DEF Directory
    <2>. QED
        BY <2>1 DEF Dentries, Negative
<1>4. /\ NoDentries \in [Name -> Dentries]
      /\ one \in [Name -> Dentries] /\ got \in [Name -> Dentries]
    BY <1>1, <1>3 DEF NoDentries, Dentries
<1>5. [E EXCEPT ![d] = es] = E
    BY DEF View, Directories
<1>6. /\ [D EXCEPT ![d][nm] = NoDentry] = [D EXCEPT ![d] = one]
      /\ [D EXCEPT ![d][nm] = InodeByName(es, nm, {})] = [D EXCEPT ![d] = got]
    OBVIOUS
<1>. HIDE DEF es, ds, one, got
<1>7. /\ View([E EXCEPT ![d] = es], [D EXCEPT ![d] = NoDentries], M)
      /\ View([E EXCEPT ![d] = es], [D EXCEPT ![d] = one], M)
      /\ View([E EXCEPT ![d] = es], [D EXCEPT ![d] = got], M)
    BY <1>1, <1>2, <1>4, ViewChange
<1>. QED
    BY <1>5, <1>6, <1>7 DEF es

\* A name is added where its dentry is negative; slots in use stay.
LEMMA ViewAdd ==
    ASSUME NEW M, View(dirent, dentry, M), NEW d \in Ino, NEW nm \in Name,
           dentry[d][nm] = Negative, NEW i \in Ino, i # Root,
           AddedSlot(d, nm, {}) # 0
    PROVE  /\ View(Added(d, nm, i, {}), [dentry EXCEPT ![d][nm] = i], M)
           /\ \A x \in Ino : \A k \in 1 .. Len(dirent[x]) : dirent[x][k].ino # 0 =>
                  /\ k \in 1 .. Len(Added(d, nm, i, {})[x])
                  /\ Added(d, nm, i, {})[x][k] = dirent[x][k]
<1>. DEFINE es == dirent[d]
            ds == dentry[d]
            fs == FillSlot(es, AddSlot(es, nm, {}), nm, i)
            gs == Rebind(ds, nm, i)
<1>1. /\ es \in Directory /\ ds \in [Name -> Dentries] /\ Coherent(es, ds)
      /\ d # Root /\ M[d] = "dir" => Dotted(es)
    BY ViewOf
<1>2. AddedSlot(d, nm, {}) = AddSlot(es, nm, {})
    BY DEF AddedSlot, BadPages
<1>3. Added(d, nm, i, {}) = [dirent EXCEPT ![d] = fs]
    BY <1>2 DEF Added
<1>4. [dentry EXCEPT ![d][nm] = i] = [dentry EXCEPT ![d] = gs]
    BY DEF Rebind
<1>5. gs \in [Name -> Dentries]
    BY <1>1 DEF Dentries, Rebind
<1>. HIDE DEF fs
<1>6. /\ fs \in Directory
      /\ Coherent(fs, gs)
      /\ Dotted(es) => Dotted(fs)
      /\ \A j \in 1 .. Len(es) : es[j].ino # 0 => j \in 1 .. Len(fs) /\ fs[j] = es[j]
    <2>1. /\ nm \in Name /\ ds[nm] = Negative /\ i \in Ino /\ i # Root
          /\ AddSlot(es, nm, {}) # 0
          /\ fs = FillSlot(es, AddSlot(es, nm, {}), nm, i)
          /\ gs = Rebind(ds, nm, i)
        BY <1>2 DEF fs
    <2>. HIDE DEF es, ds, gs
    <2>. QED
        BY ONLY <1>1, <2>1, CoherentAdd
<1>7. View([dirent EXCEPT ![d] = fs], [dentry EXCEPT ![d] = gs], M)
    <2>. HIDE DEF es, ds, gs
    <2>. QED
        BY <1>1, <1>5, <1>6, ViewChange
<1>8. \A x \in Ino : [dirent EXCEPT ![d] = fs][x] = IF x = d THEN fs ELSE dirent[x]
    BY DEF View, Directories
<1>. HIDE DEF gs
<1>. QED
    BY <1>3, <1>4, <1>6, <1>7, <1>8

\* The slot of a name is relinked or freed, together with its dentry.
LEMMA ViewRelink ==
    ASSUME NEW E, NEW D, NEW M, View(E, D, M), NEW d \in Ino, NEW nm \in Name,
           NEW k \in 1 .. Len(E[d]), E[d][k].ino # 0, E[d][k].name = nm,
           NEW i \in Ino \cup {0}, i # Root, NEW v \in {i, NoDentry}
    PROVE  View([E EXCEPT ![d] = SetLink(@, k, i)], [D EXCEPT ![d][nm] = v], M)
<1>. DEFINE es == E[d]
            ds == D[d]
            fs == SetLink(es, k, i)
            gs == Rebind(ds, nm, v)
<1>1. /\ es \in Directory /\ ds \in [Name -> Dentries] /\ Coherent(es, ds)
      /\ d # Root /\ M[d] = "dir" => Dotted(es)
    BY ViewOf
<1>2. [E EXCEPT ![d] = SetLink(@, k, i)] = [E EXCEPT ![d] = fs]
    OBVIOUS
<1>3. [D EXCEPT ![d][nm] = v] = [D EXCEPT ![d] = gs]
    BY DEF Rebind
<1>4. v \in Dentries
    BY DEF Dentries, Negative
<1>5. gs \in [Name -> Dentries]
    BY <1>1, <1>4 DEF Rebind
<1>. HIDE DEF fs
<1>6. /\ fs \in Directory /\ Len(fs) = Len(es)
      /\ Coherent(fs, gs)
      /\ Dotted(es) => Dotted(fs)
      /\ \A j \in 1 .. Len(es) : j # k => fs[j] = es[j]
    <2>1. /\ nm \in Name /\ k \in 1 .. Len(es) /\ es[k].ino # 0 /\ es[k].name = nm
          /\ i \in Ino \cup {0} /\ i # Root /\ v \in {i, NoDentry}
          /\ fs = SetLink(es, k, i) /\ gs = Rebind(ds, nm, v)
        BY DEF fs
    <2>. HIDE DEF es, ds, gs
    <2>. QED
        BY ONLY <1>1, <2>1, CoherentRelink
<1>7. View([E EXCEPT ![d] = fs], [D EXCEPT ![d] = gs], M)
    <2>. HIDE DEF es, ds, gs
    <2>. QED
        BY <1>1, <1>5, <1>6, ViewChange
<1>. HIDE DEF gs
<1>. QED
    BY <1>2, <1>3, <1>7

\* A directory's ".." is relinked.
LEMMA ViewDotDot ==
    ASSUME NEW E, NEW D, NEW M, View(E, D, M), NEW d \in Ino, d # Root,
           M[d] = "dir", NEW i \in Ino
    PROVE  View([E EXCEPT ![d] = SetLink(@, 2, i)], D, M)
<1>. DEFINE es == E[d]
            ds == D[d]
            fs == SetLink(es, 2, i)
<1>1. /\ es \in Directory /\ ds \in [Name -> Dentries]
      /\ Coherent(es, ds) /\ Dotted(es)
    BY ViewOf
<1>. HIDE DEF fs
<1>2. fs \in Directory /\ Coherent(fs, ds) /\ Dotted(fs)
    BY <1>1, CoherentDotDot DEF fs
<1>3. View([E EXCEPT ![d] = fs], [D EXCEPT ![d] = ds], M)
    <2>. HIDE DEF es, ds
    <2>. QED
        BY <1>1, <1>2, ViewChange
<1>4. [D EXCEPT ![d] = ds] = D
    BY DEF View, Dcaches
<1>. QED
    BY <1>3, <1>4 DEF fs

\* The tail of a rename.
LEMMA ViewMoved ==
    ASSUME NEW E, NEW D, View(E, D, mode), NEW od \in Ino, NEW on \in Name,
           Found(od, on, {}) \in 1 .. Len(E[od]), E[od][Found(od, on, {})].ino # 0,
           E[od][Found(od, on, {})].name = on,
           dentry[od][on] \in Ino, dentry[od][on] # Root, NEW nd \in Ino
    PROVE  View(Moved(od, on, nd, E, {}), [D EXCEPT ![od][on] = NoDentry], mode)
<1>. DEFINE src == dentry[od][on]
            k   == Found(od, on, {})
            cut == [E EXCEPT ![od] = SetLink(@, k, 0)]
            D2  == [D EXCEPT ![od][on] = NoDentry]
<1>1. Root # 0
    BY InoFacts
<1>2. View(cut, D2, mode)
    <2>. HIDE DEF k
    <2>. QED
        BY <1>1, ViewRelink DEF k
<1>3. CASE mode[src] = "dir"
    <2>1. View([cut EXCEPT ![src] = SetLink(@, 2, nd)], D2, mode)
        <3>. HIDE DEF cut, D2
        <3>. QED
            BY <1>2, <1>3, ViewDotDot
    <2>2. Moved(od, on, nd, E, {}) = [cut EXCEPT ![src] = SetLink(@, 2, nd)]
        BY <1>3 DEF Moved, DeleteEntry
    <2>. QED
        BY <2>1, <2>2
<1>4. CASE mode[src] # "dir"
    <2>1. Moved(od, on, nd, E, {}) = cut
        BY <1>4 DEF Moved, DeleteEntry
    <2>. QED
        BY <1>2, <2>1
<1>. QED
    BY <1>3, <1>4
\* Inodes change what they are, and none becomes a directory.
LEMMA ViewMode ==
    ASSUME NEW E, NEW D, NEW M, View(E, D, M), NEW N,
           \A x \in Ino \ {Root} : N[x] = "dir" => M[x] = "dir"
    PROVE  View(E, D, N)
BY DEF View
-----------------------------------------------------------------------------
(***************************************************************************)
(* The operations, when every page can be read and every commit succeeds   *)
(***************************************************************************)

\* No page is bad.
LEMMA NoBadPages == \A d : BadPages({}, d) = {}
BY DEF BadPages

\* NameInv is View of the state, and two facts more.
LEMMA NameView ==
    ASSUME TypeOK
    PROVE  NameInv <=> /\ View(dirent, dentry, mode)
                       /\ mode[Root] = "dir" /\ FreshUnused
BY DEF NameInv, View, TypeOK, Directories, Dcaches, Dentries

\* The same of the next state.
LEMMA NameViewNext ==
    ASSUME TypeOK', View(dirent', dentry', mode'), mode'[Root] = "dir", FreshUnused'
    PROVE  NameInv'
BY DEF NameInv, View

\* Inode numbers not handed out yet stay unused when only others change.
LEMMA FreshStep ==
    ASSUME TypeOK, FreshUnused, nextino' \in {nextino, nextino + 1},
           \A x \in Ino : x >= nextino /\ x >= nextino' =>
               mode'[x] = mode[x] /\ dirent'[x] = dirent[x]
    PROVE  FreshUnused'
<1>1. nextino \in Nat /\ Ino \subseteq Nat
    BY InoFacts, NameiAssumption DEF TypeOK, FirstIno
<1>2. ASSUME NEW x \in Ino, x >= nextino'
      PROVE  x >= nextino
    BY <1>1, <1>2
<1>. QED
    BY <1>2 DEF FreshUnused

\* The next inode number is new.
LEMMA NextIno ==
    ASSUME TypeOK, FreshUnused, HasIno
    PROVE  /\ nextino \in Ino /\ nextino # Root /\ nextino \in Nat
           /\ mode[nextino] = "none" /\ dirent[nextino] = << >>
           /\ \A x \in Ino : x >= nextino + 1 => x # nextino
<1>1. nextino \in Ino /\ nextino \in Nat
    BY InoFacts DEF TypeOK
<1>2. nextino # Root
    BY NameiAssumption DEF TypeOK, FirstIno, Root
<1>3. nextino >= nextino
    BY <1>1
<1>. QED
    BY <1>1, <1>2, <1>3 DEF FreshUnused

\* Lookups fill in what the directory holds; the other steps on references
\* only forget.
LEMMA NameReferences ==
    ASSUME TypeOK, TypeOK', NameInv, NEW d \in Ino, NEW nm \in Name,
           Lookup(d, nm, {}) \/ DropDentry(d, nm) \/ Open(d) \/ Close(d)
    PROVE  NameInv'
<1>1. View(dirent, dentry, mode) /\ mode[Root] = "dir" /\ FreshUnused
    BY NameView
<1>. DEFINE drop == [dentry EXCEPT ![d][nm] = NoDentry]
            find == [dentry EXCEPT ![d][nm] = InodeByName(dirent[d], nm, {})]
<1>2. /\ dirent' = dirent /\ mode' = mode /\ nextino' = nextino
      /\ dentry' = dentry \/ dentry' = drop \/ dentry' = find
    BY NoBadPages DEF Lookup, DropDentry, Open, Close
<1>3. View(dirent, dentry', mode)
    <2>1. View(dirent, drop, mode) /\ View(dirent, find, mode)
        BY <1>1, ViewForget
    <2>. HIDE DEF drop, find
    <2>. QED
        BY <1>1, <1>2, <2>1
<1>4. FreshUnused'
    BY <1>1, <1>2 DEF FreshUnused
<1>. QED
    BY <1>1, <1>2, <1>3, <1>4, NameViewNext

\* A number is spent, on a file without a name or on nothing.
LEMMA NameSpent ==
    ASSUME TypeOK, TypeOK', NameInv, NEW d \in Ino, NEW nm,
           Tmpfile(d) \/ CreateAborts(d, nm)
    PROVE  NameInv'
<1>1. View(dirent, dentry, mode) /\ mode[Root] = "dir" /\ FreshUnused
    BY NameView
<1>2. HasIno
    BY DEF Tmpfile, CreateAborts
<1>3. /\ dirent' = dirent /\ dentry' = dentry /\ nextino' = nextino + 1
      /\ mode' = mode \/ mode' = [mode EXCEPT ![nextino] = "nondir"]
    BY DEF Tmpfile, CreateAborts
<1>4. \A x \in Ino : mode'[x] = mode[x] \/ (x = nextino /\ mode'[x] = "nondir")
    BY <1>3 DEF TypeOK
<1>5. View(dirent, dentry, mode')
    BY <1>1, <1>4, ViewMode
<1>6. mode'[Root] = "dir"
    BY <1>1, <1>2, <1>4, NextIno, InoFacts
<1>7. FreshUnused'
    BY <1>1, <1>2, <1>3, <1>4, NextIno, FreshStep
<1>. QED
    BY <1>3, <1>5, <1>6, <1>7, NameViewNext
\* An empty directory agrees with no dentries.
LEMMA CoherentEmpty == Coherent(<< >>, NoDentries)
BY DEF Coherent, Unique, NoDentries

\* An inode that is evicted has no dentries left.
LEMMA NameEvict ==
    ASSUME TypeOK, TypeOK', NameInv, NEW i \in Ino, Evict(i)
    PROVE  NameInv'
<1>. DEFINE cleared == [dirent EXCEPT ![i] = << >>]
<1>1. View(dirent, dentry, mode) /\ mode[Root] = "dir" /\ FreshUnused
    BY NameView
<1>2. /\ dirent' = cleared /\ mode' = [mode EXCEPT ![i] = "none"]
      /\ dentry' = dentry /\ nextino' = nextino /\ dentry[i] = NoDentries
      /\ i # Root
    BY DEF Evict, Cached
<1>3. /\ mode'[i] = "none"
      /\ \A x \in Ino \ {i} : mode'[x] = mode[x] /\ dirent'[x] = dirent[x]
      /\ dirent'[i] = << >>
    BY <1>2 DEF TypeOK
<1>4. View(dirent, dentry, mode')
    BY <1>1, <1>3, ViewMode
<1>5. View(cleared, [dentry EXCEPT ![i] = NoDentries], mode')
    <2>1. << >> \in Directory
        BY DEF Directory
    <2>2. NoDentries \in [Name -> Dentries]
        BY DEF NoDentries, Dentries
    <2>3. mode'[i] # "dir"
        BY <1>3
    <2>. QED
        BY <1>4, <2>1, <2>2, <2>3, CoherentEmpty, ViewChange
<1>6. [dentry EXCEPT ![i] = NoDentries] = dentry
    BY <1>2 DEF TypeOK
<1>7. View(dirent', dentry', mode')
    <2>. HIDE DEF cleared
    <2>. QED
        BY <1>2, <1>5, <1>6
<1>8. FreshUnused'
    BY <1>1, <1>2, <1>3 DEF FreshUnused
<1>. QED
    BY <1>1, <1>2, <1>3, <1>7, <1>8, InoFacts, NameViewNext

\* A directory whose slots change has been handed out.
LEMMA AddedFresh ==
    ASSUME TypeOK, FreshUnused, NEW d \in Ino, mode[d] = "dir", NEW nm \in Name,
           NEW i \in Ino
    PROVE  \A x \in Ino : x >= nextino => Added(d, nm, i, {})[x] = dirent[x]
<1>1. \A x \in Ino : x >= nextino => x # d
    BY DEF FreshUnused
<1>. QED
    BY <1>1, AddedOthers

\* A name is made for a new file, or for one that exists.
LEMMA NameCreate ==
    ASSUME TypeOK, TypeOK', NameInv, NEW d \in Ino, NEW nm \in Name,
           Create(d, nm, {}, 0)
    PROVE  NameInv'
<1>. DEFINE new   == Added(d, nm, nextino, {})
            bound == [dentry EXCEPT ![d][nm] = nextino]
<1>1. View(dirent, dentry, mode) /\ mode[Root] = "dir" /\ FreshUnused
    BY NameView
<1>2. HasIno /\ mode[d] = "dir" /\ dentry[d][nm] = Negative
    BY DEF Create, CanCreate, Walked, LiveDir
<1>3. nextino \in Ino /\ nextino # Root /\ nextino \in Nat
    BY <1>1, <1>2, NextIno
<1>4. nextino' = nextino + 1 /\ dirent' = new
    BY DEF Create
<1>5. \/ /\ AddedSlot(d, nm, {}) # 0
         /\ mode' = [mode EXCEPT ![nextino] = "nondir"] /\ dentry' = bound
      \/ /\ AddedSlot(d, nm, {}) = 0
         /\ new = dirent /\ mode' = mode /\ dentry' = dentry
    BY DEF Create, AddSucceeds, Added
<1>6. \A x \in Ino : mode'[x] = mode[x] \/ (x = nextino /\ mode'[x] = "nondir")
    BY <1>5 DEF TypeOK
<1>7. View(dirent', dentry', mode)
    <2>1. AddedSlot(d, nm, {}) # 0 => View(new, bound, mode)
        BY <1>1, <1>2, <1>3, ViewAdd
    <2>. HIDE DEF new, bound
    <2>. QED
        BY <1>1, <1>4, <1>5, <2>1
<1>8. View(dirent', dentry', mode')
    BY <1>6, <1>7, ViewMode
<1>9. mode'[Root] = "dir"
    BY <1>1, <1>3, <1>6, InoFacts
<1>10. FreshUnused'
    <2>1. \A x \in Ino : x >= nextino => dirent'[x] = dirent[x]
        BY <1>1, <1>2, <1>3, <1>4, AddedFresh
    <2>2. \A x \in Ino : x >= nextino + 1 => mode'[x] = mode[x]
        BY <1>1, <1>2, <1>6, NextIno
    <2>. QED
        BY <1>1, <1>4, <2>1, <2>2, FreshStep
<1>. QED
    BY <1>8, <1>9, <1>10, NameViewNext

\* The same of a link.
LEMMA NameLink ==
    ASSUME TypeOK, TypeOK', NameInv, NEW d \in Ino, NEW nm \in Name, NEW i \in Ino,
           Link(i, d, nm, {}, 0)
    PROVE  NameInv'
<1>. DEFINE new   == Added(d, nm, i, {})
            bound == [dentry EXCEPT ![d][nm] = i]
<1>1. View(dirent, dentry, mode) /\ mode[Root] = "dir" /\ FreshUnused
    BY NameView
<1>2. mode[d] = "dir" /\ dentry[d][nm] = Negative /\ i # Root
    BY <1>1 DEF Link, CanCreate, Walked, LiveDir
<1>3. mode' = mode /\ nextino' = nextino /\ dirent' = new
    BY DEF Link
<1>4. \/ AddedSlot(d, nm, {}) # 0 /\ dentry' = bound
      \/ AddedSlot(d, nm, {}) = 0 /\ new = dirent /\ dentry' = dentry
    BY DEF Link, AddSucceeds, Added
<1>5. View(dirent', dentry', mode')
    <2>1. AddedSlot(d, nm, {}) # 0 => View(new, bound, mode)
        BY <1>1, <1>2, ViewAdd
    <2>. HIDE DEF new, bound
    <2>. QED
        BY <1>1, <1>3, <1>4, <2>1
<1>6. FreshUnused'
    BY <1>1, <1>2, <1>3, AddedFresh, FreshStep
<1>. QED
    BY <1>1, <1>3, <1>5, <1>6, NameViewNext
\* A new directory has no names, and its ".." where it is expected.
LEMMA CoherentMakeEmpty ==
    ASSUME NEW ds, Coherent(<< >>, ds), NEW i \in Ino, NEW d \in Ino
    PROVE  /\ MakeEmpty(i, d) \in Directory
           /\ Coherent(MakeEmpty(i, d), ds) /\ Dotted(MakeEmpty(i, d))
<1>. DEFINE es == MakeEmpty(i, d)
<1>1. /\ Len(es) = 2 /\ DOMAIN es = 1 .. 2
      /\ es[1] = Slot(i, Dot) /\ es[2] = Slot(d, DotDot)
    BY DEF MakeEmpty
<1>2. \A k \in 1 .. 2 : k = 1 \/ k = 2
    OBVIOUS
<1>3. es \in Directory
    <2>1. Slot(i, Dot) \in Slots(Ino \cup {0}, Name \cup {Dot, DotDot})
        BY DEF Slot, Slots
    <2>2. Slot(d, DotDot) \in Slots(Ino \cup {0}, Name \cup {Dot, DotDot})
        BY DEF Slot, Slots
    <2>. QED
        BY <2>1, <2>2 DEF MakeEmpty, Directory
<1>4. ASSUME NEW m \in Name
      PROVE  InodeByName(<< >>, m, {}) = 0 /\ InodeByName(es, m, {}) = 0
    <2>1. Matches(<< >>, m, {}) = {}
        BY DEF Matches
    <2>2. Matches(es, m, {}) = {}
        <3>. HIDE DEF es
        <3>. QED
            BY <1>1, <1>2, NameiAssumption DEF Matches, Slot
    <2>. QED
        BY <2>1, <2>2 DEF InodeByName, FindEntry
<1>. HIDE DEF es
<1>5. Unique(es)
    BY <1>1, <1>2 DEF Unique, Slot, Dot, DotDot
<1>6. \A k \in 1 .. Len(es) : es[k].name \notin Name
    BY <1>1, <1>2, NameiAssumption DEF Slot
<1>7. Dotted(es)
    BY <1>1, InoFacts DEF Dotted, Slot
<1>8. Coherent(es, ds)
    BY <1>4, <1>5, <1>6 DEF Coherent
<1>. QED
    BY <1>3, <1>7, <1>8 DEF es

\* A directory is made.
LEMMA NameMkdir ==
    ASSUME TypeOK, TypeOK', NameInv, NEW d \in Ino, NEW nm \in Name,
           Mkdir(d, nm, {}, 0)
    PROVE  NameInv'
<1>. DEFINE i     == nextino
            new   == Added(d, nm, i, {})
            made  == [new EXCEPT ![i] = MakeEmpty(i, d)]
            bound == [dentry EXCEPT ![d][nm] = i]
<1>1. View(dirent, dentry, mode) /\ mode[Root] = "dir" /\ FreshUnused
    BY NameView
<1>2. HasIno /\ mode[d] = "dir" /\ dentry[d][nm] = Negative
    BY DEF Mkdir, CanCreate, Walked, LiveDir
<1>3. /\ i \in Ino /\ i # Root /\ i \in Nat /\ mode[i] = "none" /\ dirent[i] = << >>
      /\ i # d
    BY <1>1, <1>2, NextIno
<1>4. i' = i + 1
    BY DEF Mkdir
<1>5. CASE AddedSlot(d, nm, {}) = 0
    <2>1. dirent' = dirent /\ mode' = mode /\ dentry' = dentry
        BY <1>5 DEF Mkdir, AddSucceeds, Added
    <2>2. FreshUnused'
        BY <1>1, <1>4, <2>1, FreshStep
    <2>. QED
        BY <1>1, <2>1, <2>2, NameViewNext
<1>6. CASE AddedSlot(d, nm, {}) # 0
    <2>1. dirent' = made /\ mode' = [mode EXCEPT ![i] = "dir"] /\ dentry' = bound
        BY <1>6 DEF Mkdir, AddSucceeds
    <2>2. View(new, bound, mode)
        BY <1>1, <1>2, <1>3, <1>6, ViewAdd
    <2>3. \A x \in Ino : x >= i => new[x] = dirent[x]
        BY <1>1, <1>2, <1>3, AddedFresh
    <2>4. new[i] = << >>
        BY <1>3, <2>3
    <2>. HIDE DEF new, bound, i
    <2>5. bound[i] \in [Name -> Dentries] /\ Coherent(<< >>, bound[i])
        BY <1>3, <2>2, <2>4, ViewOf
    <2>6. View(made, [bound EXCEPT ![i] = bound[i]], mode)
        BY <1>3, <2>2, <2>5, CoherentMakeEmpty, ViewChange
    <2>7. [bound EXCEPT ![i] = bound[i]] = bound
        BY <2>2 DEF View, Dcaches
    <2>8. Dotted(made[i])
        <3>1. made[i] = MakeEmpty(i, d)
            BY <1>3, <2>2 DEF View, Directories
        <3>. QED
            BY <1>3, <2>5, <3>1, CoherentMakeEmpty
    <2>9. /\ mode'[i] = "dir"
          /\ \A x \in Ino \ {i} : mode'[x] = mode[x]
        BY <1>3, <2>1 DEF TypeOK
    <2>10. \A x \in Ino \ {i} : made[x] = new[x]
        BY <2>2 DEF View, Directories
    <2>. HIDE DEF made
    <2>11. View(dirent', dentry', mode')
        BY <2>1, <2>6, <2>7, <2>8, <2>9 DEF View
    <2>12. FreshUnused'
        <3>1. i' \in {nextino, nextino + 1}
            BY <1>4 DEF i
        <3>2. ASSUME NEW x \in Ino, x >= i, x >= i + 1
              PROVE  mode'[x] = mode[x] /\ dirent'[x] = dirent[x]
            <4>1. x # i
                BY <1>1, <1>2, <3>2, NextIno DEF i
            <4>. QED
                BY <2>1, <2>3, <2>9, <2>10, <3>2, <4>1
        <3>. QED
            BY <1>1, <1>4, <3>1, <3>2, FreshStep DEF i
    <2>13. mode'[Root] = "dir"
        BY <1>1, <1>3, <2>9, InoFacts
    <2>. QED
        BY <2>11, <2>12, <2>13, NameViewNext
<1>. QED
    BY <1>5, <1>6
\* A name with a positive dentry is found where it is, and is not the root's.
LEMMA FoundNamed ==
    ASSUME View(dirent, dentry, mode), NEW d \in Ino, NEW nm \in Name,
           dentry[d][nm] \in Ino
    PROVE  /\ dentry[d][nm] # Root
           /\ Found(d, nm, {}) \in 1 .. Len(dirent[d])
           /\ dirent[d][Found(d, nm, {})].ino # 0
           /\ dirent[d][Found(d, nm, {})].name = nm
<1>1. /\ dirent[d] \in Directory /\ dentry[d] \in [Name -> Dentries]
      /\ Coherent(dirent[d], dentry[d])
    BY ViewOf
<1>2. Found(d, nm, {}) = FindEntry(dirent[d], nm, {})
    BY NoBadPages DEF Found
<1>. QED
    BY <1>1, <1>2, NamedSlot

\* A directory in use is none of the inodes not handed out.
LEMMA UsedNotFresh ==
    ASSUME FreshUnused, NEW d \in Ino, mode[d] # "none"
    PROVE  \A x \in Ino : x >= nextino => x # d
BY DEF FreshUnused

\* The slot of a name is freed, and its dentry turns negative or is dropped.
LEMMA FreedView ==
    ASSUME View(dirent, dentry, mode), NEW d \in Ino, NEW nm \in Name,
           dentry[d][nm] \in Ino, NEW v \in Deleted(dentry[d][nm])
    PROVE  View([dirent EXCEPT ![d] = DeleteEntry(@, Found(d, nm, {}))],
                [dentry EXCEPT ![d][nm] = v], mode)
<1>. DEFINE k == Found(d, nm, {})
<1>1. v \in {0, NoDentry} /\ Root # 0
    BY InoFacts DEF Deleted, Negative
<1>2. k \in 1 .. Len(dirent[d]) /\ dirent[d][k].ino # 0 /\ dirent[d][k].name = nm
    BY FoundNamed
<1>. HIDE DEF k
<1>3. View([dirent EXCEPT ![d] = SetLink(@, k, 0)], [dentry EXCEPT ![d][nm] = v], mode)
    BY <1>1, <1>2, ViewRelink
<1>. QED
    BY <1>3 DEF DeleteEntry, k

\* A file loses a name.
LEMMA NameUnlink ==
    ASSUME TypeOK, TypeOK', NameInv, NEW d \in Ino, NEW nm \in Name,
           Unlink(d, nm, {}, 0)
    PROVE  NameInv'
<1>. DEFINE cut == [dirent EXCEPT ![d] = DeleteEntry(@, Found(d, nm, {}))]
<1>1. View(dirent, dentry, mode) /\ mode[Root] = "dir" /\ FreshUnused
    BY NameView
<1>2. /\ mode[d] = "dir" /\ dentry[d][nm] \in Ino
      /\ dirent' = cut /\ mode' = mode /\ nextino' = nextino
    BY DEF Unlink, CanDelete, Walked, LiveDir
<1>3. PICK v \in Deleted(dentry[d][nm]) : dentry' = [dentry EXCEPT ![d][nm] = v]
    BY DEF Unlink
<1>4. View(cut, [dentry EXCEPT ![d][nm] = v], mode)
    BY <1>1, <1>2, FreedView
<1>5. \A x \in Ino : x >= nextino => dirent'[x] = dirent[x]
    BY <1>1, <1>2, UsedNotFresh DEF TypeOK
<1>6. FreshUnused'
    BY <1>1, <1>2, <1>5, FreshStep
<1>7. View(dirent', dentry', mode')
    <2>. DEFINE left == [dentry EXCEPT ![d][nm] = v]
    <2>1. View(cut, left, mode) /\ dentry' = left
        BY <1>3, <1>4
    <2>. HIDE DEF cut, left
    <2>. QED
        BY <1>2, <2>1
<1>. QED
    BY <1>1, <1>2, <1>6, <1>7, NameViewNext

\* So does a directory, whose own dentries go too.
LEMMA NameRmdir ==
    ASSUME TypeOK, TypeOK', NameInv, NEW d \in Ino, NEW nm \in Name,
           Rmdir(d, nm, {}, 0)
    PROVE  NameInv'
<1>. DEFINE i   == dentry[d][nm]
            cut == [dirent EXCEPT ![d] = DeleteEntry(@, Found(d, nm, {}))]
<1>1. View(dirent, dentry, mode) /\ mode[Root] = "dir" /\ FreshUnused
    BY NameView
<1>2. /\ mode[d] = "dir" /\ i \in Ino
      /\ dirent' = cut /\ mode' = mode /\ nextino' = nextino
    BY DEF Rmdir, CanDelete, Walked, LiveDir
<1>3. PICK v \in Deleted(i) :
          dentry' = [dentry EXCEPT ![d][nm] = v, ![i] = NoDentries]
    BY DEF Rmdir
<1>. DEFINE left == [dentry EXCEPT ![d][nm] = v]
<1>4. View(cut, left, mode)
    BY <1>1, <1>2, FreedView
<1>5. dentry' = [left EXCEPT ![i] = NoDentries]
    BY <1>3
<1>6. \A x \in Ino : x >= nextino => dirent'[x] = dirent[x]
    BY <1>1, <1>2, UsedNotFresh DEF TypeOK
<1>7. FreshUnused'
    BY <1>1, <1>2, <1>6, FreshStep
<1>8. View(dirent', dentry', mode')
    <2>. DEFINE gone == [left EXCEPT ![i] = NoDentries]
    <2>. HIDE DEF cut, left, i
    <2>1. View(cut, gone, mode)
        BY <1>2, <1>4, ViewForget
    <2>. HIDE DEF gone
    <2>. QED
        BY <1>2, <1>5, <2>1 DEF gone
<1>. QED
    BY <1>1, <1>2, <1>7, <1>8, NameViewNext
\* The tail of a rename changes directories in use only.
LEMMA MovedFresh ==
    ASSUME FreshUnused, NEW E \in Directories, NEW od \in Ino, mode[od] = "dir",
           NEW on, dentry[od][on] \in Ino, NEW nd,
           \A x \in Ino : x >= nextino => E[x] = dirent[x]
    PROVE  \A x \in Ino : x >= nextino => Moved(od, on, nd, E, {})[x] = dirent[x]
<1>1. \A x \in Ino \ {od} :
          (mode[dentry[od][on]] = "dir" => x # dentry[od][on]) =>
              Moved(od, on, nd, E, {})[x] = E[x]
    BY MovedOthers
<1>2. ASSUME NEW x \in Ino, x >= nextino
      PROVE  x # od /\ (mode[dentry[od][on]] = "dir" => x # dentry[od][on])
    BY <1>2 DEF FreshUnused
<1>. QED
    BY <1>1, <1>2

\* d_move binds the new name and then drops the old one.
LEMMA MovedDentryTwice ==
    ASSUME NEW od, NEW on, NEW nd, NEW nn
    PROVE  MovedDentry(od, on, nd, nn) =
               [[dentry EXCEPT ![nd][nn] = dentry[od][on]] EXCEPT ![od][on] = NoDentry]
BY DEF MovedDentry

\* A rename to a name that is free.
LEMMA NameRenameNew ==
    ASSUME TypeOK, TypeOK', NameInv, NEW od \in Ino, NEW on \in Name,
           NEW nd \in Ino, NEW nn \in Name, RenameNew(od, on, nd, nn, {}, 0)
    PROVE  NameInv'
<1>. DEFINE src   == dentry[od][on]
            k     == Found(od, on, {})
            new   == Added(nd, nn, src, {})
            bound == [dentry EXCEPT ![nd][nn] = src]
<1>1. View(dirent, dentry, mode) /\ mode[Root] = "dir" /\ FreshUnused
    BY NameView
<1>2. /\ src \in Ino /\ mode[od] = "dir" /\ mode[nd] = "dir"
      /\ dentry[nd][nn] = Negative /\ mode' = mode /\ nextino' = nextino
    BY DEF RenameNew, CanRename, CanDelete, Walked, LiveDir
<1>3. /\ src # Root /\ k \in 1 .. Len(dirent[od])
      /\ dirent[od][k].ino # 0 /\ dirent[od][k].name = on
    BY <1>1, <1>2, FoundNamed
<1>4. \A x \in Ino : x >= nextino => new[x] = dirent[x]
    BY <1>1, <1>2, AddedFresh
<1>5. CASE AddedSlot(nd, nn, {}) = 0
    <2>1. dirent' = dirent /\ dentry' = dentry
        BY <1>5 DEF RenameNew, AddSucceeds, Added
    <2>2. FreshUnused'
        BY <1>1, <1>2, <2>1, FreshStep
    <2>. QED
        BY <1>1, <1>2, <2>1, <2>2, NameViewNext
<1>6. CASE AddedSlot(nd, nn, {}) # 0
    <2>1. dirent' = Moved(od, on, nd, new, {}) /\ dentry' = MovedDentry(od, on, nd, nn)
        BY <1>6 DEF RenameNew, AddSucceeds
    <2>0. src \in Ino /\ src # Root /\ dentry[nd][nn] = Negative
        BY <1>2, <1>3
    <2>. HIDE DEF src
    <2>2. /\ View(new, bound, mode)
          /\ \A x \in Ino : \A j \in 1 .. Len(dirent[x]) : dirent[x][j].ino # 0 =>
                 j \in 1 .. Len(new[x]) /\ new[x][j] = dirent[x][j]
        BY <1>1, <1>6, <2>0, ViewAdd
    <2>. USE DEF src
    <2>. HIDE DEF new, bound
    <2>3. /\ Found(od, on, {}) \in 1 .. Len(new[od])
          /\ new[od][Found(od, on, {})].ino # 0
          /\ new[od][Found(od, on, {})].name = on
        BY <1>3, <2>2
    <2>. DEFINE left == [bound EXCEPT ![od][on] = NoDentry]
    <2>4. View(Moved(od, on, nd, new, {}), left, mode)
        BY <1>2, <1>3, <2>2, <2>3, ViewMoved
    <2>5. dentry' = left
        BY <2>1, MovedDentryTwice DEF bound
    <2>6. View(dirent', dentry', mode')
        <3>. HIDE DEF left
        <3>. QED
            BY <1>2, <2>1, <2>4, <2>5
    <2>7. new \in Directories
        BY <2>2 DEF View
    <2>8. \A x \in Ino : x >= nextino => dirent'[x] = dirent[x]
        BY <1>1, <1>2, <1>4, <2>1, <2>7, MovedFresh
    <2>9. FreshUnused'
        BY <1>1, <1>2, <2>8, FreshStep
    <2>. QED
        BY <1>1, <1>2, <2>6, <2>9, NameViewNext
<1>. QED
    BY <1>5, <1>6

\* A rename to a name that is replaced.
LEMMA NameRenameOver ==
    ASSUME TypeOK, TypeOK', NameInv, NEW od \in Ino, NEW on \in Name,
           NEW nd \in Ino, NEW nn \in Name, RenameOver(od, on, nd, nn, {})
    PROVE  NameInv'
<1>. DEFINE src   == dentry[od][on]
            tgt   == dentry[nd][nn]
            k     == Found(od, on, {})
            kn    == Found(nd, nn, {})
            new   == [dirent EXCEPT ![nd] = SetLink(@, kn, src)]
            bound == [dentry EXCEPT ![nd][nn] = src]
            left  == [bound EXCEPT ![od][on] = NoDentry]
            gone  == [left EXCEPT ![tgt] = NoDentries]
<1>1. View(dirent, dentry, mode) /\ mode[Root] = "dir" /\ FreshUnused
    BY NameView
<1>2. /\ src \in Ino /\ tgt \in Ino /\ tgt # src
      /\ mode[od] = "dir" /\ mode[nd] = "dir" /\ mode' = mode /\ nextino' = nextino
      /\ dirent' = Moved(od, on, nd, new, {})
    BY DEF RenameOver, CanRename, CanDelete, Walked, LiveDir
<1>3. /\ src # Root /\ k \in 1 .. Len(dirent[od])
      /\ dirent[od][k].ino # 0 /\ dirent[od][k].name = on
    BY <1>1, <1>2, FoundNamed
<1>4. /\ kn \in 1 .. Len(dirent[nd])
      /\ dirent[nd][kn].ino # 0 /\ dirent[nd][kn].name = nn
    BY <1>1, <1>2, FoundNamed
<1>5. dentry' = left \/ dentry' = gone
    BY MovedDentryTwice DEF RenameOver
<1>6. od # nd \/ k # kn
    BY <1>2, <1>3, <1>4
<1>7. \A x \in Ino : x >= nextino => new[x] = dirent[x]
    BY <1>1, <1>2, UsedNotFresh DEF TypeOK
<1>8. /\ View(new, bound, mode)
      /\ \A x \in Ino : \A j \in 1 .. Len(dirent[x]) : x # nd \/ j # kn =>
             j \in 1 .. Len(new[x]) /\ new[x][j] = dirent[x][j]
    <2>1. src \in Ino \cup {0} /\ src \in {src, NoDentry}
        BY <1>2
    <2>. HIDE DEF src, kn
    <2>2. View(new, bound, mode)
        BY <1>1, <1>3, <1>4, <2>1, ViewRelink
    <2>3. ASSUME NEW x \in Ino, NEW j \in 1 .. Len(dirent[x]), x # nd \/ j # kn
          PROVE  j \in 1 .. Len(new[x]) /\ new[x][j] = dirent[x][j]
        <3>1. new[x] = IF x = nd THEN SetLink(dirent[nd], kn, src) ELSE dirent[x]
            BY DEF TypeOK
        <3>. HIDE DEF new
        <3>2. CASE x # nd
            BY <2>3, <3>1, <3>2
        <3>3. CASE x = nd
            <4>1. /\ Len(SetLink(dirent[nd], kn, src)) = Len(dirent[nd])
                  /\ SetLink(dirent[nd], kn, src)[j] = dirent[nd][j]
                BY <2>1, <2>3, <3>3, EntryIsSlots, SetLinkType DEF SetLink, TypeOK
            <4>. QED
                BY <2>3, <3>1, <3>3, <4>1
        <3>. QED
            BY <3>2, <3>3
    <2>. QED
        BY <2>2, <2>3
<1>. HIDE DEF new, bound
<1>9. /\ Found(od, on, {}) \in 1 .. Len(new[od])
      /\ new[od][Found(od, on, {})].ino # 0
      /\ new[od][Found(od, on, {})].name = on
    BY <1>3, <1>6, <1>8
<1>10. View(Moved(od, on, nd, new, {}), left, mode)
    BY <1>2, <1>3, <1>8, <1>9, ViewMoved
<1>11. View(Moved(od, on, nd, new, {}), gone, mode)
    <2>. HIDE DEF left, tgt
    <2>. QED
        BY <1>2, <1>10, ViewForget
<1>12. View(dirent', dentry', mode')
    <2>. HIDE DEF left, gone
    <2>. QED
        BY <1>2, <1>5, <1>10, <1>11
<1>13. new \in Directories
    BY <1>8 DEF View
<1>14. \A x \in Ino : x >= nextino => dirent'[x] = dirent[x]
    BY <1>1, <1>2, <1>7, <1>13, MovedFresh
<1>15. FreshUnused'
    BY <1>1, <1>2, <1>14, FreshStep
<1>. QED
    BY <1>1, <1>2, <1>12, <1>15, NameViewNext
-----------------------------------------------------------------------------
(***************************************************************************)
(* The theorems about names and dentries                                   *)
(***************************************************************************)

\* At the start there are no slots and no dentries.
LEMMA NameInit ==
    ASSUME Init
    PROVE  NameInv
<1>1. \A d \in Ino : dirent[d] = << >> /\ dentry[d] = NoDentries
    BY DEF Init, NoDentries
<1>2. \A d \in Ino \ {Root} : mode[d] = "none"
    BY DEF Init
<1>3. mode[Root] = "dir"
    BY InoFacts DEF Init
<1>4. FreshUnused
    <2>1. ~(Root >= nextino)
        BY DEF Init, Root, FirstIno
    <2>. QED
        BY <1>1, <1>2, <2>1 DEF FreshUnused
<1>. QED
    BY <1>1, <1>2, <1>3, <1>4, CoherentEmpty DEF NameInv

\* One step.
LEMMA NameStep ==
    ASSUME TypeOK, TypeOK', NameInv, Next, ReadFaults = {{}}, CommitFaults = {0}
    PROVE  NameInv'
<1>1. ASSUME NEW d \in Ino, NEW nm \in Name, NextNames(d, nm, {}, 0)
      PROVE  NameInv'
    BY <1>1, NameCreate, NameLink, NameMkdir, NameUnlink, NameRmdir, NameRenameNew
       DEF NextNames
<1>2. ASSUME NEW od \in Ino, NEW nd \in Ino, NEW on \in Name, NEW nn \in Name,
             RenameOver(od, on, nd, nn, {})
      PROVE  NameInv'
    BY <1>2, NameRenameOver
<1>3. ASSUME NEW d \in Ino, NEW nm \in Name, Lookup(d, nm, {})
      PROVE  NameInv'
    BY <1>3, NameReferences
<1>4. ASSUME NEW d \in Ino, NEW nm \in Name, DropDentry(d, nm) \/ CreateAborts(d, nm)
      PROVE  NameInv'
    BY <1>4, NameReferences, NameSpent
<1>5. ASSUME NEW i \in Ino, Tmpfile(i) \/ Evict(i)
      PROVE  NameInv'
    BY <1>5, NameSpent, NameEvict
<1>6. ASSUME NEW i \in Ino, Open(i) \/ Close(i)
      PROVE  NameInv'
    <2>1. /\ dirent' = dirent /\ mode' = mode /\ nextino' = nextino
          /\ dentry' = dentry
        BY <1>6 DEF Open, Close
    <2>. QED
        BY <2>1 DEF NameInv, FreshUnused
<1>. QED
    BY <1>1, <1>2, <1>3, <1>4, <1>5, <1>6 DEF Next

\* Without read and commit errors the inductive invariant holds.
LEMMA NameInvariant ==
    ASSUME ReadFaults = {{}}, CommitFaults = {0}
    PROVE  Spec => []NameInv
<1>1. Init => NameInv
    BY NameInit
<1>2. TypeOK /\ TypeOK' /\ NameInv /\ [Next]_vars => NameInv'
    <2>1. TypeOK /\ TypeOK' /\ NameInv /\ Next => NameInv'
        BY NameStep
    <2>2. NameInv /\ vars' = vars => NameInv'
        BY DEF NameInv, FreshUnused, vars
    <2>. QED
        BY <2>1, <2>2
<1>. QED
    BY <1>1, <1>2, TypeCorrect, PTL DEF Spec

\* No name occurs twice in a directory: gbfs_add_link takes the first free
\* slot without having seen the slots behind it.
THEOREM UniqueNames ==
    ASSUME ReadFaults = {{}}, CommitFaults = {0}
    PROVE  Spec => []NamesUnique
<1>1. NameInv => NamesUnique
    BY DEF NameInv, Coherent, NamesUnique
<1>. QED
    BY <1>1, NameInvariant, PTL

\* Every dentry the VFS has cached, negative ones included, tells what
\* gbfs_find_entry would find in the directory.
THEOREM DentriesTrue ==
    ASSUME ReadFaults = {{}}, CommitFaults = {0}
    PROVE  Spec => []DcacheCoherent
<1>1. NameInv => DcacheCoherent
    BY DEF NameInv, Coherent, DcacheCoherent
<1>. QED
    BY <1>1, NameInvariant, PTL
-----------------------------------------------------------------------------
(***************************************************************************)
(* Counting the slots that refer to an inode                               *)
(***************************************************************************)

\* What slot k of a directory refers to; past its end, nothing.
RefAt(es, k) == IF k \in 1 .. Len(es) THEN es[k].ino ELSE 0

\* The slots of the directories L that refer to i.
Refs(E, L, i) == {p \in L \X Nat : RefAt(E[p[1]], p[2]) = i}

Counted(E, L, i, n) == IsFiniteSet(Refs(E, L, i)) /\ Cardinality(Refs(E, L, i)) = n

Tally(x, i) == IF x = i THEN 1 ELSE 0

\* In the directories L, E and F differ at most in slot k of d.
Differ(E, F, L, d, k) ==
    \A x \in L, j \in Nat : x # d \/ j # k => RefAt(F[x], j) = RefAt(E[x], j)

\* The members of Refs are pairs.
LEMMA RefsAre ==
    ASSUME NEW E, NEW L, NEW i
    PROVE  /\ \A d, k : <<d, k>> \in Refs(E, L, i) <=>
                            d \in L /\ k \in Nat /\ RefAt(E[d], k) = i
           /\ \A p \in Refs(E, L, i) : \E d \in L, k \in Nat : p = <<d, k>>
BY DEF Refs

\* One slot is written.
LEMMA CountSlot ==
    ASSUME NEW E, NEW F, NEW L, NEW d \in L, NEW k \in Nat, Differ(E, F, L, d, k),
           NEW i, NEW n \in Int, Counted(E, L, i, n)
    PROVE  Counted(F, L, i, n - Tally(RefAt(E[d], k), i) + Tally(RefAt(F[d], k), i))
<1>. DEFINE R == Refs(E, L, i)
            Q == Refs(F, L, i)
            w == <<d, k>>
<1>1. \A p : p # w => (p \in Q <=> p \in R)
    <2>1. ASSUME NEW p, p # w, p \in Q
          PROVE  p \in R
        <3>1. PICK x \in L, j \in Nat : p = <<x, j>>
            BY <2>1, RefsAre
        <3>. QED
            BY <2>1, <3>1, RefsAre DEF Differ
    <2>2. ASSUME NEW p, p # w, p \in R
          PROVE  p \in Q
        <3>1. PICK x \in L, j \in Nat : p = <<x, j>>
            BY <2>2, RefsAre
        <3>. QED
            BY <2>2, <3>1, RefsAre DEF Differ
    <2>. QED
        BY <2>1, <2>2
<1>2. /\ w \in R <=> RefAt(E[d], k) = i
      /\ w \in Q <=> RefAt(F[d], k) = i
    BY RefsAre
<1>3. IsFiniteSet(R) /\ Cardinality(R) = n
    BY DEF Counted
<1>. HIDE DEF R, Q, w
<1>4. CASE w \in R <=> w \in Q
    <2>1. Q = R
        BY <1>1, <1>4
    <2>. QED
        BY <1>2, <1>3, <1>4, <2>1 DEF Counted, Tally, Q
<1>5. CASE w \notin R /\ w \in Q
    <2>1. Q = R \cup {w}
        BY <1>1, <1>5
    <2>2. IsFiniteSet(Q) /\ Cardinality(Q) = n + 1
        BY <1>3, <1>5, <2>1, FS_AddElement
    <2>. QED
        BY <1>2, <1>5, <2>2 DEF Counted, Tally, Q
<1>6. CASE w \in R /\ w \notin Q
    <2>1. Q = R \ {w}
        BY <1>1, <1>6
    <2>2. IsFiniteSet(Q) /\ Cardinality(Q) = n - 1
        BY <1>3, <1>6, <2>1, FS_RemoveElement
    <2>. QED
        BY <1>2, <1>6, <2>2 DEF Counted, Tally, Q
<1>. QED
    BY <1>4, <1>5, <1>6

\* No slot of the directories L is written.
LEMMA CountSame ==
    ASSUME NEW E, NEW F, NEW L, NEW i, NEW n, Counted(E, L, i, n),
           \A x \in L, j \in Nat : RefAt(F[x], j) = RefAt(E[x], j)
    PROVE  Counted(F, L, i, n)
<1>1. Refs(F, L, i) = Refs(E, L, i)
    <2>1. ASSUME NEW p
          PROVE  p \in Refs(F, L, i) <=> p \in Refs(E, L, i)
        <3>1. p \in Refs(F, L, i) \/ p \in Refs(E, L, i) =>
                  \E x \in L, j \in Nat : p = <<x, j>>
            BY RefsAre
        <3>. QED
            BY <3>1, RefsAre
    <2>. QED
        BY <2>1
<1>. QED
    BY <1>1 DEF Counted

\* A directory with nothing but "." and ".." is made, or removed.
LEMMA CountDir ==
    ASSUME NEW E, NEW L, NEW d, d \notin L, NEW a, NEW b,
           RefAt(E[d], 1) = a, RefAt(E[d], 2) = b,
           \A k \in Nat : k \notin {1, 2} => RefAt(E[d], k) = 0,
           NEW i, i # 0, NEW n \in Int
    PROVE  /\ Counted(E, L, i, n) =>
                  Counted(E, L \cup {d}, i, n + Tally(a, i) + Tally(b, i))
           /\ Counted(E, L \cup {d}, i, n) =>
                  Counted(E, L, i, n - Tally(a, i) - Tally(b, i))
<1>. DEFINE R == Refs(E, L, i)
            Q == Refs(E, L \cup {d}, i)
            A == IF a = i THEN R \cup {<<d, 1>>} ELSE R
            B == IF b = i THEN A \cup {<<d, 2>>} ELSE A
<1>1. <<d, 1>> \notin R /\ <<d, 2>> \notin A /\ <<d, 1>> # <<d, 2>>
    BY RefsAre
<1>2. Q = B
    <2>1. ASSUME NEW p, p \in Q
          PROVE  p \in B
        <3>1. PICK x \in L \cup {d}, j \in Nat : p = <<x, j>>
            BY <2>1, RefsAre
        <3>2. RefAt(E[x], j) = i
            BY <2>1, <3>1, RefsAre
        <3>3. CASE x \in L
            BY <3>1, <3>2, <3>3, RefsAre
        <3>4. CASE x = d
            <4>1. j \in {1, 2}
                BY <3>2, <3>4
            <4>. QED
                BY <3>1, <3>2, <3>4, <4>1
        <3>. QED
            BY <3>3, <3>4
    <2>2. ASSUME NEW p, p \in R
          PROVE  p \in Q
        <3>1. PICK x \in L, j \in Nat : p = <<x, j>>
            BY <2>2, RefsAre
        <3>. QED
            BY <2>2, <3>1, RefsAre
    <2>3. /\ a = i => <<d, 1>> \in Q
          /\ b = i => <<d, 2>> \in Q
        BY RefsAre
    <2>. QED
        BY <2>1, <2>2, <2>3
<1>3. IsFiniteSet(R) => /\ IsFiniteSet(A) /\ Cardinality(A) = Cardinality(R) + Tally(a, i)
                        /\ IsFiniteSet(B) /\ Cardinality(B) = Cardinality(A) + Tally(b, i)
                        /\ Cardinality(R) \in Int
    <2>. SUFFICES ASSUME IsFiniteSet(R)
                  PROVE  /\ IsFiniteSet(A) /\ Cardinality(A) = Cardinality(R) + Tally(a, i)
                         /\ IsFiniteSet(B) /\ Cardinality(B) = Cardinality(A) + Tally(b, i)
                         /\ Cardinality(R) \in Int
        OBVIOUS
    <2>. HIDE DEF R
    <2>0. Cardinality(R) \in Nat
        BY FS_CardinalityType
    <2>1. IsFiniteSet(A) /\ Cardinality(A) = Cardinality(R) + Tally(a, i)
        BY <1>1, <2>0, FS_AddElement DEF Tally
    <2>2. Cardinality(A) \in Nat
        BY <2>1, FS_CardinalityType
    <2>. HIDE DEF A
    <2>3. IsFiniteSet(B) /\ Cardinality(B) = Cardinality(A) + Tally(b, i)
        BY <1>1, <2>1, <2>2, FS_AddElement DEF Tally
    <2>. QED
        BY <2>0, <2>1, <2>3
<1>4. IsFiniteSet(Q) => IsFiniteSet(R)
    <2>1. R \subseteq Q
        BY <1>2
    <2>. QED
        BY <2>1, FS_Subset
<1>5. Tally(a, i) \in Int /\ Tally(b, i) \in Int
    BY DEF Tally
<1>. HIDE DEF A, B
<1>. QED
    BY <1>2, <1>3, <1>4, <1>5 DEF Counted
-----------------------------------------------------------------------------
(***************************************************************************)
(* The shape of the tree                                                   *)
(***************************************************************************)

\* A directory has one name in the directory it is in.
LEMMA ShapedOnce ==
    ASSUME NEW B, NEW P, NEW L, NEW D, Shaped(B, P, L, D),
           NEW p \in L, NEW m \in Name, NEW k \in Name, B[p][m] \in D, B[p][m] = B[p][k]
    PROVE  m = k
<1>1. \A x \in L, j, n \in Name : B[x][j] \in D /\ B[x][j] = B[x][n] => j = n
    BY DEF Shaped
<1>. QED
    BY <1>1, Zenon

\* No directory is added, moved or removed.
LEMMA ShapedSame ==
    ASSUME NEW B, NEW P, NEW L, NEW D, Shaped(B, P, L, D),
           NEW C, NEW Q, NEW E, L \subseteq E, E \subseteq D,
           \A p \in L \ {Root} : Q[p] = P[p],
           \A p \in L, m \in Name : B[p][m] \in D \/ C[p][m] \in E => C[p][m] = B[p][m]
    PROVE  Shaped(C, Q, L, E)
<1>1. Root \in L /\ L \subseteq E /\ E \subseteq Ino
    BY DEF Shaped
<1>2. \A p \in L, m \in Name : C[p][m] \in E => C[p][m] \in L \ {Root} /\ Q[C[p][m]] = p
    BY DEF Shaped
<1>3. \A p \in L, m, n \in Name : C[p][m] \in E /\ C[p][m] = C[p][n] => m = n
    BY DEF Shaped
<1>4. ASSUME NEW d \in L \ {Root}
      PROVE  Q[d] \in L /\ \E m \in Name : C[Q[d]][m] = d
    <2>1. PICK m \in Name : P[d] \in L /\ B[P[d]][m] = d
        BY DEF Shaped
    <2>. QED
        BY <2>1 DEF Shaped
<1>5. ASSUME NEW d \in L, NEW S \in SUBSET Ino, d \in S,
             \A x \in S \ {Root} : Q[x] \in S
      PROVE  Root \in S
    <2>1. \A x \in (S \cap L) \ {Root} : P[x] \in S \cap L
        BY <1>5 DEF Shaped
    <2>2. d \in S \cap L /\ S \cap L \in SUBSET Ino
        BY <1>5
    <2>3. Root \in S \cap L
        BY <2>1, <2>2 DEF Shaped
    <2>. QED
        BY <2>3
<1>. QED
    BY <1>1, <1>2, <1>3, <1>4, <1>5 DEF Shaped

\* Directory n is made in directory d.
LEMMA ShapedMade ==
    ASSUME NEW B, NEW P, NEW L, NEW D, Shaped(B, P, L, D),
           NEW n \in Ino \ D, NEW d \in L, NEW nm \in Name, B[d][nm] \notin D,
           NEW C, NEW Q,
           \A p \in L, m \in Name :
               /\ B[p][m] # n
               /\ C[p][m] = IF p = d /\ m = nm THEN n ELSE B[p][m],
           \A m \in Name : C[n][m] \notin D \cup {n},
           \A p \in L : Q[p] = P[p], Q[n] = d
    PROVE  Shaped(C, Q, L \cup {n}, D \cup {n})
<1>. DEFINE M == L \cup {n}
            E == D \cup {n}
<1>1. Root \in M /\ M \subseteq E /\ E \subseteq Ino /\ n \notin L /\ n # Root
    BY DEF Shaped
<1>2. ASSUME NEW p \in M, NEW m \in Name, C[p][m] \in E
      PROVE  C[p][m] \in M \ {Root} /\ Q[C[p][m]] = p
    <2>1. CASE p = d /\ m = nm
        BY <1>1, <2>1
    <2>2. CASE ~(p = d /\ m = nm)
        <3>1. p \in L /\ C[p][m] = B[p][m] /\ B[p][m] \in D
            BY <1>2, <2>2
        <3>. QED
            BY <3>1 DEF Shaped
    <2>. QED
        BY <2>1, <2>2
<1>3. ASSUME NEW p \in M, NEW m \in Name, NEW k \in Name,
             C[p][m] \in E, C[p][m] = C[p][k]
      PROVE  m = k
    <2>1. p \in L
        BY <1>3
    <2>2. CASE C[p][m] = n
        BY <2>1, <2>2, <1>3
    <2>3. CASE C[p][m] # n
        <3>1. C[p][m] = B[p][m] /\ C[p][k] = B[p][k] /\ B[p][m] \in D
            BY <1>3, <2>1, <2>3
        <3>2. B[p][m] \in D /\ B[p][m] = B[p][k]
            BY <1>3, <3>1
        <3>. QED
            BY <2>1, <3>2, ShapedOnce
    <2>. QED
        BY <2>2, <2>3
<1>4. ASSUME NEW x \in M \ {Root}
      PROVE  Q[x] \in M /\ \E m \in Name : C[Q[x]][m] = x
    <2>1. CASE x = n
        <3>1. C[d][nm] = n
            OBVIOUS
        <3>. QED
            BY <2>1, <3>1
    <2>2. CASE x # n
        <3>1. PICK m \in Name : P[x] \in L /\ B[P[x]][m] = x
            BY <2>2 DEF Shaped
        <3>2. B[P[x]][m] \in D
            BY <2>2, <3>1 DEF Shaped
        <3>3. ~(P[x] = d /\ m = nm)
            BY <3>1, <3>2
        <3>4. C[P[x]][m] = x /\ Q[x] = P[x]
            BY <2>2, <3>1, <3>3
        <3>. QED
            BY <3>1, <3>4
    <2>. QED
        BY <2>1, <2>2
<1>5. ASSUME NEW x \in M, NEW S \in SUBSET Ino, x \in S,
             \A y \in S \ {Root} : Q[y] \in S
      PROVE  Root \in S
    <2>1. \A y \in (S \cap L) \ {Root} : P[y] \in S \cap L
        BY <1>5 DEF Shaped
    <2>2. \E y \in L : y \in S
        <3>1. CASE x = n
            BY <1>1, <1>5, <3>1
        <3>2. CASE x # n
            BY <1>5, <3>2
        <3>. QED
            BY <3>1, <3>2
    <2>3. PICK y \in L : y \in S \cap L
        BY <2>2
    <2>4. S \cap L \in SUBSET Ino
        OBVIOUS
    <2>5. Root \in S \cap L
        BY <2>1, <2>3, <2>4 DEF Shaped
    <2>. QED
        BY <2>5
<1>. HIDE DEF M, E
<1>6. Shaped(C, Q, M, E)
    BY <1>1, <1>2, <1>3, <1>4, <1>5 DEF Shaped
<1>. QED
    BY <1>6 DEF M, E

\* A directory has one place, and none of its own entries is its name.
LEMMA ShapedPlace ==
    ASSUME NEW B, NEW P, NEW L, NEW D, Shaped(B, P, L, D),
           NEW d \in L, NEW nm \in Name, NEW i \in D, B[d][nm] = i
    PROVE  /\ i \in L /\ i # Root /\ P[i] = d
           /\ (\A m \in Name : B[i][m] \notin D) => i # d
BY DEF Shaped

\* The empty directory that d binds nm to is removed.
LEMMA ShapedRemoved ==
    ASSUME NEW B, NEW P, NEW L, NEW D, Shaped(B, P, L, D),
           NEW d \in L, NEW nm \in Name, NEW i \in D, B[d][nm] = i,
           \A m \in Name : B[i][m] \notin D,
           NEW C,
           \A p \in L, m \in Name :
               IF p = d /\ m = nm THEN C[p][m] \notin D ELSE C[p][m] = B[p][m]
    PROVE  Shaped(C, P, L \ {i}, D)
<1>. DEFINE M == L \ {i}
<1>1. i \in L \ {Root} /\ P[i] = d
    BY ShapedPlace
<1>2. i # d
    OBVIOUS
<1>3. Root \in M /\ M \subseteq D /\ D \subseteq Ino
    BY <1>1 DEF Shaped
<1>4. ASSUME NEW p \in M, NEW m \in Name, C[p][m] \in D
      PROVE  C[p][m] = B[p][m] /\ C[p][m] \in M \ {Root} /\ P[C[p][m]] = p
    <2>1. C[p][m] = B[p][m] /\ ~(p = d /\ m = nm)
        BY <1>4
    <2>2. C[p][m] \in L \ {Root} /\ P[C[p][m]] = p
        BY <1>4, <2>1 DEF Shaped
    <2>3. C[p][m] # i
        <3>1. CASE C[p][m] = i
            <4>1. p = d /\ m = nm
                BY <1>1, <2>1, <2>2, <3>1 DEF Shaped
            <4>. QED
                BY <2>1, <4>1
        <3>. QED
            BY <3>1
    <2>. QED
        BY <2>1, <2>2, <2>3
<1>5. ASSUME NEW p \in M, NEW m \in Name, NEW k \in Name,
             C[p][m] \in D, C[p][m] = C[p][k]
      PROVE  m = k
    <2>1. C[p][m] = B[p][m] /\ C[p][k] = B[p][k]
        BY <1>4, <1>5
    <2>2. B[p][m] \in D /\ B[p][m] = B[p][k] /\ p \in L
        BY <1>5, <2>1
    <2>. QED
        BY <2>2, ShapedOnce
<1>6. ASSUME NEW x \in M \ {Root}
      PROVE  P[x] \in M /\ \E m \in Name : C[P[x]][m] = x
    <2>1. PICK m \in Name : P[x] \in L /\ B[P[x]][m] = x
        BY DEF Shaped
    <2>2. x \in D
        BY DEF Shaped
    <2>3. P[x] # i /\ ~(P[x] = d /\ m = nm)
        BY <2>1, <2>2
    <2>. QED
        BY <2>1, <2>3
<1>7. \A x \in M, S \in SUBSET Ino :
          x \in S /\ (\A y \in S \ {Root} : P[y] \in S) => Root \in S
    BY DEF Shaped
<1>. HIDE DEF M
<1>8. Shaped(C, P, M, D)
    BY <1>3, <1>4, <1>5, <1>6, <1>7 DEF Shaped
<1>. QED
    BY <1>8 DEF M

\* The directory that od binds on to is moved to nd, from which it cannot be
\* reached upwards: A holds nd and what is above it.
LEMMA ShapedMoved ==
    ASSUME NEW B, NEW P, NEW L, NEW D, Shaped(B, P, L, D),
           NEW od \in L, NEW on \in Name, NEW src \in D, B[od][on] = src,
           NEW nd \in L, NEW nn \in Name, B[nd][nn] \notin D,
           NEW A \in SUBSET Ino, nd \in A, src \notin A,
           \A x \in A \ {Root} : P[x] \in A,
           NEW C, NEW Q,
           \A p \in L, m \in Name :
               IF p = nd /\ m = nn THEN C[p][m] = src
               ELSE IF p = od /\ m = on THEN C[p][m] \notin D ELSE C[p][m] = B[p][m],
           \A p \in Ino : Q[p] = IF p = src THEN nd ELSE P[p]
    PROVE  Shaped(C, Q, L, D)
<1>1. Root \in L /\ L \subseteq D /\ D \subseteq Ino
    BY DEF Shaped
<1>2. src \in L \ {Root} /\ P[src] = od
    BY DEF Shaped
<1>3. ASSUME NEW p \in L, NEW m \in Name, C[p][m] \in D, ~(p = nd /\ m = nn)
      PROVE  /\ C[p][m] = B[p][m] /\ B[p][m] \in L \ {Root} /\ P[B[p][m]] = p
             /\ B[p][m] # src
    <2>1. C[p][m] = B[p][m] /\ ~(p = od /\ m = on)
        BY <1>3
    <2>2. B[p][m] \in L \ {Root} /\ P[B[p][m]] = p
        BY <1>3, <2>1 DEF Shaped
    <2>3. B[p][m] # src
        <3>1. CASE B[p][m] = src
            <4>1. p = od /\ m = on
                BY <1>2, <2>2, <3>1 DEF Shaped
            <4>. QED
                BY <2>1, <4>1
        <3>. QED
            BY <3>1
    <2>. QED
        BY <2>1, <2>2, <2>3
<1>4. ASSUME NEW p \in L, NEW m \in Name, C[p][m] \in D
      PROVE  C[p][m] \in L \ {Root} /\ Q[C[p][m]] = p
    <2>1. CASE p = nd /\ m = nn
        BY <1>1, <1>2, <2>1
    <2>2. CASE ~(p = nd /\ m = nn)
        BY <1>1, <1>3, <1>4, <2>2
    <2>. QED
        BY <2>1, <2>2
<1>5. ASSUME NEW p \in L, NEW m \in Name, NEW k \in Name,
             C[p][m] \in D, C[p][m] = C[p][k]
      PROVE  m = k
    <2>1. CASE C[p][m] = src
        <3>1. p = nd /\ m = nn
            BY <1>3, <1>5, <2>1
        <3>2. C[p][k] \in D /\ C[p][k] = src
            BY <1>5, <2>1
        <3>3. p = nd /\ k = nn
            BY <1>3, <3>2
        <3>. QED
            BY <3>1, <3>3
    <2>2. CASE C[p][m] # src
        <3>1. ~(p = nd /\ m = nn) /\ ~(p = nd /\ k = nn)
            BY <1>5, <2>2
        <3>2. C[p][m] = B[p][m] /\ C[p][k] = B[p][k]
            BY <1>3, <1>5, <3>1
        <3>. QED
            <4>1. B[p][m] \in D /\ B[p][m] = B[p][k]
                BY <1>5, <3>2
            <4>. QED
                BY <4>1, ShapedOnce
    <2>. QED
        BY <2>1, <2>2
<1>6. ASSUME NEW x \in L \ {Root}
      PROVE  Q[x] \in L /\ \E m \in Name : C[Q[x]][m] = x
    <2>1. CASE x = src
        <3>1. C[nd][nn] = src /\ Q[src] = nd
            BY <1>1, <1>2
        <3>. QED
            BY <2>1, <3>1
    <2>2. CASE x # src
        <3>1. PICK m \in Name : P[x] \in L /\ B[P[x]][m] = x
            BY DEF Shaped
        <3>2. x \in D /\ Q[x] = P[x]
            BY <1>1, <2>2
        <3>3. ~(P[x] = od /\ m = on) /\ ~(P[x] = nd /\ m = nn)
            BY <2>2, <3>1, <3>2
        <3>4. C[P[x]][m] = x
            BY <3>1, <3>3
        <3>. QED
            BY <3>1, <3>2, <3>4
    <2>. QED
        BY <2>1, <2>2
<1>7. ASSUME NEW d \in L, NEW S \in SUBSET Ino, d \in S,
             \A x \in S \ {Root} : Q[x] \in S
      PROVE  Root \in S
    <2>1. CASE src \notin S
        <3>1. \A x \in S \ {Root} : P[x] \in S
            BY <1>7, <2>1
        <3>. QED
            BY <1>7, <3>1 DEF Shaped
    <2>2. CASE src \in S
        <3>1. nd \in S \cap A
            BY <1>1, <1>2, <1>7, <2>2
        <3>2. \A x \in (S \cap A) \ {Root} : P[x] \in S \cap A
            BY <1>7
        <3>3. S \cap A \in SUBSET Ino
            OBVIOUS
        <3>4. Root \in S \cap A
            BY <3>1, <3>2, <3>3 DEF Shaped
        <3>. QED
            BY <3>4
    <2>. QED
        BY <2>1, <2>2
<1>. QED
    BY <1>1, <1>4, <1>5, <1>6, <1>7 DEF Shaped
-----------------------------------------------------------------------------
(***************************************************************************)
(* What an operation does to one directory                                 *)
(***************************************************************************)

\* Nothing in use but names, as in the root.
OnlyNames(es) == \A k \in 1 .. Len(es) : es[k].ino # 0 => es[k].name \in Name

\* Slot k, which had the name nm or gets it, is written.
Writes(es, fs, k, nm, old, new) ==
    /\ fs \in Directory /\ Unique(fs)
    /\ k \in Nat /\ RefAt(es, k) = old /\ RefAt(fs, k) = new
    /\ \A j \in Nat : j # k => RefAt(fs, j) = RefAt(es, j)
    /\ \A m \in Name :
          InodeByName(fs, m, {}) = IF m = nm THEN new ELSE InodeByName(es, m, {})
    /\ OnlyNames(es) => OnlyNames(fs)
    /\ Dotted(es) => k \notin {1, 2} /\ Dotted(fs)

\* gbfs_add_link does.
LEMMA FillWrites ==
    ASSUME NEW es \in Directory, Unique(es), NEW nm \in Name, NEW i \in Ino,
           InodeByName(es, nm, {}) = 0, AddSlot(es, nm, {}) # 0,
           NEW fs, fs = FillSlot(es, AddSlot(es, nm, {}), nm, i)
    PROVE  Writes(es, fs, AddSlot(es, nm, {}), nm, 0, i)
<1>. DEFINE k == AddSlot(es, nm, {})
<1>0. i # 0 /\ Len(es) \in Nat
    BY InoFacts DEF Directory
<1>1. /\ fs \in Directory /\ Unique(fs)
      /\ InodeByName(fs, nm, {}) = i
      /\ \A m : m # nm => InodeByName(fs, m, {}) = InodeByName(es, m, {})
    BY <1>0, FillSlotEffect DEF Directory
<1>2. k \in 1 .. Len(es) + 1 /\ (k \in 1 .. Len(es) => es[k].ino = 0)
    BY <1>0, AddSlotProperty DEF Directory
<1>3. /\ 1 .. Len(fs) = 1 .. Len(es) \cup {k}
      /\ fs[k] = Slot(i, nm)
      /\ \A j \in 1 .. Len(es) : j # k => fs[j] = es[j]
    <2>. HIDE DEF k
    <2>1. k \in 1 .. Len(es) + 1 /\ fs = FillSlot(es, k, nm, i)
        BY <1>2 DEF k
    <2>2. PICK S : es \in Seq(S) /\ Slot(i, nm) \in S
        <3>1. es \in Seq(Slots(Ino \cup {0}, Name \cup {Dot, DotDot}))
            BY DEF Directory
        <3>2. Slot(i, nm) \in Slots(Ino \cup {0}, Name \cup {Dot, DotDot})
            BY DEF Slot, Slots
        <3>. QED
            BY <3>1, <3>2
    <2>3. PICK v : v \in S /\ v = Slot(i, nm)
        BY <2>2
    <2>4. Filled(es, fs, k, v)
        BY ONLY <2>1, <2>2, <2>3, FilledSlot DEF FillSlot
    <2>. QED
        BY <2>3, <2>4 DEF Filled
<1>. HIDE DEF k
<1>4. fs[k].ino = i /\ fs[k].name = nm
    BY <1>3 DEF Slot
<1>5. k \in Nat /\ RefAt(es, k) = 0 /\ RefAt(fs, k) = i
    BY <1>2, <1>3, <1>4 DEF RefAt
<1>6. ASSUME NEW j \in Nat, j # k
      PROVE  RefAt(fs, j) = RefAt(es, j)
    <2>1. j \in 1 .. Len(fs) <=> j \in 1 .. Len(es)
        BY <1>3, <1>6
    <2>. QED
        BY <1>3, <1>6, <2>1 DEF RefAt
<1>7. OnlyNames(es) => OnlyNames(fs)
    BY <1>3, <1>4 DEF OnlyNames
<1>8. ASSUME Dotted(es) PROVE k \notin {1, 2} /\ Dotted(fs)
    <2>1. Len(es) >= 2 /\ es[1].ino # 0 /\ es[2].ino # 0
        BY <1>8 DEF Dotted
    <2>2. 1 \in 1 .. Len(es) /\ 2 \in 1 .. Len(es)
        BY <1>0, <2>1
    <2>3. k # 1 /\ k # 2
        BY <1>2, <2>1, <2>2
    <2>4. fs[1] = es[1] /\ fs[2] = es[2] /\ 2 \in 1 .. Len(fs) /\ Len(fs) \in Nat
        BY <1>1, <1>3, <2>2, <2>3 DEF Directory
    <2>. QED
        BY <1>8, <2>3, <2>4 DEF Dotted
<1>. QED
    BY <1>1, <1>5, <1>6, <1>7, <1>8 DEF Writes, k

\* gbfs_set_link and gbfs_delete_entry do.
LEMMA LinkWrites ==
    ASSUME NEW es \in Directory, Unique(es), NEW nm \in Name,
           NEW k \in 1 .. Len(es), es[k].ino # 0, es[k].name = nm,
           NEW i \in Ino \cup {0}, NEW fs, fs = SetLink(es, k, i)
    PROVE  Writes(es, fs, k, nm, es[k].ino, i)
<1>1. /\ fs \in Directory /\ Len(fs) = Len(es) /\ Unique(fs)
      /\ InodeByName(fs, nm, {}) = i
      /\ \A m : m # nm => InodeByName(fs, m, {}) = InodeByName(es, m, {})
      /\ \A j \in 1 .. Len(es) : j # k => fs[j] = es[j]
      /\ fs[k] = Slot(i, nm)
    BY SetLinkEffect DEF Directory
<1>2. fs[k].ino = i /\ fs[k].name = nm
    BY <1>1 DEF Slot
<1>3. k \in Nat /\ RefAt(es, k) = es[k].ino /\ RefAt(fs, k) = i
    BY <1>1, <1>2 DEF RefAt
<1>4. \A j \in Nat : j # k => RefAt(fs, j) = RefAt(es, j)
    BY <1>1 DEF RefAt
<1>5. OnlyNames(es) => OnlyNames(fs)
    BY <1>1, <1>2 DEF OnlyNames
<1>6. ASSUME Dotted(es) PROVE k \notin {1, 2} /\ Dotted(fs)
    <2>1. k # 1 /\ k # 2
        BY <1>6, NameiAssumption DEF Dotted
    <2>2. 1 \in 1 .. Len(es) /\ 2 \in 1 .. Len(es)
        BY <1>6 DEF Dotted
    <2>3. fs[1] = es[1] /\ fs[2] = es[2]
        BY <1>1, <2>1, <2>2
    <2>. QED
        BY <1>1, <1>6, <2>1, <2>3 DEF Dotted
<1>. QED
    BY <1>1, <1>3, <1>4, <1>5, <1>6 DEF Writes

\* A rename rewrites ".." and leaves the names alone.
LEMMA DotDotWritten ==
    ASSUME NEW es \in Directory, Unique(es), Dotted(es),
           NEW i \in Ino, NEW fs, fs = SetLink(es, 2, i)
    PROVE  /\ fs \in Directory /\ Unique(fs) /\ Dotted(fs)
           /\ RefAt(fs, 2) = i /\ \A j \in Nat : j # 2 => RefAt(fs, j) = RefAt(es, j)
           /\ \A m \in Name : InodeByName(fs, m, {}) = InodeByName(es, m, {})
<1>0. 2 \in 1 .. Len(es) /\ 1 \in 1 .. Len(es) /\ es[2].ino # 0 /\ es[2].name = DotDot
    BY DEF Dotted
<1>1. /\ fs \in Directory /\ Len(fs) = Len(es) /\ Unique(fs)
      /\ \A m : m # DotDot => InodeByName(fs, m, {}) = InodeByName(es, m, {})
      /\ \A j \in 1 .. Len(es) : j # 2 => fs[j] = es[j]
      /\ fs[2] = Slot(i, DotDot)
    BY <1>0, SetLinkEffect DEF Directory
<1>2. fs[2].ino = i /\ fs[2].name = DotDot /\ i # 0
    BY <1>1, InoFacts DEF Slot
<1>3. RefAt(fs, 2) = i /\ \A j \in Nat : j # 2 => RefAt(fs, j) = RefAt(es, j)
    BY <1>0, <1>1, <1>2 DEF RefAt
<1>4. Dotted(fs)
    BY <1>0, <1>1, <1>2 DEF Dotted
<1>5. DotDot \notin Name
    BY NameiAssumption
<1>. QED
    BY <1>1, <1>3, <1>4, <1>5

\* A new directory.
LEMMA EmptyWritten ==
    ASSUME NEW i \in Ino, NEW d \in Ino
    PROVE  /\ RefAt(MakeEmpty(i, d), 1) = i /\ RefAt(MakeEmpty(i, d), 2) = d
           /\ \A k \in Nat : k \notin {1, 2} => RefAt(MakeEmpty(i, d), k) = 0
           /\ \A m \in Name : InodeByName(MakeEmpty(i, d), m, {}) = 0
<1>. DEFINE es == MakeEmpty(i, d)
<1>1. /\ es \in Directory /\ Len(es) = 2
      /\ es[1].ino = i /\ es[2].ino = d /\ es[1].name = Dot /\ es[2].name = DotDot
    BY InoFacts DEF MakeEmpty, Slot, Directory, Slots
<1>. HIDE DEF es
<1>2. /\ RefAt(es, 1) = i /\ RefAt(es, 2) = d
      /\ \A k \in Nat : k \notin {1, 2} => RefAt(es, k) = 0
    BY <1>1 DEF RefAt
<1>3. \A m \in Name : \A k \in 1 .. Len(es) : es[k].name # m
    BY <1>1, NameiAssumption
<1>4. \A m \in Name : InodeByName(es, m, {}) = 0
    BY <1>1, <1>3, FoundWhenAbsent DEF Directory
<1>. QED
    BY <1>2, <1>4 DEF es

\* What gbfs_empty_dir accepts refers to nothing but itself and its parent.
LEMMA EmptyRefers ==
    ASSUME NEW es \in Directory, Unique(es), Dotted(es), NEW i, EmptyDir(es, i, {})
    PROVE  /\ \A k \in Nat : k \notin {1, 2} => RefAt(es, k) = 0
           /\ \A m \in Name : InodeByName(es, m, {}) = 0
<1>1. DOMAIN es = 1 .. Len(es) /\ 1 \in DOMAIN es /\ 2 \in DOMAIN es
    BY DEF Dotted, Directory
<1>2. \A k \in DOMAIN es : es[k].ino # 0 => es[k].name \in {Dot, DotDot}
    BY DEF EmptyDir
<1>3. \A k \in DOMAIN es : es[k].ino # 0 => k \in {1, 2}
    BY <1>1, <1>2 DEF Unique, Dotted
<1>4. \A k \in Nat : k \notin {1, 2} => RefAt(es, k) = 0
    BY <1>1, <1>3 DEF RefAt
<1>5. \A m \in Name : \A k \in 1 .. Len(es) : es[k].ino = 0 \/ es[k].name # m
    BY <1>1, <1>2, NameiAssumption
<1>6. \A m \in Name : InodeByName(es, m, {}) = 0
    BY <1>5, FoundWhenAbsent DEF Directory
<1>. QED
    BY <1>4, <1>6

\* The slot a name leads to.
LEMMA NameRefers ==
    ASSUME NEW es \in Directory, NEW nm \in Name, InodeByName(es, nm, {}) # 0
    PROVE  /\ FindEntry(es, nm, {}) \in 1 .. Len(es)
           /\ es[FindEntry(es, nm, {})].name = nm
           /\ es[FindEntry(es, nm, {})].ino = InodeByName(es, nm, {})
           /\ RefAt(es, FindEntry(es, nm, {})) = InodeByName(es, nm, {})
<1>1. FindEntry(es, nm, {}) # 0 /\ FindEntry(es, nm, {}) \in 1 .. Len(es)
      /\ es[FindEntry(es, nm, {})].name = nm
    BY FoundWhenAbsent DEF Directory
<1>2. InodeByName(es, nm, {}) = es[FindEntry(es, nm, {})].ino
    BY <1>1 DEF InodeByName
<1>. QED
    BY <1>1, <1>2 DEF RefAt
-----------------------------------------------------------------------------
(***************************************************************************)
(* The directories, the tree they hold and their link counts               *)
(***************************************************************************)

\* The tree that a reader of the directories L sees in the slots E.
Bound(E, L) ==
    [d \in Ino |-> [nm \in Name |-> IF d \in L THEN InodeByName(E[d], nm, {}) ELSE 0]]

\* The counts N, less the two of its own that the root has, are those of the
\* slots in the directories L.
Links(E, L, N) ==
    \A i \in Ino : Counted(E, L, i, N[i] - (IF i = Root THEN 2 ELSE 0))

\* Every directory of L but the root begins with itself and its parent.
Heads(E, L, P) ==
    \A d \in L \ {Root} :
        Dotted(E[d]) /\ RefAt(E[d], 1) = d /\ RefAt(E[d], 2) = P[d]

Sound(E, L, P, N) ==
    /\ Root \in L /\ L \subseteq Ino
    /\ E \in [Ino -> Directory] /\ P \in [Ino -> Ino] /\ N \in [Ino -> Int]
    /\ \A d \in Ino : Unique(E[d])
    /\ OnlyNames(E[Root])
    /\ Heads(E, L, P) /\ Links(E, L, N)

\* The counts once a slot that referred to old refers to new.
Recounted(N, M, old, new) ==
    /\ M \in [Ino -> Int]
    /\ \A i \in Ino : M[i] = N[i] - Tally(old, i) + Tally(new, i)

\* One slot is written: the counts follow.
LEMMA LinksSlot ==
    ASSUME NEW E, NEW F, NEW L, NEW d \in L, NEW k \in Nat, Differ(E, F, L, d, k),
           NEW N \in [Ino -> Int], NEW M, Links(E, L, N),
           NEW old, old = RefAt(E[d], k), NEW new, new = RefAt(F[d], k),
           Recounted(N, M, old, new)
    PROVE  Links(F, L, M)
<1>1. ASSUME NEW i \in Ino
      PROVE  Counted(F, L, i, M[i] - (IF i = Root THEN 2 ELSE 0))
    <2>. DEFINE n == N[i] - (IF i = Root THEN 2 ELSE 0)
    <2>1. n \in Int /\ Counted(E, L, i, n)
        BY DEF Links
    <2>2. Tally(old, i) \in Int /\ Tally(new, i) \in Int
        BY DEF Tally
    <2>3. M[i] - (IF i = Root THEN 2 ELSE 0) = n - Tally(old, i) + Tally(new, i)
        BY <2>2 DEF Recounted
    <2>. HIDE DEF n
    <2>4. Counted(F, L, i, n - Tally(old, i) + Tally(new, i))
        BY <2>1, CountSlot
    <2>. QED
        BY <2>3, <2>4
<1>. QED
    BY <1>1 DEF Links

\* f with one value changed.
With(f, x, v) == [f EXCEPT ![x] = v]

\* B with one name changed.
Changed(B, C, d, nm, v) ==
    /\ C = [B EXCEPT ![d][nm] = v]
    /\ \A p \in Ino, m \in Name : C[p][m] = IF p = d /\ m = nm THEN v ELSE B[p][m]

\* One name is bound, unbound or bound to something else.
LEMMA SoundName ==
    ASSUME NEW E, NEW L, NEW P, NEW N, Sound(E, L, P, N),
           NEW d \in L, NEW nm \in Name, NEW k, NEW old, NEW new \in Ino \cup {0},
           NEW fs, Writes(E[d], fs, k, nm, old, new),
           NEW F, F = With(E, d, fs),
           NEW M, Recounted(N, M, old, new)
    PROVE  /\ Sound(F, L, P, M)
           /\ Changed(Bound(E, L), Bound(F, L), d, nm, new)
<1>1. /\ E \in [Ino -> Directory] /\ d \in Ino
      /\ fs \in Directory /\ Unique(fs) /\ k \in Nat
      /\ RefAt(E[d], k) = old /\ RefAt(fs, k) = new
      /\ \A j \in Nat : j # k => RefAt(fs, j) = RefAt(E[d], j)
    BY DEF Sound, Writes
<1>2. F \in [Ino -> Directory] /\ F[d] = fs /\ \A x \in Ino \ {d} : F[x] = E[x]
    BY <1>1 DEF With
<1>3. Differ(E, F, L, d, k)
    <2>1. ASSUME NEW x \in L, NEW j \in Nat, x # d \/ j # k
          PROVE  RefAt(F[x], j) = RefAt(E[x], j)
        <3>1. CASE x = d
            BY <1>1, <1>2, <2>1, <3>1
        <3>2. CASE x # d
            BY <1>2, <3>2 DEF Sound
        <3>. QED
            BY <3>1, <3>2
    <2>. QED
        BY <2>1 DEF Differ
<1>4. Links(F, L, M)
    BY <1>1, <1>2, <1>3, LinksSlot DEF Sound
<1>5. OnlyNames(F[Root])
    BY <1>1, <1>2, InoFacts DEF Sound, Writes
<1>6. Heads(F, L, P)
    <2>1. ASSUME NEW x \in L \ {Root}
          PROVE  Dotted(F[x]) /\ RefAt(F[x], 1) = x /\ RefAt(F[x], 2) = P[x]
        <3>1. Dotted(E[x]) /\ RefAt(E[x], 1) = x /\ RefAt(E[x], 2) = P[x]
            BY DEF Sound, Heads
        <3>2. CASE x = d
            <4>1. k # 1 /\ k # 2 /\ Dotted(fs)
                BY <3>1, <3>2 DEF Writes
            <4>. QED
                BY <1>1, <1>2, <3>1, <3>2, <4>1
        <3>3. CASE x # d
            BY <1>2, <3>1, <3>3 DEF Sound
        <3>. QED
            BY <3>2, <3>3
    <2>. QED
        BY <2>1 DEF Heads
<1>7. Sound(F, L, P, M)
    <2>1. \A x \in Ino : Unique(F[x])
        BY <1>1, <1>2 DEF Sound
    <2>. QED
        BY <1>2, <1>4, <1>5, <1>6, <2>1 DEF Sound, Recounted
<1>8. ASSUME NEW x \in Ino
      PROVE  Bound(F, L)[x] =
                 IF x = d THEN [Bound(E, L)[d] EXCEPT ![nm] = new] ELSE Bound(E, L)[x]
    <2>1. CASE x # d
        BY <1>2, <2>1 DEF Bound
    <2>2. CASE x = d
        <3>1. \A m \in Name : InodeByName(fs, m, {}) =
                  IF m = nm THEN new ELSE InodeByName(E[d], m, {})
            BY DEF Writes
        <3>. QED
            BY <1>1, <1>2, <2>2, <3>1 DEF Bound
    <2>. QED
        BY <2>1, <2>2
<1>9. Bound(F, L) = [Bound(E, L) EXCEPT ![d][nm] = new]
    BY <1>8 DEF Bound
<1>10. \A x \in Ino, m \in Name : Bound(F, L)[x][m] =
           IF x = d /\ m = nm THEN new ELSE Bound(E, L)[x][m]
    <2>1. \A x \in Ino : DOMAIN Bound(E, L)[x] = Name
        BY DEF Bound
    <2>. QED
        BY ONLY <1>1, <1>8, <2>1
<1>. QED
    BY <1>7, <1>9, <1>10 DEF Changed

\* ".." of directory s is rewritten.
LEMMA SoundDotDot ==
    ASSUME NEW E, NEW L, NEW P, NEW N, Sound(E, L, P, N),
           NEW s \in L \ {Root}, NEW i \in Ino, NEW F, F = With(E, s, SetLink(E[s], 2, i)),
           NEW Q, Q = With(P, s, i),
           NEW M, Recounted(N, M, P[s], i)
    PROVE  Sound(F, L, Q, M) /\ Bound(F, L) = Bound(E, L)
<1>. DEFINE fs == SetLink(E[s], 2, i)
<1>1. /\ E \in [Ino -> Directory] /\ s \in Ino /\ P \in [Ino -> Ino]
      /\ Unique(E[s]) /\ Dotted(E[s]) /\ RefAt(E[s], 1) = s /\ RefAt(E[s], 2) = P[s]
    BY DEF Sound, Heads
<1>2. /\ fs \in Directory /\ Unique(fs) /\ Dotted(fs)
      /\ RefAt(fs, 2) = i /\ \A j \in Nat : j # 2 => RefAt(fs, j) = RefAt(E[s], j)
      /\ \A m \in Name : InodeByName(fs, m, {}) = InodeByName(E[s], m, {})
    BY <1>1, DotDotWritten
<1>3. F = [E EXCEPT ![s] = fs]
    BY DEF With
<1>. HIDE DEF fs
<1>4. F \in [Ino -> Directory] /\ F[s] = fs /\ \A x \in Ino \ {s} : F[x] = E[x]
    BY <1>1, <1>2, <1>3
<1>5. Differ(E, F, L, s, 2)
    <2>1. ASSUME NEW x \in L, NEW j \in Nat, x # s \/ j # 2
          PROVE  RefAt(F[x], j) = RefAt(E[x], j)
        <3>1. CASE x = s
            BY <1>2, <1>4, <2>1, <3>1
        <3>2. CASE x # s
            BY <1>4, <3>2 DEF Sound
        <3>. QED
            BY <3>1, <3>2
    <2>. QED
        BY <2>1 DEF Differ
<1>6. Links(F, L, M)
    BY <1>1, <1>2, <1>4, <1>5, LinksSlot DEF Sound
<1>7. Q \in [Ino -> Ino] /\ Q[s] = i /\ \A x \in Ino \ {s} : Q[x] = P[x]
    BY <1>1 DEF With
<1>8. Heads(F, L, Q)
    <2>1. ASSUME NEW x \in L \ {Root}
          PROVE  Dotted(F[x]) /\ RefAt(F[x], 1) = x /\ RefAt(F[x], 2) = Q[x]
        <3>1. CASE x = s
            BY <1>1, <1>2, <1>4, <1>7, <3>1
        <3>2. CASE x # s
            BY <1>4, <1>7, <3>2 DEF Sound, Heads
        <3>. QED
            BY <3>1, <3>2
    <2>. QED
        BY <2>1 DEF Heads
<1>9. Sound(F, L, Q, M)
    <2>1. \A x \in Ino : Unique(F[x])
        BY <1>2, <1>4 DEF Sound
    <2>2. OnlyNames(F[Root])
        BY <1>4, InoFacts DEF Sound
    <2>. QED
        BY <1>4, <1>6, <1>7, <1>8, <2>1, <2>2 DEF Sound, Recounted
<1>10. Bound(F, L) = Bound(E, L)
    <2>1. ASSUME NEW x \in Ino, NEW m \in Name
          PROVE  InodeByName(F[x], m, {}) = InodeByName(E[x], m, {})
        BY <1>2, <1>4
    <2>. QED
        BY <2>1 DEF Bound
<1>. QED
    BY <1>9, <1>10

\* A directory is made.
LEMMA SoundMade ==
    ASSUME NEW E, NEW L, NEW P, NEW N, Sound(E, L, P, N),
           NEW n \in Ino \ L, NEW d \in L, NEW F, F = With(E, n, MakeEmpty(n, d)),
           NEW Q, Q = With(P, n, d),
           NEW M \in [Ino -> Int], \A i \in Ino : M[i] = N[i] + Tally(n, i) + Tally(d, i)
    PROVE  Sound(F, L \cup {n}, Q, M) /\ Bound(F, L \cup {n}) = Bound(E, L)
<1>. DEFINE es == MakeEmpty(n, d)
<1>1. E \in [Ino -> Directory] /\ d \in Ino /\ n # Root /\ P \in [Ino -> Ino]
    BY DEF Sound
<1>2. es \in Directory /\ Unique(es) /\ Dotted(es)
    BY <1>1, CoherentEmpty, CoherentMakeEmpty DEF Coherent
<1>3. /\ RefAt(es, 1) = n /\ RefAt(es, 2) = d
      /\ \A k \in Nat : k \notin {1, 2} => RefAt(es, k) = 0
      /\ \A m \in Name : InodeByName(es, m, {}) = 0
    BY <1>1, EmptyWritten
<1>. HIDE DEF es
<1>4. F \in [Ino -> Directory] /\ F[n] = es /\ \A x \in Ino \ {n} : F[x] = E[x]
    BY <1>1, <1>2 DEF es, With
<1>5. Q \in [Ino -> Ino] /\ Q[n] = d /\ \A x \in Ino \ {n} : Q[x] = P[x]
    BY <1>1 DEF With
<1>6. \A x \in L : F[x] = E[x] /\ Q[x] = P[x] /\ x \in Ino
    BY <1>4, <1>5 DEF Sound
<1>7. ASSUME NEW i \in Ino
      PROVE  Counted(F, L \cup {n}, i, M[i] - (IF i = Root THEN 2 ELSE 0))
    <2>. DEFINE c == N[i] - (IF i = Root THEN 2 ELSE 0)
    <2>1. c \in Int /\ Counted(E, L, i, c)
        BY DEF Sound, Links
    <2>2. Tally(n, i) \in Int /\ Tally(d, i) \in Int /\ i # 0
        BY InoFacts DEF Tally
    <2>3. M[i] - (IF i = Root THEN 2 ELSE 0) = c + Tally(n, i) + Tally(d, i)
        BY <2>2 DEF Sound
    <2>. HIDE DEF c
    <2>4. Counted(F, L, i, c)
        BY <1>6, <2>1, CountSame
    <2>5. /\ n \notin L /\ RefAt(F[n], 1) = n /\ RefAt(F[n], 2) = d
          /\ \A k \in Nat : k \notin {1, 2} => RefAt(F[n], k) = 0
        BY <1>3, <1>4
    <2>6. Counted(F, L \cup {n}, i, c + Tally(n, i) + Tally(d, i))
        BY ONLY <2>1, <2>2, <2>4, <2>5, CountDir
    <2>. QED
        BY <2>3, <2>6
<1>8. Links(F, L \cup {n}, M)
    BY <1>7 DEF Links
<1>9. Heads(F, L \cup {n}, Q)
    BY <1>2, <1>3, <1>4, <1>5, <1>6 DEF Heads, Sound
<1>10. Sound(F, L \cup {n}, Q, M)
    <2>1. \A x \in Ino : Unique(F[x])
        BY <1>2, <1>4 DEF Sound
    <2>2. OnlyNames(F[Root])
        BY <1>1, <1>4, InoFacts DEF Sound
    <2>. QED
        BY <1>4, <1>5, <1>8, <1>9, <2>1, <2>2 DEF Sound
<1>11. Bound(F, L \cup {n}) = Bound(E, L)
    <2>1. ASSUME NEW x \in Ino, NEW m \in Name
          PROVE  (IF x \in L \cup {n} THEN InodeByName(F[x], m, {}) ELSE 0) =
                     IF x \in L THEN InodeByName(E[x], m, {}) ELSE 0
        BY <1>3, <1>4, <1>6
    <2>. QED
        BY <2>1 DEF Bound
<1>. QED
    BY <1>10, <1>11

\* A directory that gbfs_empty_dir accepts is removed.
LEMMA SoundRemoved ==
    ASSUME NEW E, NEW L, NEW P, NEW N, Sound(E, L, P, N),
           NEW s \in L \ {Root}, EmptyDir(E[s], s, {}),
           NEW M \in [Ino -> Int], \A i \in Ino : M[i] = N[i] - Tally(s, i) - Tally(P[s], i)
    PROVE  /\ Sound(E, L \ {s}, P, M)
           /\ Bound(E, L \ {s}) = Bound(E, L)
           /\ \A m \in Name : Bound(E, L)[s][m] = 0
<1>1. /\ E \in [Ino -> Directory] /\ s \in Ino /\ P[s] \in Ino
      /\ Unique(E[s]) /\ Dotted(E[s]) /\ RefAt(E[s], 1) = s /\ RefAt(E[s], 2) = P[s]
    BY DEF Sound, Heads
<1>2. /\ \A k \in Nat : k \notin {1, 2} => RefAt(E[s], k) = 0
      /\ \A m \in Name : InodeByName(E[s], m, {}) = 0
    BY <1>1, EmptyRefers
<1>3. ASSUME NEW i \in Ino
      PROVE  Counted(E, L \ {s}, i, M[i] - (IF i = Root THEN 2 ELSE 0))
    <2>. DEFINE c == N[i] - (IF i = Root THEN 2 ELSE 0)
    <2>1. c \in Int /\ Counted(E, L, i, c)
        BY DEF Sound, Links
    <2>2. Tally(s, i) \in Int /\ Tally(P[s], i) \in Int /\ i # 0
        BY InoFacts DEF Tally
    <2>3. M[i] - (IF i = Root THEN 2 ELSE 0) = c - Tally(s, i) - Tally(P[s], i)
        BY <2>2 DEF Sound
    <2>. HIDE DEF c
    <2>4. L = (L \ {s}) \cup {s} /\ s \notin L \ {s}
        OBVIOUS
    <2>5. Counted(E, (L \ {s}) \cup {s}, i, c)
        BY <2>1, <2>4
    <2>6. Counted(E, L \ {s}, i, c - Tally(s, i) - Tally(P[s], i))
        BY <1>1, <1>2, <2>1, <2>2, <2>4, <2>5, CountDir
    <2>. QED
        BY <2>3, <2>6
<1>4. Links(E, L \ {s}, M)
    BY <1>3 DEF Links
<1>5. Sound(E, L \ {s}, P, M)
    BY <1>4, InoFacts DEF Sound, Heads
<1>6. Bound(E, L \ {s}) = Bound(E, L)
    BY <1>2 DEF Bound
<1>7. \A m \in Name : Bound(E, L)[s][m] = 0
    BY <1>1, <1>2 DEF Bound
<1>. QED
    BY <1>5, <1>6, <1>7
-----------------------------------------------------------------------------
(***************************************************************************)
(* The inductive invariant                                                 *)
(***************************************************************************)

\* Nothing but directories is dead, what is nothing has no links, and only
\* directories in use have cached dentries.
Kept ==
    /\ dead \subseteq Dirs
    /\ \A i \in Ino : mode[i] = "none" => nlink[i] = 0
    /\ \A d \in Ino \ Live : dentry[d] = NoDentries

TreeSound ==
    /\ Kept
    /\ Sound(dirent, Live, parent, nlink)
    /\ Shaped(Bound(dirent, Live), parent, Live, Dirs)

\* What a reader of the directories sees.
LEMMA TreeIs == TreeOf = Bound(dirent, Live)
BY DEF TreeOf, Bound, Live

\* It is the invariant that TLC can evaluate, with the link counts.
LEMMA TreeSoundIs ==
    ASSUME TypeOK, NameInv
    PROVE  TreeSound <=> TreeInv /\ Links(dirent, Live, nlink)
<1>n. nlink \in [Ino -> Int]
    BY DEF TypeOK
<1>s. /\ dirent \in [Ino -> Directory] /\ parent \in [Ino -> Ino]
      /\ \A d \in Ino : Unique(dirent[d])
      /\ Live \subseteq Ino /\ Root \in Ino /\ mode[Root] = "dir"
      /\ \A d \in Live \ {Root} : Dotted(dirent[d])
    BY EntryIsSlots, InoFacts
       DEF TypeOK, NameInv, Coherent, Directory, Live, LiveDir
<1>0. /\ dirent \in [Ino -> Directory] /\ parent \in [Ino -> Ino] /\ nlink \in [Ino -> Int]
      /\ \A d \in Ino : Unique(dirent[d])
      /\ Live \subseteq Ino /\ Root \in Ino /\ mode[Root] = "dir"
      /\ \A d \in Live \ {Root} : Dotted(dirent[d])
    BY <1>n, <1>s
<1>1. Root \in Live <=> Root \notin dead
    BY <1>0 DEF Live, LiveDir
<1>2. OnlyNames(dirent[Root]) <=>
          \A k \in 1 .. Len(dirent[Root]) :
              dirent[Root][k].ino # 0 => dirent[Root][k].name \in Name
    BY DEF OnlyNames
<1>3. \A d \in Live \ {Root} : /\ RefAt(dirent[d], 1) = dirent[d][1].ino
                               /\ RefAt(dirent[d], 2) = dirent[d][2].ino
    BY <1>0 DEF RefAt, Dotted
<1>4. Heads(dirent, Live, parent) <=> Dots
    BY <1>0, <1>3 DEF Heads, Dots
<1>5. Sound(dirent, Live, parent, nlink) <=>
          /\ Root \notin dead /\ OnlyNames(dirent[Root])
          /\ Dots /\ Links(dirent, Live, nlink)
    BY <1>0, <1>1, <1>4 DEF Sound
<1>. QED
    BY <1>2, <1>5, TreeIs DEF TreeSound, Kept, TreeInv, Tidy

\* An inode that a slot refers to has links, the root more than its own.
LEMMA Referred ==
    ASSUME NEW E, NEW L, NEW P, NEW N, Sound(E, L, P, N),
           NEW d \in L, NEW k \in Nat, NEW i \in Ino, RefAt(E[d], k) = i
    PROVE  N[i] > 0
<1>1. Counted(E, L, i, N[i] - (IF i = Root THEN 2 ELSE 0)) /\ N[i] \in Int
    BY DEF Sound, Links
<1>2. <<d, k>> \in Refs(E, L, i)
    BY RefsAre
<1>3. Cardinality(Refs(E, L, i)) \in Nat /\ Cardinality(Refs(E, L, i)) # 0
    BY <1>1, <1>2, FS_CardinalityType, FS_EmptySet DEF Counted
<1>. QED
    BY <1>1, <1>3 DEF Counted

\* An inode that no slot refers to has none.
LEMMA Unreferred ==
    ASSUME NEW E, NEW L, NEW P, NEW N, Sound(E, L, P, N),
           NEW i \in Ino \ {Root}, N[i] # 0
    PROVE  \E d \in L, k \in Nat : RefAt(E[d], k) = i
<1>1. Counted(E, L, i, N[i])
    BY DEF Sound, Links
<1>2. Refs(E, L, i) # {}
    BY <1>1, FS_EmptySet DEF Counted
<1>. QED
    BY <1>2, RefsAre

\* The root's own links are there always.
LEMMA RootLinked ==
    ASSUME NEW E, NEW L, NEW P, NEW N, Sound(E, L, P, N)
    PROVE  N[Root] > 0
<1>1. Counted(E, L, Root, N[Root] - 2) /\ N[Root] \in Int
    BY InoFacts DEF Sound, Links
<1>2. Cardinality(Refs(E, L, Root)) \in Nat
    BY <1>1, FS_CardinalityType DEF Counted
<1>. QED
    BY <1>1, <1>2 DEF Counted

\* What the tree, the dentries and the counts say of each other.
LEMMA TreeFacts ==
    ASSUME TypeOK, NameInv, TreeSound
    PROVE  /\ TreeOf \in [Ino -> [Name -> Ino \cup {0}]]
           /\ \A d \in Ino, nm \in Name : TreeOf[d][nm] # 0 =>
                  /\ d \in Live /\ TreeOf[d][nm] \in Ino \ {Root}
                  /\ TreeOf[d][nm] = InodeByName(dirent[d], nm, {})
                  /\ nlink[TreeOf[d][nm]] > 0 /\ mode[TreeOf[d][nm]] # "none"
           /\ \A d \in Ino, nm \in Name : dentry[d][nm] # NoDentry =>
                  d \in Live /\ TreeOf[d][nm] = dentry[d][nm]
           /\ \A d \in Live : TreeOf[d] = [nm \in Name |-> InodeByName(dirent[d], nm, {})]
           /\ \A d \in Ino \ Live, nm \in Name : TreeOf[d][nm] = 0
           /\ \A i \in Ino : nlink[i] = 0 => i \notin Live
<1>0. /\ Sound(dirent, Live, parent, nlink) /\ Live \subseteq Ino
      /\ \A d \in Ino : dirent[d] \in Directory
    BY DEF TreeSound, Sound
<1>1. ASSUME NEW d \in Ino, NEW nm \in Name
      PROVE  TreeOf[d][nm] \in Ino \cup {0}
    <2>1. InodeByName(dirent[d], nm, {}) \in Ino \cup {0}
        BY <1>0, InodeByNameType DEF Directory
    <2>. QED
        BY <2>1 DEF TreeOf
<1>2. TreeOf \in [Ino -> [Name -> Ino \cup {0}]]
    BY <1>1 DEF TreeOf
<1>3. ASSUME NEW d \in Ino, NEW nm \in Name, TreeOf[d][nm] # 0
      PROVE  /\ d \in Live /\ TreeOf[d][nm] \in Ino \ {Root}
             /\ TreeOf[d][nm] = InodeByName(dirent[d], nm, {})
             /\ nlink[TreeOf[d][nm]] > 0 /\ mode[TreeOf[d][nm]] # "none"
    <2>. DEFINE i == InodeByName(dirent[d], nm, {})
                k == FindEntry(dirent[d], nm, {})
    <2>1. d \in Live /\ TreeOf[d][nm] = i
        BY <1>3 DEF TreeOf, Live
    <2>2. i # 0 /\ i \in Ino
        BY <1>1, <1>3, <2>1
    <2>3. /\ k \in 1 .. Len(dirent[d]) /\ dirent[d][k].name = nm
          /\ dirent[d][k].ino = i /\ RefAt(dirent[d], k) = i
        BY <1>0, <2>2, NameRefers
    <2>4. i # Root
        BY <2>3 DEF NameInv, Coherent
    <2>. HIDE DEF i, k
    <2>5. nlink[i] > 0
        BY <1>0, <2>1, <2>2, <2>3, Referred
    <2>6. mode[i] # "none"
        BY <2>2, <2>5 DEF TreeSound, Kept
    <2>. QED
        BY <2>1, <2>2, <2>4, <2>5, <2>6 DEF i
<1>4. ASSUME NEW d \in Ino, NEW nm \in Name, dentry[d][nm] # NoDentry
      PROVE  d \in Live /\ TreeOf[d][nm] = dentry[d][nm]
    <2>1. d \in Live
        BY <1>4 DEF TreeSound, Kept, NoDentries
    <2>2. dentry[d][nm] = InodeByName(dirent[d], nm, {})
        BY <1>4 DEF NameInv, Coherent
    <2>. QED
        BY <2>1, <2>2 DEF TreeOf, Live
<1>5. \A d \in Live : TreeOf[d] = [nm \in Name |-> InodeByName(dirent[d], nm, {})]
    BY DEF TreeOf, Live
<1>6. \A d \in Ino \ Live, nm \in Name : TreeOf[d][nm] = 0
    BY DEF TreeOf, Live
<1>7. ASSUME NEW i \in Ino, nlink[i] = 0
      PROVE  i \notin Live
    <2>1. i # Root
        BY <1>0, <1>7, RootLinked
    <2>2. i \in Live => RefAt(dirent[i], 1) = i
        BY <1>0, <2>1 DEF Sound, Heads
    <2>3. i \in Live => nlink[i] > 0
        BY <1>0, <2>2, Referred
    <2>. QED
        BY <1>7, <2>3
<1>. QED
    BY <1>2, <1>3, <1>4, <1>5, <1>6, <1>7

\* A file with a link has a name.
LEMMA FileNamed ==
    ASSUME TypeOK, NameInv, TreeSound, NEW i \in Ino, i \notin Live, nlink[i] # 0
    PROVE  \E d \in Ino, nm \in Name : TreeOf[d][nm] = i
<1>0. Sound(dirent, Live, parent, nlink)
    BY DEF TreeSound
<1>1. i # Root
    BY <1>0 DEF Sound
<1>2. PICK d \in Live, k \in Nat : RefAt(dirent[d], k) = i
    BY <1>0, <1>1, Unreferred
<1>3. /\ k \in 1 .. Len(dirent[d]) /\ dirent[d][k].ino = i /\ i # 0 /\ d \in Ino
      /\ dirent[d] \in Directory /\ Unique(dirent[d])
    BY <1>0, <1>2, InoFacts DEF RefAt, Sound
<1>4. dirent[d][k].name \in Name
    <2>1. CASE d = Root
        BY <1>0, <1>3, <2>1 DEF Sound, OnlyNames
    <2>2. CASE d # Root
        <3>1. /\ Dotted(dirent[d])
              /\ RefAt(dirent[d], 1) = d /\ RefAt(dirent[d], 2) = parent[d]
            BY <1>0, <2>2 DEF Sound, Heads
        <3>2. parent[d] \in Live
            BY <2>2 DEF TreeSound, Shaped
        <3>3. k # 1 /\ k # 2
            BY <1>2, <3>1, <3>2
        <3>4. 1 \in 1 .. Len(dirent[d]) /\ 2 \in 1 .. Len(dirent[d])
            BY <1>3, <3>1 DEF Dotted, Directory
        <3>5. dirent[d][k].name # Dot /\ dirent[d][k].name # DotDot
            BY <1>3, <3>1, <3>3, <3>4 DEF Dotted, Unique, Directory
        <3>6. dirent[d][k].name \in Name \cup {Dot, DotDot}
            <4>1. dirent[d][k] \in Slots(Ino \cup {0}, Name \cup {Dot, DotDot})
                BY <1>3 DEF Directory
            <4>. QED
                BY <4>1 DEF Slots
        <3>. QED
            BY <3>5, <3>6
    <2>. QED
        BY <2>1, <2>2
<1>5. InodeByName(dirent[d], dirent[d][k].name, {}) = i
    BY <1>3, FoundWhenPresent DEF Directory
<1>6. TreeOf[d][dirent[d][k].name] = i
    BY <1>3, <1>4, <1>5 DEF TreeOf, Live
<1>. QED
    BY <1>3, <1>4, <1>6
-----------------------------------------------------------------------------
(***************************************************************************)
(* Steps of the abstract tree                                              *)
(***************************************************************************)

\* A step of the file tree, or none.
TreeStep == [Tree!TreeNext]_(Tree!treevars)

\* A directory in use is one of the tree.
LEMMA LiveIsDir ==
    ASSUME TreeSound, NEW d \in Live
    PROVE  Tree!IsDir(d)
<1>1. mode[d] = "dir"
    BY DEF Live, LiveDir
<1>2. CASE d = Root
    BY <1>1, <1>2 DEF Tree!IsDir, Tree!Named
<1>3. CASE d # Root
    <2>1. parent[d] \in Ino /\ \E nm \in Name : TreeOf[parent[d]][nm] = d
        BY <1>3, TreeIs DEF TreeSound, Shaped, Live
    <2>. QED
        BY <1>1, <2>1 DEF Tree!IsDir, Tree!Named
<1>. QED
    BY <1>2, <1>3

\* A name that a negative dentry tells of is vacant.
LEMMA StepMake ==
    ASSUME TreeSound, NEW d \in Live, NEW nm \in Name, NEW o \in Ino,
           NEW k \in {"nondir", "dir"}, mode[o] = "none", TreeOf[d][nm] = 0,
           mode' = [mode EXCEPT ![o] = k], TreeOf' = [TreeOf EXCEPT ![d][nm] = o],
           held' = held, linkable' = linkable
    PROVE  TreeStep
<1>1. d \in Ino /\ Tree!IsDir(d)
    BY LiveIsDir DEF Live
<1>2. Tree!Make(d, nm, o, k)
    BY <1>1 DEF Tree!Make, Tree!Vacant
<1>. QED
    BY <1>1, <1>2 DEF Tree!TreeNext, TreeStep

\* A file that has a name, or may still be given its first, gets another.
LEMMA StepBind ==
    ASSUME TreeSound, NEW d \in Live, NEW nm \in Name, NEW o \in Ino,
           mode[o] = "nondir", TreeOf[d][nm] = 0,
           \/ o \in linkable
           \/ \E x \in Ino, m \in Name : TreeOf[x][m] = o,
           mode' = mode, TreeOf' = [TreeOf EXCEPT ![d][nm] = o],
           held' = held, linkable' = linkable \ {o}
    PROVE  TreeStep
<1>1. d \in Ino /\ Tree!IsDir(d)
    BY LiveIsDir DEF Live
<1>2. Tree!Bind(d, nm, o)
    BY <1>1 DEF Tree!Bind, Tree!Vacant, Tree!Named
<1>. QED
    BY <1>1, <1>2 DEF Tree!TreeNext, TreeStep

\* A name is unbound from a file or an empty directory.
LEMMA StepUnbind ==
    ASSUME TypeOK, NameInv, TreeSound, NEW d \in Live, NEW nm \in Name,
           TreeOf[d][nm] # 0, \A m \in Name : TreeOf[TreeOf[d][nm]][m] = 0,
           mode' = mode, TreeOf' = [TreeOf EXCEPT ![d][nm] = 0],
           held' = held, linkable' = linkable
    PROVE  TreeStep
<1>1. d \in Ino /\ Tree!IsDir(d)
    BY LiveIsDir DEF Live
<1>2. TreeOf[d][nm] \in Ino /\ TreeOf \in [Ino -> [Name -> Ino \cup {0}]]
    BY <1>1, TreeFacts
<1>3. TreeOf[TreeOf[d][nm]] = Tree!Empty
    BY <1>2 DEF Tree!Empty
<1>4. Tree!Unbind(d, nm)
    BY <1>1, <1>3 DEF Tree!Unbind
<1>5. \E o \in Ino : TRUE
    BY <1>1
<1>. QED
    BY <1>1, <1>4, <1>5 DEF Tree!TreeNext, TreeStep

\* nd lies in S, which is closed towards the root and does not hold the moved
\* object: nothing below that object is nd.
LEMMA StepMove ==
    ASSUME TypeOK, NameInv, TreeSound, NEW od \in Live, NEW on \in Name,
           NEW nd \in Live, NEW nn \in Name,
           TreeOf[od][on] # 0, TreeOf[od][on] # TreeOf[nd][nn],
           TreeOf[nd][nn] # 0 =>
               /\ mode[TreeOf[nd][nn]] = mode[TreeOf[od][on]]
               /\ \A m \in Name : TreeOf[TreeOf[nd][nn]][m] = 0,
           mode[TreeOf[od][on]] = "dir" => TreeOf[od][on] \notin Ancestors(nd),
           mode' = mode, TreeOf' = [TreeOf EXCEPT ![od][on] = 0, ![nd][nn] = TreeOf[od][on]],
           held' = held, linkable' = linkable
    PROVE  TreeStep
<1>. DEFINE o == TreeOf[od][on]
            t == TreeOf[nd][nn]
<1>1. od \in Ino /\ nd \in Ino /\ Tree!IsDir(od) /\ Tree!IsDir(nd)
    BY LiveIsDir DEF Live
<1>2. /\ o \in Ino /\ t \in Ino \cup {0} /\ mode[o] # "none"
      /\ TreeOf \in [Ino -> [Name -> Ino \cup {0}]]
    BY <1>1, TreeFacts
<1>3. t # 0 => mode[t] = mode[o] /\ TreeOf[t] = Tree!Empty
    BY <1>2 DEF Tree!Empty
<1>4. nd \notin Tree!Below(o)
    <2>1. PICK S \in SUBSET Ino :
              /\ o \in S /\ nd \notin S
              /\ \A d \in S, nm \in Name : TreeOf[d][nm] \in S \cup {0}
        <3>1. CASE mode[o] = "dir"
            <4>1. PICK A \in SUBSET Ino :
                      nd \in A /\ o \notin A /\ \A x \in A \ {Root} : parent[x] \in A
                BY <1>2, <3>1 DEF Ancestors
            <4>2. ASSUME NEW d \in Ino \ (A \cap Live), NEW nm \in Name
                  PROVE  TreeOf[d][nm] \in (Ino \ (A \cap Live)) \cup {0}
                <5>. DEFINE v == TreeOf[d][nm]
                <5>1. CASE v \in A \cap Live
                    <6>0. v \in Dirs /\ v # 0
                        BY <5>1, InoFacts DEF Live, LiveDir, Dirs
                    <6>1. v \in Dirs /\ d \in Live /\ v # Root
                        BY <6>0, TreeFacts
                    <6>2. parent[v] = d
                        BY <6>1, TreeIs DEF TreeSound, Shaped
                    <6>3. d \in A
                        BY <4>1, <5>1, <6>1, <6>2
                    <6>. QED
                        BY <6>1, <6>3
                <5>2. CASE v \notin A \cap Live
                    BY <1>2, <5>2
                <5>. QED
                    BY <5>1, <5>2
            <4>. QED
                BY <1>1, <1>2, <4>1, <4>2
        <3>2. CASE mode[o] # "dir"
            <4>1. o \notin Live /\ nd # o
                BY <3>2 DEF Live, LiveDir
            <4>2. \A nm \in Name : TreeOf[o][nm] = 0
                BY <1>2, <4>1, TreeFacts
            <4>3. {o} \in SUBSET Ino /\ o \in {o} /\ nd \notin {o}
                BY <1>2, <4>1
            <4>4. \A d \in {o}, nm \in Name : TreeOf[d][nm] \in {o} \cup {0}
                BY <4>2
            <4>. QED
                BY ONLY <4>3, <4>4
        <3>. QED
            BY <3>1, <3>2
    <2>. QED
        BY <1>1, <2>1 DEF Tree!Below
<1>5. Tree!Move(od, on, nd, nn)
    BY <1>1, <1>3, <1>4 DEF Tree!Move
<1>. QED
    BY <1>1, <1>5 DEF Tree!TreeNext, TreeStep

\* O_TMPFILE makes an object without a name.
LEMMA StepAnonymous ==
    ASSUME NEW o \in Ino, mode[o] = "none", mode' = [mode EXCEPT ![o] = "nondir"],
           held' = held \cup {o}, linkable' \in {linkable, linkable \cup {o}},
           TreeOf' = TreeOf
    PROVE  TreeStep
<1>1. Tree!MakeAnonymous(o)
    BY DEF Tree!MakeAnonymous
<1>. QED
    BY <1>1 DEF Tree!TreeNext, TreeStep

\* Only what has a cached dentry, hence a name, is opened.
LEMMA StepOpen ==
    ASSUME TypeOK, NameInv, TreeSound, NEW i \in Ino, HasDentry(i), held' = held \cup {i},
           mode' = mode, TreeOf' = TreeOf, linkable' = linkable
    PROVE  TreeStep
<1>1. PICK d \in Ino, nm \in Name : dentry[d][nm] = i
    BY DEF HasDentry
<1>2. TreeOf[d][nm] = i /\ i # 0
    BY <1>1, InoFacts, TreeFacts
<1>3. mode[i] # "none"
    BY <1>2, TreeFacts
<1>4. Tree!OpenObject(i)
    BY <1>2, <1>3 DEF Tree!OpenObject, Tree!Named
<1>. QED
    BY <1>4 DEF Tree!TreeNext, TreeStep

\* An open object is closed.
LEMMA StepClose ==
    ASSUME NEW i \in Ino, i \in held, held' = held \ {i},
           mode' = mode, TreeOf' = TreeOf, linkable' = linkable
    PROVE  TreeStep
<1>1. Tree!CloseObject(i)
    BY DEF Tree!CloseObject
<1>. QED
    BY <1>1 DEF Tree!TreeNext, TreeStep

\* An inode that has no links has no name.
LEMMA StepForget ==
    ASSUME TypeOK, NameInv, TreeSound, NEW i \in Ino, mode[i] # "none", nlink[i] = 0,
           i \notin held, mode' = [mode EXCEPT ![i] = "none"],
           TreeOf' = TreeOf, held' = held, linkable' = linkable \ {i}
    PROVE  TreeStep
<1>1. i # Root /\ i # 0
    BY InoFacts, RootLinked DEF TreeSound
<1>2. \A d \in Ino, nm \in Name : TreeOf[d][nm] # i
    BY <1>1, TreeFacts
<1>3. Tree!Forget(i)
    BY <1>1, <1>2 DEF Tree!Forget, Tree!Named
<1>. QED
    BY <1>3 DEF Tree!TreeNext, TreeStep

\* The tree does not change.
LEMMA StepNone ==
    ASSUME mode' = mode, TreeOf' = TreeOf, held' = held, linkable' = linkable
    PROVE  TreeStep
BY DEF TreeStep, Tree!treevars
-----------------------------------------------------------------------------
(***************************************************************************)
(* Every operation keeps the invariant and is a step of the tree           *)
(***************************************************************************)

\* The live directories and the tree, before and after.
LEMMA LiveIs ==
    /\ Live = Dirs \ dead /\ Live' = Dirs' \ dead'
    /\ TreeOf = Bound(dirent, Live) /\ TreeOf' = Bound(dirent', Live')
BY DEF Live, LiveDir, Dirs, TreeOf, Bound

\* The directories stay as they are.
LEMMA TreeUnchanged ==
    ASSUME TreeSound, dirent' = dirent, nlink' = nlink, parent' = parent,
           dead' = dead, Dirs' = Dirs,
           \A i \in Ino : mode'[i] = "none" => mode[i] = "none",
           \A d \in Ino \ Live : dentry'[d] = NoDentries
    PROVE  TreeSound' /\ TreeOf' = TreeOf
<1>1. Live' = Live
    BY LiveIs
<1>2. TreeOf' = TreeOf
    BY <1>1, LiveIs
<1>. QED
    BY <1>1, <1>2 DEF TreeSound, Kept

\* A lookup finds a directory where it is known to be.
LEMMA TreeLookup ==
    ASSUME TypeOK, NameInv, TreeSound, NEW d \in Ino, NEW nm \in Name, Lookup(d, nm, {})
    PROVE  TreeSound' /\ TreeStep
<1>. DEFINE i == InodeByName(dirent[d], nm, {})
<1>1. /\ d \in Live /\ dirent' = dirent /\ nlink' = nlink /\ dead' = dead
      /\ mode' = mode /\ held' = held /\ linkable' = linkable
      /\ dentry' = [dentry EXCEPT ![d][nm] = i]
      /\ parent' = IF i # 0 /\ mode[i] = "dir" THEN [parent EXCEPT ![i] = d] ELSE parent
    BY NoBadPages DEF Lookup, Walked, Live
<1>2. i # 0 /\ mode[i] = "dir" => i \in Ino /\ parent[i] = d
    <2>1. i = TreeOf[d][nm]
        BY <1>1 DEF TreeOf, Live
    <2>2. i # 0 => i \in Ino
        BY <2>1, TreeFacts
    <2>3. i # 0 /\ mode[i] = "dir" => i \in Dirs
        BY <2>2 DEF Dirs
    <2>. QED
        BY <1>1, <2>1, <2>2, <2>3, LiveIs DEF TreeSound, Shaped
<1>. HIDE DEF i
<1>3. parent' = parent
    BY <1>1, <1>2 DEF TypeOK
<1>4. \A x \in Ino \ Live : dentry'[x] = NoDentries
    BY <1>1 DEF TreeSound, Kept, TypeOK
<1>5. Dirs' = Dirs
    BY <1>1 DEF Dirs
<1>. QED
    BY <1>1, <1>3, <1>4, <1>5, TreeUnchanged, StepNone

\* A dentry is dropped, or a number is spent.
LEMMA TreeReferences ==
    ASSUME TypeOK, NameInv, TreeSound, NEW d \in Ino, NEW nm \in Name,
           DropDentry(d, nm) \/ CreateAborts(d, nm)
    PROVE  TreeSound' /\ TreeStep
<1>1. /\ dirent' = dirent /\ nlink' = nlink /\ parent' = parent /\ dead' = dead
      /\ mode' = mode /\ linkable' = linkable /\ held' = held
    BY DEF DropDentry, CreateAborts
<1>2. \A x \in Ino \ Live : dentry'[x] = NoDentries
    <2>1. CASE DropDentry(d, nm)
        <3>1. dentry' = [dentry EXCEPT ![d][nm] = NoDentry] /\ d \in Live
            BY <2>1, TreeFacts DEF DropDentry
        <3>. QED
            BY <3>1 DEF TreeSound, Kept, TypeOK
    <2>2. CASE CreateAborts(d, nm)
        BY <2>2 DEF CreateAborts, TreeSound, Kept
    <2>. QED
        BY <2>1, <2>2
<1>3. Dirs' = Dirs
    BY <1>1 DEF Dirs
<1>. QED
    BY <1>1, <1>2, <1>3, TreeUnchanged, StepNone

\* An inode is opened or closed.
LEMMA TreeOpenClose ==
    ASSUME TypeOK, NameInv, TreeSound, NEW i \in Ino, Open(i) \/ Close(i)
    PROVE  TreeSound' /\ TreeStep
<1>1. /\ dirent' = dirent /\ nlink' = nlink /\ parent' = parent /\ dead' = dead
      /\ mode' = mode /\ linkable' = linkable /\ dentry' = dentry
    BY DEF Open, Close
<1>2. Dirs' = Dirs /\ \A x \in Ino \ Live : dentry'[x] = NoDentries
    BY <1>1 DEF Dirs, TreeSound, Kept
<1>3. TreeSound' /\ TreeOf' = TreeOf
    BY <1>1, <1>2, TreeUnchanged
<1>4. CASE Open(i)
    <2>1. HasDentry(i) /\ held' = held \cup {i}
        BY <1>4 DEF Open
    <2>. QED
        BY <1>1, <1>3, <2>1, StepOpen
<1>5. CASE Close(i)
    <2>1. i \in held /\ held' = held \ {i}
        BY <1>5 DEF Close
    <2>. QED
        BY <1>1, <1>3, <2>1, StepClose
<1>. QED
    BY <1>4, <1>5

\* gbfs_tmpfile makes an inode that is in no directory.
LEMMA TreeTmpfile ==
    ASSUME TypeOK, NameInv, TreeSound, NEW d \in Ino, Tmpfile(d)
    PROVE  TreeSound' /\ TreeStep
<1>1. /\ nextino \in Ino /\ mode[nextino] = "none"
      /\ mode' = [mode EXCEPT ![nextino] = "nondir"]
      /\ held' = held \cup {nextino} /\ linkable' \in {linkable, linkable \cup {nextino}}
      /\ dirent' = dirent /\ nlink' = nlink /\ parent' = parent /\ dead' = dead
      /\ dentry' = dentry
    BY NextIno DEF Tmpfile, NameInv
<1>2. Dirs' = Dirs /\ \A i \in Ino : mode'[i] = "none" => mode[i] = "none"
    BY <1>1 DEF Dirs, TypeOK
<1>3. \A x \in Ino \ Live : dentry'[x] = NoDentries
    BY <1>1 DEF TreeSound, Kept
<1>4. TreeSound' /\ TreeOf' = TreeOf
    BY <1>1, <1>2, <1>3, TreeUnchanged
<1>. QED
    BY <1>1, <1>4, StepAnonymous

\* A freed inode is in no directory, and none of its own is in use.
LEMMA TreeEvict ==
    ASSUME TypeOK, NameInv, TreeSound, NEW i \in Ino, Evict(i)
    PROVE  TreeSound' /\ TreeStep
<1>1. /\ mode[i] # "none" /\ nlink[i] = 0 /\ i \notin held
      /\ mode' = [mode EXCEPT ![i] = "none"] /\ dirent' = [dirent EXCEPT ![i] = << >>]
      /\ linkable' = linkable \ {i} /\ dead' = dead \ {i}
      /\ parent' = [parent EXCEPT ![i] = Root]
      /\ nlink' = nlink /\ dentry' = dentry /\ held' = held
    BY DEF Evict, Cached
<1>2. i \notin Live /\ i # Root
    BY <1>1, TreeFacts, RootLinked DEF TreeSound
<1>3. Dirs' = Dirs \ {i} /\ Live' = Live
    <2>1. Dirs' = Dirs \ {i}
        BY <1>1 DEF Dirs, TypeOK
    <2>. QED
        BY <1>1, <1>2, <2>1, LiveIs
<1>4. \A x \in Ino \ {i} : dirent'[x] = dirent[x] /\ parent'[x] = parent[x]
    BY <1>1 DEF TypeOK
<1>5. /\ dirent' \in [Ino -> Directory] /\ parent' \in [Ino -> Ino]
      /\ dirent'[i] = << >> /\ Unique(<< >>)
    <2>1. << >> \in Directory /\ Unique(<< >>)
        BY DEF Directory, Unique
    <2>2. dirent \in [Ino -> Directory]
        BY DEF TreeSound, Sound
    <2>. QED
        BY <1>1, <2>1, <2>2, InoFacts DEF TypeOK
<1>6. \A x \in Live : x \in Ino /\ dirent'[x] = dirent[x] /\ parent'[x] = parent[x]
    BY <1>2, <1>4 DEF Live
<1>7. Sound(dirent', Live', parent', nlink')
    <2>1. Links(dirent', Live', nlink')
        <3>1. ASSUME NEW x \in Ino
              PROVE  Counted(dirent', Live, x, nlink[x] - (IF x = Root THEN 2 ELSE 0))
            <4>1. Counted(dirent, Live, x, nlink[x] - (IF x = Root THEN 2 ELSE 0))
                BY DEF TreeSound, Sound, Links
            <4>. QED
                BY <1>6, <4>1, CountSame
        <3>. QED
            BY <1>1, <1>3, <3>1 DEF Links
    <2>2. Heads(dirent', Live', parent')
        BY <1>3, <1>6 DEF Heads, TreeSound, Sound
    <2>3. \A x \in Ino : Unique(dirent'[x])
        BY <1>4, <1>5 DEF TreeSound, Sound
    <2>4. OnlyNames(dirent'[Root])
        BY <1>2, <1>4, InoFacts DEF TreeSound, Sound
    <2>. QED
        BY <1>1, <1>3, <1>5, <2>1, <2>2, <2>3, <2>4 DEF TreeSound, Sound
<1>8. TreeOf' = TreeOf
    BY <1>3, <1>6, LiveIs DEF Bound
<1>9. Shaped(Bound(dirent', Live'), parent', Live', Dirs')
    <2>1. Live \subseteq Dirs \ {i} /\ Dirs \ {i} \subseteq Dirs
        BY <1>2, LiveIs
    <2>2. Shaped(TreeOf, parent, Live, Dirs)
        BY LiveIs DEF TreeSound
    <2>3. Shaped(TreeOf, parent', Live, Dirs \ {i})
        BY <1>6, <2>1, <2>2, ShapedSame
    <2>. QED
        BY <1>3, <1>8, <2>3, LiveIs
<1>10. Kept'
    BY <1>1, <1>2, <1>3 DEF Kept, TreeSound, TypeOK
<1>11. TreeStep
    BY <1>1, <1>8, StepForget
<1>. QED
    BY <1>7, <1>9, <1>10, <1>11 DEF TreeSound
-----------------------------------------------------------------------------
(***************************************************************************)
(* Making names                                                            *)
(***************************************************************************)

\* A name is bound to a file, or a file loses it: the directories stay where
\* they are.
LEMMA ShapedFile ==
    ASSUME NEW B, NEW P, NEW L, NEW D, Shaped(B, P, L, D), L \subseteq Ino,
           NEW d \in Ino, NEW nm \in Name, NEW v, v \notin D, B[d][nm] \notin D,
           NEW C, Changed(B, C, d, nm, v)
    PROVE  Shaped(C, P, L, D)
<1>1. \A p \in L, m \in Name : B[p][m] \in D \/ C[p][m] \in D => C[p][m] = B[p][m]
    BY DEF Changed
<1>2. L \subseteq D
    BY DEF Shaped
<1>. QED
    BY <1>1, <1>2, ShapedSame

\* gbfs_add_link finds no slot, and nothing changes.
LEMMA AddFails ==
    ASSUME NEW d, NEW nm, AddedSlot(d, nm, {}) = 0
    PROVE  ~AddSucceeds(d, nm, {}, 0) /\ \A i : Added(d, nm, i, {}) = dirent
BY DEF AddSucceeds, Added

\* gbfs_add_link binds the name.
LEMMA SoundAdd ==
    ASSUME TypeOK, NameInv, TreeSound, NEW d \in Ino, NEW nm \in Name,
           LiveDir(d), dentry[d][nm] = Negative, NEW i \in Ino, AddedSlot(d, nm, {}) # 0,
           NEW F, F = Added(d, nm, i, {}),
           NEW M, Recounted(nlink, M, 0, i)
    PROVE  /\ d \in Live /\ TreeOf[d][nm] = 0 /\ AddSucceeds(d, nm, {}, 0)
           /\ Sound(F, Live, parent, M)
           /\ Changed(TreeOf, Bound(F, Live), d, nm, i)
<1>. DEFINE k  == AddSlot(dirent[d], nm, {})
            fs == FillSlot(dirent[d], k, nm, i)
<1>1. d \in Live /\ TreeOf[d][nm] = 0
    BY TreeFacts DEF Live, Negative, NoDentry
<1>2. AddSucceeds(d, nm, {}, 0) /\ k # 0 /\ F = With(dirent, d, fs)
    BY NoBadPages DEF AddSucceeds, Added, AddedSlot, With
<1>3. Sound(dirent, Live, parent, nlink)
    BY DEF TreeSound
<1>4. dirent[d] \in Directory /\ Unique(dirent[d])
    BY <1>3 DEF Sound
<1>5. InodeByName(dirent[d], nm, {}) = 0
    BY <1>1 DEF TreeOf, Live
<1>6. Writes(dirent[d], fs, k, nm, 0, i)
    BY <1>2, <1>4, <1>5, FillWrites
<1>. HIDE DEF k, fs
<1>7. Sound(F, Live, parent, M) /\ Changed(Bound(dirent, Live), Bound(F, Live), d, nm, i)
    <2>1. /\ d \in Live /\ nm \in Name /\ i \in Ino \cup {0}
          /\ F = With(dirent, d, fs) /\ Recounted(nlink, M, 0, i)
        BY <1>1, <1>2
    <2>. QED
        BY ONLY <1>3, <1>6, <2>1, SoundName
<1>8. TreeOf = Bound(dirent, Live)
    BY LiveIs
<1>. QED
    BY <1>1, <1>2, <1>7, <1>8

\* What an operation leaves when it changes names of files only.
LEMMA TreeNamed ==
    ASSUME TypeOK, NameInv, TreeSound, NEW d \in Live, NEW nm \in Name, NEW v,
           v \notin Dirs, TreeOf[d][nm] \notin Dirs,
           Sound(dirent', Live, parent, nlink'), Changed(TreeOf, Bound(dirent', Live), d, nm, v),
           parent' = parent, dead' = dead, Dirs' = Dirs,
           \A i \in Ino : mode'[i] = "none" => mode[i] = "none" /\ nlink'[i] = nlink[i],
           \A x \in Ino \ Live : dentry'[x] = dentry[x]
    PROVE  TreeSound' /\ TreeOf' = Bound(dirent', Live)
<1>1. Live' = Live /\ TreeOf' = Bound(dirent', Live)
    BY LiveIs
<1>2. Shaped(TreeOf, parent, Live, Dirs) /\ Live \subseteq Ino
    BY LiveIs DEF TreeSound, Sound
<1>3. Shaped(Bound(dirent', Live), parent, Live, Dirs)
    BY <1>2, ShapedFile
<1>4. Kept'
    BY <1>1 DEF TreeSound, Kept
<1>. QED
    BY <1>1, <1>3, <1>4 DEF TreeSound

\* gbfs_create, gbfs_mknod and gbfs_symlink.
LEMMA TreeCreate ==
    ASSUME TypeOK, NameInv, TreeSound, NEW d \in Ino, NEW nm \in Name,
           Create(d, nm, {}, 0)
    PROVE  TreeSound' /\ TreeStep
<1>. DEFINE n == nextino
<1>1. /\ LiveDir(d) /\ dentry[d][nm] = Negative /\ dirent' = Added(d, nm, n, {})
      /\ parent' = parent /\ held' = held /\ linkable' = linkable /\ dead' = dead
    BY DEF Create, CanCreate, Walked
<1>2. n \in Ino /\ mode[n] = "none" /\ nlink[n] = 0
    BY NextIno DEF Create, NameInv, TreeSound, Kept
<1>3. CASE AddedSlot(d, nm, {}) = 0
    <2>1. dirent' = dirent /\ mode' = mode /\ nlink' = nlink /\ dentry' = dentry
        BY <1>1, <1>3, AddFails DEF Create
    <2>2. Dirs' = Dirs
        BY <2>1 DEF Dirs
    <2>. QED
        BY <1>1, <2>1, <2>2, TreeUnchanged, StepNone DEF TreeSound, Kept
<1>4. CASE AddedSlot(d, nm, {}) # 0
    <2>. DEFINE M == [nlink EXCEPT ![n] = 1]
    <2>1. Recounted(nlink, M, 0, n)
        BY <1>2, InoFacts DEF TypeOK, Recounted, Tally
    <2>. HIDE DEF M
    <2>2. /\ d \in Live /\ TreeOf[d][nm] = 0 /\ AddSucceeds(d, nm, {}, 0)
          /\ Sound(dirent', Live, parent, M)
          /\ Changed(TreeOf, Bound(dirent', Live), d, nm, n)
        BY <1>1, <1>2, <1>4, <2>1, SoundAdd
    <2>3. /\ mode' = [mode EXCEPT ![n] = "nondir"] /\ nlink' = M
          /\ dentry' = [dentry EXCEPT ![d][nm] = n]
        BY <2>2 DEF Create, M
    <2>4. Dirs' = Dirs /\ n \notin Dirs /\ 0 \notin Dirs
        BY <1>2, <2>3, InoFacts DEF Dirs, TypeOK
    <2>5. \A i \in Ino : mode'[i] = "none" => mode[i] = "none" /\ nlink'[i] = nlink[i]
        BY <1>2, <2>3 DEF TypeOK, M
    <2>6. \A x \in Ino \ Live : dentry'[x] = dentry[x]
        BY <2>2, <2>3 DEF TypeOK
    <2>7. TreeSound' /\ TreeOf' = Bound(dirent', Live)
        BY <1>1, <2>2, <2>3, <2>4, <2>5, <2>6, TreeNamed
    <2>. QED
        BY <1>1, <1>2, <2>2, <2>3, <2>7, StepMake DEF Changed
<1>. QED
    BY <1>3, <1>4

\* gbfs_link: the inode has a name, or was made by gbfs_tmpfile.
LEMMA TreeLink ==
    ASSUME TypeOK, NameInv, TreeSound, NEW d \in Ino, NEW nm \in Name, NEW i \in Ino,
           Link(i, d, nm, {}, 0)
    PROVE  TreeSound' /\ TreeStep
<1>1. /\ LiveDir(d) /\ dentry[d][nm] = Negative /\ dirent' = Added(d, nm, i, {})
      /\ mode[i] = "nondir" /\ (nlink[i] # 0 \/ i \in linkable)
      /\ mode' = mode /\ parent' = parent /\ held' = held /\ dead' = dead
    BY DEF Link, CanCreate, Walked
<1>2. Dirs' = Dirs /\ i \notin Dirs /\ 0 \notin Dirs /\ i \notin Live
    BY <1>1, InoFacts DEF Dirs, Live, LiveDir
<1>3. CASE AddedSlot(d, nm, {}) = 0
    <2>1. dirent' = dirent /\ nlink' = nlink /\ dentry' = dentry /\ linkable' = linkable
        BY <1>1, <1>3, AddFails DEF Link
    <2>. QED
        BY <1>1, <1>2, <2>1, TreeUnchanged, StepNone DEF TreeSound, Kept
<1>4. CASE AddedSlot(d, nm, {}) # 0
    <2>. DEFINE M == [nlink EXCEPT ![i] = @ + 1]
    <2>1. Recounted(nlink, M, 0, i)
        BY InoFacts DEF TypeOK, Recounted, Tally
    <2>. HIDE DEF M
    <2>2. /\ d \in Live /\ TreeOf[d][nm] = 0 /\ AddSucceeds(d, nm, {}, 0)
          /\ Sound(dirent', Live, parent, M)
          /\ Changed(TreeOf, Bound(dirent', Live), d, nm, i)
        BY <1>1, <1>4, <2>1, SoundAdd
    <2>3. /\ nlink' = M /\ dentry' = [dentry EXCEPT ![d][nm] = i]
          /\ linkable' = linkable \ {i}
        BY <2>2 DEF Link, M
    <2>5. \A x \in Ino : mode'[x] = "none" => mode[x] = "none" /\ nlink'[x] = nlink[x]
        BY <1>1, <2>3 DEF TypeOK, M
    <2>6. \A x \in Ino \ Live : dentry'[x] = dentry[x]
        BY <2>2, <2>3 DEF TypeOK
    <2>7. TreeSound' /\ TreeOf' = Bound(dirent', Live)
        BY <1>1, <1>2, <2>2, <2>3, <2>5, <2>6, TreeNamed
    <2>8. i \in linkable \/ \E x \in Ino, m \in Name : TreeOf[x][m] = i
        BY <1>1, <1>2, FileNamed
    <2>. QED
        BY <1>1, <2>2, <2>3, <2>7, <2>8, StepBind DEF Changed
<1>. QED
    BY <1>3, <1>4

\* gbfs_mkdir: the new directory refers to itself and to d.
LEMMA TreeMkdir ==
    ASSUME TypeOK, NameInv, TreeSound, NEW d \in Ino, NEW nm \in Name,
           Mkdir(d, nm, {}, 0)
    PROVE  TreeSound' /\ TreeStep
<1>1. PICK n \in Ino : n = nextino
    BY NextIno DEF Mkdir, NameInv
<1>2. PICK F : F = Added(d, nm, n, {})
    OBVIOUS
<1>3. /\ LiveDir(d) /\ dentry[d][nm] = Negative
      /\ held' = held /\ linkable' = linkable /\ dead' = dead
    BY DEF Mkdir, CanCreate, Walked
<1>4. n \in Ino /\ mode[n] = "none" /\ nlink[n] = 0
    BY <1>1, NextIno DEF Mkdir, NameInv, TreeSound, Kept
<1>5. CASE AddedSlot(d, nm, {}) = 0
    <2>1. dirent' = dirent /\ mode' = mode /\ nlink' = nlink /\ dentry' = dentry
          /\ parent' = parent
        BY <1>1, <1>5, AddFails DEF Mkdir
    <2>2. Dirs' = Dirs
        BY <2>1 DEF Dirs
    <2>. QED
        BY <1>3, <2>1, <2>2, TreeUnchanged, StepNone DEF TreeSound, Kept
<1>6. CASE AddedSlot(d, nm, {}) # 0
    <2>1. PICK M1, M : /\ M1 = [nlink EXCEPT ![n] = 1]
                       /\ M  = [nlink EXCEPT ![d] = @ + 1, ![n] = 2]
        OBVIOUS
    <2>2. Recounted(nlink, M1, 0, n)
        BY <1>4, <2>1, InoFacts DEF TypeOK, Recounted, Tally
    <2>3. M \in [Ino -> Int] /\ \A i \in Ino : M[i] = M1[i] + Tally(n, i) + Tally(d, i)
        <3>1. d # n
            BY <1>3, <1>4 DEF LiveDir
        <3>2. nlink \in [Ino -> Int]
            BY DEF TypeOK
        <3>. QED
            BY <1>4, <2>1, <3>1, <3>2 DEF Tally
    <2>4. /\ d \in Live /\ TreeOf[d][nm] = 0 /\ AddSucceeds(d, nm, {}, 0)
          /\ Sound(F, Live, parent, M1)
          /\ Changed(TreeOf, Bound(F, Live), d, nm, n)
        BY <1>2, <1>3, <1>4, <1>6, <2>2, SoundAdd
    <2>5. /\ mode' = [mode EXCEPT ![n] = "dir"] /\ nlink' = M
          /\ dirent' = [F EXCEPT ![n] = MakeEmpty(n, d)]
          /\ dentry' = [dentry EXCEPT ![d][nm] = n]
          /\ parent' = [parent EXCEPT ![n] = d]
        BY <1>1, <1>2, <2>1, <2>4 DEF Mkdir
    <2>6. n \notin Dirs /\ n \notin Live /\ n \notin dead /\ 0 \notin Dirs
        BY <1>4, InoFacts DEF Dirs, Live, LiveDir, TreeSound, Kept
    <2>7. Dirs' = Dirs \cup {n} /\ Live' = Live \cup {n}
        <3>1. Dirs' = Dirs \cup {n}
            BY <1>4, <2>5 DEF Dirs, TypeOK
        <3>. QED
            BY <1>3, <2>6, <3>1, LiveIs
    <2>8. Sound(dirent', Live', parent', nlink') /\ Bound(dirent', Live') = Bound(F, Live)
        <3>1. n \in Ino \ Live
            BY <1>4, <2>6
        <3>2. dirent' = With(F, n, MakeEmpty(n, d)) /\ parent' = With(parent, n, d) /\ d \in Live
            BY <2>4, <2>5 DEF With
        <3>3. Sound(F, Live, parent, M1)
            BY <2>4
        <3>4. /\ Sound(dirent', Live \cup {n}, parent', M)
              /\ Bound(dirent', Live \cup {n}) = Bound(F, Live)
            BY ONLY <2>3, <3>1, <3>2, <3>3, SoundMade
        <3>. QED
            BY <2>5, <2>7, <3>4
    <2>9. TreeOf' = Bound(F, Live)
        BY <2>8, LiveIs
    <2>10. Shaped(Bound(dirent', Live'), parent', Live', Dirs')
        <3>1. Shaped(TreeOf, parent, Live, Dirs) /\ Live \subseteq Ino
            BY LiveIs DEF TreeSound, Sound
        <3>2. \A p \in Live, m \in Name :
                  /\ TreeOf[p][m] # n
                  /\ Bound(F, Live)[p][m] = IF p = d /\ m = nm THEN n ELSE TreeOf[p][m]
            <4>1. \A p \in Ino, m \in Name : TreeOf[p][m] # n
                BY <1>4, InoFacts, TreeFacts
            <4>. QED
                BY <2>4, <3>1, <4>1 DEF Changed
        <3>3. \A m \in Name : Bound(F, Live)[n][m] \notin Dirs \cup {n}
            <4>1. \A m \in Name : Bound(F, Live)[n][m] = 0
                BY <1>4, <2>6 DEF Bound
            <4>. QED
                BY <1>4, <2>6, <4>1, InoFacts
        <3>4. parent'[n] = d /\ \A p \in Live : parent'[p] = parent[p]
            BY <1>4, <2>5, <2>6, <3>1 DEF TypeOK
        <3>5. n \in Ino \ Dirs /\ TreeOf[d][nm] \notin Dirs
            BY <1>4, <2>4, <2>6
        <3>6. d \in Live /\ nm \in Name
            BY <2>4
        <3>7. Shaped(TreeOf, parent, Live, Dirs)
            BY <3>1
        <3>8. Shaped(Bound(F, Live), parent', Live \cup {n}, Dirs \cup {n})
            BY ONLY <3>2, <3>3, <3>4, <3>5, <3>6, <3>7, ShapedMade
        <3>. QED
            BY <2>7, <2>8, <3>8
    <2>11. Kept'
        <3>1. \A i \in Ino : mode'[i] = "none" => nlink'[i] = 0
            <4>1. ASSUME NEW i \in Ino, mode'[i] = "none"
                  PROVE  nlink'[i] = 0
                <5>1. i # n /\ mode[i] = "none"
                    BY <1>4, <2>5, <4>1 DEF TypeOK
                <5>2. i # d
                    BY <1>3, <5>1 DEF LiveDir
                <5>. QED
                    BY <2>1, <2>5, <5>1, <5>2 DEF TreeSound, Kept, TypeOK
            <4>. QED
                BY <4>1
        <3>2. \A x \in Ino \ Live' : dentry'[x] = NoDentries
            BY <2>4, <2>5, <2>7 DEF TreeSound, Kept, TypeOK
        <3>. QED
            BY <1>3, <2>7, <3>1, <3>2 DEF TreeSound, Kept
    <2>12. TreeStep
        BY <1>3, <1>4, <2>4, <2>5, <2>9, StepMake DEF Changed
    <2>. QED
        BY <2>8, <2>10, <2>11, <2>12 DEF TreeSound
<1>. QED
    BY <1>5, <1>6
-----------------------------------------------------------------------------
(***************************************************************************)
(* Removing names                                                          *)
(***************************************************************************)

\* Slot k of es binds the name nm to i.
Binds(es, k, nm, i) ==
    k \in 1 .. Len(es) /\ i # 0 /\ es[k].ino = i /\ es[k].name = nm

\* The slot of a name is relinked or freed.
LEMMA SoundRelink ==
    ASSUME NEW E, NEW L, NEW P, NEW N, Sound(E, L, P, N),
           NEW d \in L, NEW nm \in Name, NEW k, NEW old, Binds(E[d], k, nm, old),
           NEW new \in Ino \cup {0},
           NEW F, F = With(E, d, SetLink(E[d], k, new)),
           NEW M, Recounted(N, M, old, new)
    PROVE  /\ Sound(F, L, P, M)
           /\ Changed(Bound(E, L), Bound(F, L), d, nm, new)
<1>. DEFINE fs == SetLink(E[d], k, new)
<1>1. d \in Ino /\ E[d] \in Directory /\ Unique(E[d])
    BY DEF Sound
<1>2. Writes(E[d], fs, k, nm, old, new)
    BY <1>1, LinkWrites DEF Binds
<1>3. F = With(E, d, fs)
    OBVIOUS
<1>. HIDE DEF fs
<1>. QED
    BY <1>2, <1>3, SoundName

\* The slot a positive dentry leads to.
LEMMA FoundIs ==
    ASSUME TypeOK, NameInv, TreeSound, NEW d \in Ino, NEW nm \in Name,
           dentry[d][nm] \in Ino
    PROVE  /\ d \in Live /\ TreeOf[d][nm] = dentry[d][nm]
           /\ dentry[d][nm] # 0 /\ dentry[d][nm] # Root
           /\ Binds(dirent[d], Found(d, nm, {}), nm, dentry[d][nm])
<1>1. d \in Live /\ TreeOf[d][nm] = dentry[d][nm] /\ dentry[d][nm] # 0
    BY InoFacts, TreeFacts
<1>2. /\ dentry[d][nm] # Root
      /\ TreeOf[d][nm] = InodeByName(dirent[d], nm, {})
    BY <1>1, TreeFacts
<1>3. dirent[d] \in Directory
    BY DEF TreeSound, Sound
<1>4. Found(d, nm, {}) = FindEntry(dirent[d], nm, {})
    BY NoBadPages DEF Found
<1>. QED
    BY <1>1, <1>2, <1>3, <1>4, NameRefers DEF Binds

-----------------------------------------------------------------------------
(***************************************************************************)
(* No link count is dropped below zero                                     *)
(***************************************************************************)

\* An inode that two slots refer to has two links.
LEMMA TwoSlots ==
    ASSUME NEW E, NEW L, NEW P, NEW N, Sound(E, L, P, N), NEW i \in Ino,
           NEW d \in L, NEW k \in Nat, RefAt(E[d], k) = i,
           NEW c \in L, NEW j \in Nat, RefAt(E[c], j) = i, <<d, k>> # <<c, j>>
    PROVE  N[i] >= 2
<1>. DEFINE R == Refs(E, L, i)
            T == {<<d, k>>} \cup {<<c, j>>}
<1>1. /\ IsFiniteSet(R) /\ N[i] \in Int
      /\ Cardinality(R) = N[i] - (IF i = Root THEN 2 ELSE 0)
    BY DEF Sound, Links, Counted
<1>2. T \in SUBSET R
    BY RefsAre
<1>3. Cardinality(T) = 2
    <2>1. PICK x, y : x = <<d, k>> /\ y = <<c, j>>
        OBVIOUS
    <2>2. PICK A : A = {x}
        OBVIOUS
    <2>3. IsFiniteSet(A) /\ Cardinality(A) = 1
        BY <2>2, FS_Singleton
    <2>4. y \notin A
        BY <2>1, <2>2
    <2>5. Cardinality(A \cup {y}) = Cardinality(A) + 1
        BY ONLY <2>3, <2>4, FS_AddElement
    <2>6. T = A \cup {y}
        BY <2>1, <2>2
    <2>. HIDE DEF T
    <2>. QED
        BY <2>3, <2>5, <2>6
<1>4. Cardinality(T) <= Cardinality(R)
    BY <1>1, <1>2, FS_Subset
<1>. QED
    BY <1>1, <1>3, <1>4

\* A directory in use has links, and so has what has a name: a directory one
\* more, that of its own ".".
LEMMA NameLinked ==
    ASSUME TypeOK, NameInv, TreeSound, NEW d \in Ino, NEW nm \in Name,
           dentry[d][nm] \in Ino
    PROVE  /\ nlink[d] >= 1 /\ nlink[dentry[d][nm]] >= 1
           /\ LiveDir(dentry[d][nm]) => nlink[dentry[d][nm]] >= 2
<1>. DEFINE i == dentry[d][nm]
            k == Found(d, nm, {})
<1>1. d \in Live /\ TreeOf[d][nm] = i /\ i # Root /\ Binds(dirent[d], k, nm, i)
    BY FoundIs
<1>2. nlink \in [Ino -> Int] /\ i \in Ino
    BY DEF TypeOK
<1>3. nlink[i] > 0
    <2>1. TreeOf[d][nm] # 0
        BY <1>1, InoFacts
    <2>. QED
        BY <1>1, <2>1, TreeFacts
<1>4. nlink[d] # 0 /\ nlink[d] >= 0
    BY <1>1, TreeFacts DEF TypeOK
<1>5. ASSUME LiveDir(i)
      PROVE  nlink[i] >= 2
    <2>1. i \in Live
        BY <1>2, <1>5 DEF Live
    <2>2. Sound(dirent, Live, parent, nlink)
        BY DEF TreeSound
    <2>3. Dotted(dirent[i]) /\ RefAt(dirent[i], 1) = i
        BY <1>1, <2>1, <2>2 DEF Sound, Heads
    <2>4. k \in Nat /\ RefAt(dirent[d], k) = i
        BY <1>1 DEF Binds, RefAt
    <2>5. <<d, k>> # <<i, 1>>
        <3>1. dirent[d][k].name = nm /\ dirent[i][1].name = Dot /\ nm # Dot
            BY <1>1, <2>3, NameiAssumption DEF Binds, Dotted
        <3>. QED
            BY <3>1
    <2>. HIDE DEF i, k
    <2>6. 1 \in Nat
        OBVIOUS
    <2>7. PICK E, L, P, N : E = dirent /\ L = Live /\ P = parent /\ N = nlink
        OBVIOUS
    <2>8. /\ Sound(E, L, P, N) /\ i \in Ino
          /\ d \in L /\ k \in Nat /\ RefAt(E[d], k) = i
          /\ i \in L /\ 1 \in Nat /\ RefAt(E[i], 1) = i /\ <<d, k>> # <<i, 1>>
        BY <1>1, <1>2, <2>1, <2>2, <2>3, <2>4, <2>5, <2>6, <2>7
    <2>9. N[i] >= 2
        BY ONLY <2>8, TwoSlots
    <2>. QED
        BY <2>7, <2>9
<1>. QED
    BY <1>2, <1>3, <1>4, <1>5

\* A count that is high enough is dropped, not wrapped.
LEMMA DropIs ==
    ASSUME NEW n, NEW k, n >= k
    PROVE  Dropped(n, k) = n - k
BY DEF Dropped

\* gbfs_unlink takes one link.
LEMMA UnlinkDrops ==
    ASSUME TypeOK, NameInv, TreeSound, NEW d \in Ino, NEW nm \in Name,
           Unlink(d, nm, {}, 0)
    PROVE  nlink' = [nlink EXCEPT ![dentry[d][nm]] = @ - 1]
<1>1. dentry[d][nm] \in Ino
    BY DEF Unlink, CanDelete
<1>2. Dropped(nlink[dentry[d][nm]], 1) = nlink[dentry[d][nm]] - 1
    BY <1>1, NameLinked, DropIs
<1>. QED
    BY <1>2 DEF Unlink

\* gbfs_rmdir takes two of the directory and one of its parent.
LEMMA RmdirDrops ==
    ASSUME TypeOK, NameInv, TreeSound, NEW d \in Ino, NEW nm \in Name,
           Rmdir(d, nm, {}, 0)
    PROVE  nlink' = [nlink EXCEPT ![dentry[d][nm]] = @ - 2, ![d] = @ - 1]
<1>. DEFINE i == dentry[d][nm]
<1>1. i \in Ino /\ LiveDir(i) /\ EmptyDir(dirent[i], i, {})
    BY NoBadPages DEF Rmdir, CanDelete
<1>2. nlink[d] >= 1 /\ nlink[i] >= 2
    BY <1>1, NameLinked
<1>3. i # d
    <2>1. d \in Live /\ TreeOf[d][nm] = i /\ i # 0 /\ i # Root
        BY <1>1, FoundIs
    <2>2. i \in Live /\ Sound(dirent, Live, parent, nlink)
        BY <1>1 DEF Live, TreeSound
    <2>3. dirent[i] \in Directory /\ Unique(dirent[i]) /\ Dotted(dirent[i])
        BY <1>1, <2>1, <2>2 DEF Sound, Heads
    <2>4. InodeByName(dirent[i], nm, {}) = 0
        BY <1>1, <2>3, EmptyRefers
    <2>5. TreeOf[i][nm] = 0
        BY <1>1, <2>4 DEF TreeOf
    <2>. QED
        BY <2>1, <2>5
<1>4. nlink' = [nlink EXCEPT ![i] = Dropped(@, 2), ![d] = Dropped(@, 1)]
    BY DEF Rmdir
<1>5. Dropped(nlink[i], 2) = nlink[i] - 2 /\ Dropped(nlink[d], 1) = nlink[d] - 1
    BY <1>2, DropIs
<1>6. nlink \in [Ino -> Int]
    BY DEF TypeOK
<1>. HIDE DEF i
<1>. QED
    BY <1>1, <1>3, <1>4, <1>5, <1>6 DEF i

\* A rename to a new name takes one from the old directory, and puts one on
\* the new one where there is room.
LEMMA RenameNewDrops ==
    ASSUME TypeOK, NameInv, TreeSound, NEW od \in Ino, NEW on \in Name,
           NEW nd \in Ino, NEW nn \in Name, RenameNew(od, on, nd, nn, {}, 0)
    PROVE  /\ nd # od => [nlink EXCEPT ![nd] = @ + 1, ![od] = Dropped(@, 1)] =
                         [nlink EXCEPT ![nd] = @ + 1, ![od] = @ - 1]
           /\ \/ nlink' = nlink
              \/ /\ nlink[nd] < LinkMax /\ nd # od
                 /\ nlink' = [nlink EXCEPT ![nd] = @ + 1, ![od] = @ - 1]
<1>1. dentry[od][on] \in Ino
    BY DEF RenameNew, CanRename, CanDelete
<1>2. Dropped(nlink[od], 1) = nlink[od] - 1
    BY <1>1, NameLinked, DropIs
<1>3. nlink \in [Ino -> Int]
    BY DEF TypeOK
<1>4. nd # od => [nlink EXCEPT ![nd] = @ + 1, ![od] = Dropped(@, 1)] =
                 [nlink EXCEPT ![nd] = @ + 1, ![od] = @ - 1]
    BY <1>2, <1>3
<1>5. \/ nlink' = nlink
      \/ /\ nlink[nd] < LinkMax /\ nd # od
         /\ nlink' = [nlink EXCEPT ![nd] = @ + 1, ![od] = Dropped(@, 1)]
    BY DEF RenameNew, LinkRoom
<1>. QED
    BY <1>4, <1>5

\* The counts once a name is replaced, none of them wrapped.
Replaced(od, tgt, isdir) ==
    IF isdir THEN [nlink EXCEPT ![tgt] = @ - 2, ![od] = @ - 1]
             ELSE [nlink EXCEPT ![tgt] = @ - 1]

\* A rename over a name takes the links of what it replaces.
LEMMA RenameOverDrops ==
    ASSUME TypeOK, NameInv, TreeSound, NEW od \in Ino, NEW nd \in Ino,
           NEW on \in Name, NEW nn \in Name, RenameOver(od, on, nd, nn, {})
    PROVE  nlink' = Replaced(od, dentry[nd][nn], mode[dentry[od][on]] = "dir")
<1>. DEFINE src == dentry[od][on]
            tgt == dentry[nd][nn]
<1>1. src \in Ino /\ tgt \in Ino
    BY DEF RenameOver, CanRename, CanDelete
<1>2. nlink[od] >= 1 /\ nlink[tgt] >= 1 /\ (LiveDir(tgt) => nlink[tgt] >= 2)
    BY <1>1, NameLinked
<1>3. mode[src] = "dir" => LiveDir(tgt) /\ tgt # od
    <2>1. od \in Ancestors(od)
        BY DEF Ancestors
    <2>. QED
        BY <2>1 DEF RenameOver, LiveDir
<1>4. nlink' = LinksReplaced(od, tgt, mode[src] = "dir")
    BY DEF RenameOver
<1>5. nlink \in [Ino -> Int]
    BY DEF TypeOK
<1>6. /\ Dropped(nlink[od], 1) = nlink[od] - 1
      /\ Dropped(nlink[tgt], 1) = nlink[tgt] - 1
      /\ LiveDir(tgt) => Dropped(nlink[tgt], 2) = nlink[tgt] - 2
    BY <1>2, DropIs
<1>. HIDE DEF src, tgt
<1>. QED
    BY <1>1, <1>3, <1>4, <1>5, <1>6 DEF LinksReplaced, Replaced, src, tgt

\* gbfs_unlink takes one name of a file and one link.
LEMMA TreeUnlink ==
    ASSUME TypeOK, NameInv, TreeSound, NEW d \in Ino, NEW nm \in Name,
           Unlink(d, nm, {}, 0)
    PROVE  TreeSound' /\ TreeStep
<1>0. PICK i \in Ino : i = dentry[d][nm]
    BY DEF Unlink, CanDelete
<1>0a. PICK k : k = Found(d, nm, {})
    OBVIOUS
<1>1. /\ mode[i] # "dir" /\ mode' = mode /\ parent' = parent /\ held' = held
      /\ linkable' = linkable /\ dead' = dead
      /\ nlink' = [nlink EXCEPT ![i] = @ - 1]
      /\ dirent' = [dirent EXCEPT ![d] = SetLink(@, k, 0)]
    BY <1>0, <1>0a, UnlinkDrops DEF Unlink, DeleteEntry
<1>2. /\ d \in Live /\ TreeOf[d][nm] = i /\ i # 0
      /\ Binds(dirent[d], k, nm, i)
    BY <1>0, <1>0a, FoundIs
<1>3. Recounted(nlink, nlink', i, 0)
    BY <1>1, InoFacts DEF TypeOK, Recounted, Tally
<1>4. dirent' = With(dirent, d, SetLink(dirent[d], k, 0)) /\ 0 \in Ino \cup {0}
    BY <1>1 DEF With
<1>5. Sound(dirent, Live, parent, nlink)
    BY DEF TreeSound
<1>6. /\ Sound(dirent', Live, parent, nlink')
      /\ Changed(Bound(dirent, Live), Bound(dirent', Live), d, nm, 0)
    BY <1>2, <1>3, <1>4, <1>5, SoundRelink
<1>7. Changed(TreeOf, Bound(dirent', Live), d, nm, 0)
    BY <1>6, LiveIs
<1>8. Dirs' = Dirs /\ 0 \notin Dirs /\ i \notin Dirs /\ i \notin Live
    BY <1>1, InoFacts DEF Dirs, Live, LiveDir
<1>9. \A x \in Ino : mode'[x] = "none" => mode[x] = "none" /\ nlink'[x] = nlink[x]
    <2>1. mode[i] # "none"
        BY <1>2, TreeFacts
    <2>. QED
        BY <1>1, <2>1 DEF TypeOK
<1>10. \A x \in Ino \ Live : dentry'[x] = dentry[x]
    BY <1>2 DEF Unlink, TypeOK
<1>11. TreeSound' /\ TreeOf' = Bound(dirent', Live)
    BY <1>1, <1>2, <1>6, <1>7, <1>8, <1>9, <1>10, TreeNamed
<1>12. \A m \in Name : TreeOf[TreeOf[d][nm]][m] = 0
    BY <1>2, <1>8, TreeFacts
<1>. QED
    BY <1>1, <1>2, <1>7, <1>11, <1>12, StepUnbind DEF Changed

\* gbfs_rmdir: the name, "." and ".." go, and three links with them.
LEMMA TreeRmdir ==
    ASSUME TypeOK, NameInv, TreeSound, NEW d \in Ino, NEW nm \in Name,
           Rmdir(d, nm, {}, 0)
    PROVE  TreeSound' /\ TreeStep
<1>0. PICK i \in Ino : i = dentry[d][nm]
    BY DEF Rmdir, CanDelete
<1>0a. PICK k : k = Found(d, nm, {})
    OBVIOUS
<1>1. /\ LiveDir(i) /\ EmptyDir(dirent[i], i, {})
      /\ mode' = mode /\ parent' = parent /\ held' = held /\ linkable' = linkable
      /\ nlink' = [nlink EXCEPT ![i] = @ - 2, ![d] = @ - 1]
      /\ dirent' = [dirent EXCEPT ![d] = SetLink(@, k, 0)]
      /\ dead' = dead \cup {i}
    BY <1>0, <1>0a, NoBadPages, RmdirDrops DEF Rmdir, DeleteEntry
<1>2. /\ d \in Live /\ TreeOf[d][nm] = i /\ i # 0 /\ i # Root
      /\ Binds(dirent[d], k, nm, i)
    BY <1>0, <1>0a, FoundIs
<1>3. i \in Live /\ i \in Dirs /\ 0 \notin Dirs /\ Dirs' = Dirs
    BY <1>1, InoFacts DEF Dirs, Live, LiveDir
<1>4. Sound(dirent, Live, parent, nlink) /\ Shaped(TreeOf, parent, Live, Dirs)
    BY LiveIs DEF TreeSound
<1>5. \A m \in Name : TreeOf[i][m] = 0
    <2>1. dirent[i] \in Directory /\ Unique(dirent[i]) /\ Dotted(dirent[i])
        BY <1>2, <1>3, <1>4 DEF Sound, Heads
    <2>2. \A m \in Name : InodeByName(dirent[i], m, {}) = 0
        BY <1>1, <2>1, EmptyRefers
    <2>. QED
        BY <2>2 DEF TreeOf
<1>6. PICK M : M = [nlink EXCEPT ![i] = @ - 1]
    OBVIOUS
<1>7. Recounted(nlink, M, i, 0)
    BY <1>6, InoFacts DEF TypeOK, Recounted, Tally
<1>8. dirent' = With(dirent, d, SetLink(dirent[d], k, 0)) /\ 0 \in Ino \cup {0}
    BY <1>1 DEF With
<1>9. /\ Sound(dirent', Live, parent, M)
      /\ Changed(TreeOf, Bound(dirent', Live), d, nm, 0)
    <2>1. /\ Sound(dirent', Live, parent, M)
          /\ Changed(Bound(dirent, Live), Bound(dirent', Live), d, nm, 0)
        <3>1. Sound(dirent, Live, parent, nlink)
            BY <1>4
        <3>. QED
            BY <1>2, <1>7, <1>8, <3>1, SoundRelink
    <2>. QED
        BY <2>1, LiveIs
<1>10. /\ i \in Live /\ i # Root /\ i # d /\ parent[i] = d
       /\ Shaped(Bound(dirent', Live), parent, Live \ {i}, Dirs)
    <2>1. \A m \in Name : TreeOf[i][m] \notin Dirs
        BY <1>3, <1>5
    <2>2. Live \subseteq Ino
        BY <1>4 DEF Sound
    <2>3. \A p \in Live, m \in Name :
              IF p = d /\ m = nm THEN Bound(dirent', Live)[p][m] \notin Dirs
              ELSE Bound(dirent', Live)[p][m] = TreeOf[p][m]
        BY <1>3, <1>9, <2>2 DEF Changed
    <2>4. Shaped(TreeOf, parent, Live, Dirs)
        BY <1>4
    <2>5. d \in Live /\ nm \in Name
        BY <1>2
    <2>6. i \in Dirs
        BY <1>3
    <2>7. TreeOf[d][nm] = i
        BY <1>2
    <2>. QED
        BY ONLY <2>1, <2>3, <2>4, <2>5, <2>6, <2>7, ShapedPlace, ShapedRemoved
<1>11. /\ Sound(dirent', Live \ {i}, parent, nlink')
       /\ Bound(dirent', Live \ {i}) = Bound(dirent', Live)
    <2>1. dirent'[i] = dirent[i]
        BY <1>1, <1>10 DEF TypeOK
    <2>2. i \in Live \ {Root} /\ EmptyDir(dirent'[i], i, {})
        BY <1>1, <1>10, <2>1
    <2>3. /\ nlink' \in [Ino -> Int]
          /\ \A x \in Ino : nlink'[x] = M[x] - Tally(i, x) - Tally(parent[i], x)
        <3>1. nlink \in [Ino -> Int]
            BY DEF TypeOK
        <3>. QED
            BY <1>1, <1>6, <1>10, <3>1 DEF Tally
    <2>4. Sound(dirent', Live, parent, M)
        BY <1>9
    <2>. QED
        BY <2>2, <2>3, <2>4, SoundRemoved
<1>12. Live' = Live \ {i}
    BY <1>1, <1>3, LiveIs
<1>13. TreeOf' = Bound(dirent', Live)
    BY <1>11, <1>12, LiveIs
<1>14. Kept'
    <2>1. \A x \in Ino : mode'[x] = "none" => nlink'[x] = 0
        <3>1. mode[d] # "none" /\ mode[i] # "none"
            BY <1>1, <1>2 DEF Live, LiveDir
        <3>. QED
            BY <1>1, <3>1 DEF TreeSound, Kept, TypeOK
    <2>2. \A x \in Ino \ Live' : dentry'[x] = NoDentries
        <3>1. PICK v : dentry' = [dentry EXCEPT ![d][nm] = v, ![i] = NoDentries]
            BY <1>0, <1>0a DEF Rmdir
        <3>. QED
            BY <1>2, <1>10, <1>12, <3>1 DEF TreeSound, Kept, TypeOK
    <2>3. dead' \subseteq Dirs'
        BY <1>1, <1>3 DEF TreeSound, Kept
    <2>. QED
        BY <2>1, <2>2, <2>3 DEF Kept
<1>15. TreeSound'
    BY <1>1, <1>3, <1>10, <1>11, <1>12, <1>14 DEF TreeSound
<1>16. TreeStep
    BY <1>1, <1>2, <1>5, <1>9, <1>13, StepUnbind DEF Changed
<1>. QED
    BY <1>15, <1>16
-----------------------------------------------------------------------------
(***************************************************************************)
(* Moving names                                                            *)
(***************************************************************************)

\* The counts once the old name is gone and ".." of a moved directory leads
\* to nd.
MoveCounted(N, M, isdir, src, od, nd) ==
    /\ M \in [Ino -> Int]
    /\ \A i \in Ino : M[i] =
           N[i] - Tally(src, i) + (IF isdir THEN Tally(nd, i) - Tally(od, i) ELSE 0)

\* C is B with od/on moved to nd/nn.
MovesAt(B, C, od, on, nd, nn, src) ==
    \A p \in Ino, m \in Name :
        C[p][m] = IF p = nd /\ m = nn THEN src
                  ELSE IF p = od /\ m = on THEN 0 ELSE B[p][m]

Moves(B, C, od, on, nd, nn, src) ==
    /\ C = [B EXCEPT ![od][on] = 0, ![nd][nn] = src]
    /\ MovesAt(B, C, od, on, nd, nn, src)

\* A directory is where the VFS has walked to it.
LEMMA DirPlace ==
    ASSUME TypeOK, NameInv, TreeSound, NEW d \in Ino, NEW nm \in Name,
           TreeOf[d][nm] \in Dirs
    PROVE  /\ TreeOf[d][nm] \in Live /\ TreeOf[d][nm] # Root
           /\ parent[TreeOf[d][nm]] = d
<1>1. TreeOf[d][nm] # 0
    BY InoFacts DEF Dirs
<1>2. d \in Live
    BY <1>1, TreeFacts
<1>3. Shaped(TreeOf, parent, Live, Dirs)
    BY LiveIs DEF TreeSound
<1>. QED
    BY <1>2, <1>3, ShapedPlace

\* The tail of a rename.
LEMMA SoundMoved ==
    ASSUME TypeOK, NameInv, TreeSound, NEW od \in Ino, NEW on \in Name, NEW src \in Ino,
           src = dentry[od][on], NEW nd \in Live, NEW E, NEW N, Sound(E, Live, parent, N),
           Binds(E[od], Found(od, on, {}), on, src),
           NEW F, F = Moved(od, on, nd, E, {}),
           NEW M, MoveCounted(N, M, mode[src] = "dir", src, od, nd)
    PROVE  /\ Sound(F, Live, MovedParent(od, on, nd), M)
           /\ Changed(Bound(E, Live), Bound(F, Live), od, on, 0)
<1>1. od \in Live /\ TreeOf[od][on] = src /\ src # 0 /\ Live \subseteq Ino
    BY FoundIs DEF Live
<1>2. PICK K : K = [i \in Ino |-> N[i] - Tally(src, i)]
    OBVIOUS
<1>3. Recounted(N, K, src, 0)
    <2>1. N \in [Ino -> Int]
        BY DEF Sound
    <2>2. \A i \in Ino : Tally(src, i) \in Int /\ Tally(0, i) = 0
        BY InoFacts DEF Tally
    <2>. QED
        BY <1>2, <2>1, <2>2 DEF Recounted
<1>4. PICK G : G = With(E, od, SetLink(E[od], Found(od, on, {}), 0))
    OBVIOUS
<1>5. Sound(G, Live, parent, K) /\ Changed(Bound(E, Live), Bound(G, Live), od, on, 0)
    <2>1. 0 \in Ino \cup {0}
        OBVIOUS
    <2>. QED
        BY <1>1, <1>3, <1>4, <2>1, SoundRelink
<1>6. CASE mode[src] # "dir"
    <2>1. F = G /\ MovedParent(od, on, nd) = parent
        BY <1>4, <1>6 DEF Moved, MovedParent, DeleteEntry, With
    <2>2. M = K
        <3>1. M \in [Ino -> Int] /\ K \in [Ino -> Int]
            BY <1>3 DEF MoveCounted, Recounted
        <3>2. \A i \in Ino : M[i] = K[i]
            <4>1. \A i \in Ino : Tally(src, i) \in Int /\ N[i] \in Int
                BY DEF Tally, Sound
            <4>. QED
                BY <1>2, <1>6, <4>1 DEF MoveCounted
        <3>. QED
            BY <3>1, <3>2
    <2>. QED
        BY <1>5, <2>1, <2>2
<1>7. CASE mode[src] = "dir"
    <2>1. src \in Live /\ src # Root /\ parent[src] = od
        BY <1>1, <1>7, DirPlace DEF Dirs
    <2>2. F = With(G, src, SetLink(G[src], 2, nd))
        BY <1>4, <1>7 DEF Moved, DeleteEntry, With
    <2>3. MovedParent(od, on, nd) = With(parent, src, nd)
        BY <1>7 DEF MovedParent, With
    <2>4. Recounted(K, M, parent[src], nd)
        <3>1. \A i \in Ino : /\ Tally(src, i) \in Int /\ N[i] \in Int
                             /\ Tally(od, i) \in Int /\ Tally(nd, i) \in Int
            BY DEF Tally, Sound
        <3>2. \A i \in Ino : M[i] = K[i] - Tally(od, i) + Tally(nd, i)
            BY <1>2, <1>7, <3>1 DEF MoveCounted
        <3>. QED
            BY <2>1, <3>2 DEF MoveCounted, Recounted
    <2>5. src \in Live \ {Root} /\ nd \in Ino
        BY <1>1, <2>1
    <2>6. Sound(G, Live, parent, K)
        BY <1>5
    <2>7. Sound(F, Live, MovedParent(od, on, nd), M) /\ Bound(F, Live) = Bound(G, Live)
        BY <2>2, <2>3, <2>4, <2>5, <2>6, SoundDotDot
    <2>. QED
        BY <1>5, <2>7
<1>. QED
    BY <1>6, <1>7

\* Two changes of the tree are one move.
LEMMA MovesOnce ==
    ASSUME NEW B, NEW G, NEW C, NEW od \in Ino, NEW on \in Name, NEW nd \in Ino,
           NEW nn \in Name, NEW src, od # nd \/ on # nn,
           Changed(B, G, nd, nn, src), Changed(G, C, od, on, 0),
           B \in [Ino -> [Name -> Ino \cup {0}]], C \in [Ino -> [Name -> Ino \cup {0}]]
    PROVE  Moves(B, C, od, on, nd, nn, src)
<1>1. \A p \in Ino, m \in Name :
          C[p][m] = IF p = nd /\ m = nn THEN src
                    ELSE IF p = od /\ m = on THEN 0 ELSE B[p][m]
    <2>1. \A p \in Ino, m \in Name :
              G[p][m] = IF p = nd /\ m = nn THEN src ELSE B[p][m]
        BY DEF Changed
    <2>2. \A p \in Ino, m \in Name :
              C[p][m] = IF p = od /\ m = on THEN 0 ELSE G[p][m]
        BY DEF Changed
    <2>3. od # nd \/ on # nn
        OBVIOUS
    <2>. QED
        BY ONLY <2>1, <2>2, <2>3
<1>. DEFINE X == [B EXCEPT ![od][on] = 0]
            R == [X EXCEPT ![nd][nn] = src]
<1>2. /\ DOMAIN X = Ino /\ \A p \in Ino : DOMAIN X[p] = Name
      /\ \A p \in Ino, m \in Name : X[p][m] = IF p = od /\ m = on THEN 0 ELSE B[p][m]
    OBVIOUS
<1>3. DOMAIN R = Ino /\ \A p \in Ino : DOMAIN R[p] = Name
    <2>. HIDE DEF X
    <2>. QED
        BY <1>2
<1>4. \A p \in Ino, m \in Name :
          R[p][m] = IF p = nd /\ m = nn THEN src ELSE X[p][m]
    <2>. HIDE DEF X
    <2>. QED
        BY <1>2
<1>5. R = [x \in Ino |-> R[x]] /\ \A p \in Ino : R[p] = [m \in Name |-> R[p][m]]
    <2>1. R = [x \in Ino |-> IF x = nd THEN [X[nd] EXCEPT ![nn] = src] ELSE X[x]]
        <3>. HIDE DEF X
        <3>. QED
            BY <1>2
    <2>2. \A p \in Ino : X[p] = [m \in Name |-> X[p][m]]
        OBVIOUS
    <2>. HIDE DEF X, R
    <2>3. R = [x \in Ino |-> R[x]]
        BY <2>1
    <2>4. ASSUME NEW p \in Ino
          PROVE  R[p] = [m \in Name |-> R[p][m]]
        <3>1. X[p] = [m \in Name |-> X[p][m]]
            BY <2>2
        <3>2. CASE p # nd
            <4>1. R[p] = X[p]
                BY <2>1, <3>2
            <4>. QED
                BY <3>1, <4>1
        <3>3. CASE p = nd
            <4>1. R[p] = [X[p] EXCEPT ![nn] = src]
                BY <2>1, <3>3
            <4>. QED
                BY <3>1, <4>1
        <3>. QED
            BY <3>2, <3>3
    <2>. QED
        BY <2>3, <2>4
<1>6. \A p \in Ino, m \in Name : C[p][m] = R[p][m]
    <2>. HIDE DEF R, X
    <2>. QED
        BY <1>1, <1>2, <1>4
<1>7. C = R
    <2>. HIDE DEF R
    <2>1. \A p \in Ino : C[p] = R[p]
        <3>1. ASSUME NEW p \in Ino
              PROVE  C[p] = R[p]
            <4>1. C[p] = [m \in Name |-> C[p][m]] /\ R[p] = [m \in Name |-> R[p][m]]
                BY <1>5
            <4>. QED
                BY <1>6, <4>1
        <3>. QED
            BY <3>1
    <2>. QED
        BY <1>5, <2>1
<1>. QED
    BY <1>1, <1>7 DEF Moves, MovesAt

\* d can be left upwards without meeting s.
NotAbove(P, s, d) ==
    \E A \in SUBSET Ino : d \in A /\ s \notin A /\ \A x \in A \ {Root} : P[x] \in A

\* A name is moved to one that is free or a file's.
LEMMA ShapedRenamed ==
    ASSUME NEW B, NEW P, NEW L, NEW D, Shaped(B, P, L, D), P \in [Ino -> Ino], 0 \notin D,
           NEW od \in L, NEW on \in Name, NEW src, B[od][on] = src,
           NEW nd \in L, NEW nn \in Name, B[nd][nn] \notin D,
           NEW C, MovesAt(B, C, od, on, nd, nn, src),
           NEW Q, Q = IF src \in D THEN With(P, src, nd) ELSE P,
           src \in D => NotAbove(P, src, nd)
    PROVE  Shaped(C, Q, L, D)
<1>1. L \subseteq D /\ D \subseteq Ino
    BY DEF Shaped
<1>2. \A p \in L, m \in Name :
          C[p][m] = IF p = nd /\ m = nn THEN src
                    ELSE IF p = od /\ m = on THEN 0 ELSE B[p][m]
    BY <1>1 DEF MovesAt
<1>3. CASE src \notin D
    <2>1. \A p \in L, m \in Name : B[p][m] \in D \/ C[p][m] \in D => C[p][m] = B[p][m]
        BY <1>2, <1>3
    <2>2. \A p \in L \ {Root} : Q[p] = P[p]
        BY <1>3
    <2>. QED
        BY <1>1, <2>1, <2>2, ShapedSame
<1>4. CASE src \in D
    <2>1. PICK A \in SUBSET Ino :
              nd \in A /\ src \notin A /\ \A x \in A \ {Root} : P[x] \in A
        BY <1>4 DEF NotAbove
    <2>2. \A p \in Ino : Q[p] = IF p = src THEN nd ELSE P[p]
        BY <1>4 DEF With
    <2>3. \A p \in L, m \in Name :
              IF p = nd /\ m = nn THEN C[p][m] = src
              ELSE IF p = od /\ m = on THEN C[p][m] \notin D ELSE C[p][m] = B[p][m]
        BY <1>2
    <2>4. Shaped(B, P, L, D) /\ B[od][on] = src /\ B[nd][nn] \notin D
        OBVIOUS
    <2>. QED
        BY ONLY <1>4, <2>1, <2>2, <2>3, <2>4, od \in L, nd \in L, on \in Name, nn \in Name,
                ShapedMoved
<1>. QED
    BY <1>3, <1>4

\* gbfs_rename never moves a directory below itself.
LEMMA AboveNot ==
    ASSUME NEW s \in Ino, NEW d, s \notin Ancestors(d)
    PROVE  NotAbove(parent, s, d)
BY DEF Ancestors, NotAbove

\* The slot of another name survives that a name is added,
LEMMA BindsAdded ==
    ASSUME TypeOK, NameInv, NEW d \in Ino, NEW nm \in Name, dentry[d][nm] = Negative,
           AddedSlot(d, nm, {}) # 0, NEW i \in Ino, i # Root,
           NEW x \in Ino, NEW k, NEW on, NEW s, Binds(dirent[x], k, on, s)
    PROVE  Binds(Added(d, nm, i, {})[x], k, on, s)
<1>1. View(dirent, dentry, mode)
    BY NameView
<1>2. /\ View(Added(d, nm, i, {}), [dentry EXCEPT ![d][nm] = i], mode)
      /\ \A p \in Ino : \A j \in 1 .. Len(dirent[p]) : dirent[p][j].ino # 0 =>
             /\ j \in 1 .. Len(Added(d, nm, i, {})[p])
             /\ Added(d, nm, i, {})[p][j] = dirent[p][j]
    BY <1>1, ViewAdd
<1>3. /\ k \in 1 .. Len(dirent[x]) /\ s # 0
      /\ dirent[x][k].ino = s /\ dirent[x][k].name = on
    BY DEF Binds
<1>4. /\ k \in 1 .. Len(Added(d, nm, i, {})[x])
      /\ Added(d, nm, i, {})[x][k] = dirent[x][k]
    BY <1>2, <1>3
<1>. QED
    BY <1>3, <1>4 DEF Binds

\* or that one is relinked.
LEMMA BindsRelinked ==
    ASSUME NEW E \in [Ino -> Directory], NEW d \in Ino, NEW k, NEW i,
           NEW F, F = With(E, d, SetLink(E[d], k, i)),
           NEW x \in Ino, NEW j, NEW on, NEW s, Binds(E[x], j, on, s), s # E[d][k].ino
    PROVE  Binds(F[x], j, on, s)
<1>1. x # d => F[x] = E[x]
    BY DEF With
<1>2. x = d => j # k /\ F[x] = SetLink(E[d], k, i)
    BY DEF With, Binds
<1>3. x = d => /\ Len(F[x]) = Len(E[x]) /\ F[x][j] = E[x][j]
    BY <1>2 DEF SetLink, Directory, Binds
<1>. QED
    BY <1>1, <1>3 DEF Binds

\* A rename to a name that is free.
LEMMA TreeRenameNew ==
    ASSUME TypeOK, NameInv, TreeSound, NEW od \in Ino, NEW on \in Name,
           NEW nd \in Ino, NEW nn \in Name, RenameNew(od, on, nd, nn, {}, 0)
    PROVE  TreeSound' /\ TreeStep
<1>0. PICK src \in Ino : src = dentry[od][on]
    BY DEF RenameNew, CanRename, CanDelete
<1>1. /\ LiveDir(nd) /\ dentry[nd][nn] = Negative
      /\ mode[src] = "dir" => src \notin Ancestors(nd)
      /\ mode' = mode /\ held' = held /\ linkable' = linkable /\ dead' = dead
    BY <1>0 DEF RenameNew, CanRename, Walked
<1>2. Dirs' = Dirs /\ Live' = Live /\ 0 \notin Dirs
    BY <1>1, InoFacts DEF Dirs, Live, LiveDir
<1>3. CASE AddedSlot(nd, nn, {}) = 0
    <2>1. dirent' = dirent /\ nlink' = nlink /\ dentry' = dentry /\ parent' = parent
        BY <1>0, <1>3, AddFails DEF RenameNew
    <2>. QED
        BY <1>1, <1>2, <2>1, TreeUnchanged, StepNone DEF TreeSound, Kept
<1>4. CASE AddedSlot(nd, nn, {}) # 0
    <2>1. PICK F : F = Added(nd, nn, src, {})
        OBVIOUS
    <2>2. PICK N : N = [nlink EXCEPT ![src] = @ + 1]
        OBVIOUS
    <2>3. Recounted(nlink, N, 0, src)
        <3>1. nlink \in [Ino -> Int]
            BY DEF TypeOK
        <3>2. N \in [Ino -> Int] /\ \A i \in Ino : N[i] = IF i = src THEN nlink[i] + 1 ELSE nlink[i]
            BY <2>2, <3>1
        <3>3. \A i \in Ino : Tally(0, i) = 0 /\ Tally(src, i) = IF i = src THEN 1 ELSE 0
            BY InoFacts DEF Tally
        <3>. QED
            BY <3>1, <3>2, <3>3 DEF Recounted
    <2>4. /\ nd \in Live /\ TreeOf[nd][nn] = 0 /\ AddSucceeds(nd, nn, {}, 0)
          /\ Sound(F, Live, parent, N)
          /\ Changed(TreeOf, Bound(F, Live), nd, nn, src)
        BY <1>1, <1>4, <2>1, <2>3, SoundAdd
    <2>5a. /\ dirent' = Moved(od, on, nd, F, {})
           /\ nlink' = IF mode[src] = "dir" /\ nd # od
                       THEN [nlink EXCEPT ![nd] = @ + 1, ![od] = Dropped(@, 1)] ELSE nlink
           /\ dentry' = MovedDentry(od, on, nd, nn)
           /\ parent' = MovedParent(od, on, nd)
        BY <1>0, <2>1, <2>4 DEF RenameNew
    <2>5b. nd # od => [nlink EXCEPT ![nd] = @ + 1, ![od] = Dropped(@, 1)] =
                      [nlink EXCEPT ![nd] = @ + 1, ![od] = @ - 1]
        BY RenameNewDrops
    <2>5. /\ dirent' = Moved(od, on, nd, F, {})
          /\ nlink' = IF mode[src] = "dir" /\ nd # od
                      THEN [nlink EXCEPT ![nd] = @ + 1, ![od] = @ - 1] ELSE nlink
          /\ dentry' = MovedDentry(od, on, nd, nn)
          /\ parent' = MovedParent(od, on, nd)
        BY <2>5a, <2>5b
    <2>6. /\ od \in Live /\ TreeOf[od][on] = src /\ src # 0 /\ src # Root
          /\ Binds(dirent[od], Found(od, on, {}), on, src)
        BY <1>0, FoundIs
    <2>7. Binds(F[od], Found(od, on, {}), on, src)
        BY <1>1, <1>4, <2>1, <2>6, BindsAdded
    <2>8. MoveCounted(N, nlink', mode[src] = "dir", src, od, nd)
        <3>1. nlink \in [Ino -> Int] /\ nlink' \in [Ino -> Int]
            BY <2>5 DEF TypeOK
        <3>2. ASSUME NEW i \in Ino
              PROVE  nlink'[i] = N[i] - Tally(src, i) +
                         (IF mode[src] = "dir" THEN Tally(nd, i) - Tally(od, i) ELSE 0)
            <4>1. nlink[i] \in Int /\ N[i] = nlink[i] + Tally(src, i)
                BY <2>2, <3>1 DEF Tally
            <4>2. nlink'[i] = nlink[i] +
                      (IF mode[src] = "dir" THEN Tally(nd, i) - Tally(od, i) ELSE 0)
                BY <2>5, <3>1, <4>1 DEF Tally
            <4>3. Tally(src, i) \in Int /\ Tally(nd, i) \in Int /\ Tally(od, i) \in Int
                BY DEF Tally
            <4>. QED
                BY <4>1, <4>2, <4>3
        <3>. QED
            BY <3>1, <3>2 DEF MoveCounted
    <2>9. /\ Sound(dirent', Live, parent', nlink')
          /\ Changed(Bound(F, Live), Bound(dirent', Live), od, on, 0)
        <3>1. Sound(F, Live, parent, N)
            BY <2>4
        <3>. QED
            BY <1>0, <2>4, <2>5, <2>7, <2>8, <3>1, SoundMoved
    <2>10. Bound(dirent', Live) = TreeOf'
        BY <1>2, LiveIs
    <2>11. Moves(TreeOf, TreeOf', od, on, nd, nn, src)
        <3>1. od # nd \/ on # nn
            BY <2>4, <2>6
        <3>2. PICK B, G, C : B = TreeOf /\ G = Bound(F, Live) /\ C = TreeOf'
            OBVIOUS
        <3>3. Changed(B, G, nd, nn, src) /\ Changed(G, C, od, on, 0)
            BY <2>4, <2>9, <2>10, <3>2
        <3>4. B \in [Ino -> [Name -> Ino \cup {0}]]
            BY <3>2, TreeFacts
        <3>5. G \in [Ino -> [Name -> Ino \cup {0}]]
            BY <3>3, <3>4 DEF Changed
        <3>6. C \in [Ino -> [Name -> Ino \cup {0}]]
            BY <3>3, <3>5 DEF Changed
        <3>7. Moves(B, C, od, on, nd, nn, src)
            BY <3>1, <3>3, <3>4, <3>6, MovesOnce
        <3>. QED
            BY <3>2, <3>7
    <2>12. Shaped(TreeOf', parent', Live, Dirs)
        <3>1. Shaped(TreeOf, parent, Live, Dirs)
            BY LiveIs DEF TreeSound
        <3>2. parent \in [Ino -> Ino] /\ 0 \notin Dirs /\ TreeOf[nd][nn] \notin Dirs
            BY <1>2, <2>4 DEF TypeOK
        <3>3. parent' = IF src \in Dirs THEN With(parent, src, nd) ELSE parent
            BY <1>0, <2>5 DEF MovedParent, With, Dirs
        <3>4. src \in Dirs => NotAbove(parent, src, nd)
            BY <1>1, AboveNot DEF Dirs
        <3>5. MovesAt(TreeOf, TreeOf', od, on, nd, nn, src)
            BY <2>11 DEF Moves
        <3>. QED
            BY <2>4, <2>6, <3>1, <3>2, <3>3, <3>4, <3>5, ShapedRenamed
    <2>13. Kept'
        <3>1. \A i \in Ino : mode'[i] = "none" => nlink'[i] = 0
            <4>1. mode[od] # "none" /\ mode[nd] # "none"
                BY <2>4, <2>6 DEF Live, LiveDir
            <4>. QED
                BY <1>1, <2>5, <4>1 DEF TreeSound, Kept, TypeOK
        <3>2. \A x \in Ino \ Live' : dentry'[x] = NoDentries
            BY <1>2, <2>4, <2>5, <2>6 DEF MovedDentry, TreeSound, Kept, TypeOK
        <3>. QED
            BY <1>1, <1>2, <3>1, <3>2 DEF TreeSound, Kept
    <2>14. TreeSound'
        BY <1>2, <2>9, <2>10, <2>12, <2>13 DEF TreeSound
    <2>15. TreeStep
        <3>1. /\ TreeOf[od][on] # 0 /\ TreeOf[nd][nn] = 0
              /\ TreeOf[od][on] # TreeOf[nd][nn]
              /\ mode[TreeOf[od][on]] = "dir" => TreeOf[od][on] \notin Ancestors(nd)
            BY <1>1, <2>4, <2>6
        <3>2. TreeOf' = [TreeOf EXCEPT ![od][on] = 0, ![nd][nn] = TreeOf[od][on]]
            BY <2>6, <2>11 DEF Moves
        <3>. QED
            BY <1>1, <2>4, <2>6, <3>1, <3>2, StepMove
    <2>. QED
        BY <2>14, <2>15
<1>. QED
    BY <1>3, <1>4

\* A rename to a name that is replaced.
LEMMA TreeRenameOver ==
    ASSUME TypeOK, NameInv, TreeSound, NEW od \in Ino, NEW on \in Name,
           NEW nd \in Ino, NEW nn \in Name, RenameOver(od, on, nd, nn, {})
    PROVE  TreeSound' /\ TreeStep
<1>0. PICK src \in Ino, tgt \in Ino : src = dentry[od][on] /\ tgt = dentry[nd][nn]
    BY DEF RenameOver, CanRename, CanDelete
<1>0a. PICK k : k = Found(nd, nn, {})
    OBVIOUS
<1>1. PICK F : F = With(dirent, nd, SetLink(dirent[nd], k, src))
    OBVIOUS
<1>2. /\ tgt # src /\ (mode[src] = "dir" <=> mode[tgt] = "dir")
      /\ mode[src] = "dir" =>
             /\ src \notin Ancestors(nd)
             /\ tgt \notin Ancestors(od) /\ tgt \notin dead
             /\ EmptyDir(dirent[tgt], tgt, {})
      /\ mode' = mode /\ held' = held /\ linkable' = linkable
    BY <1>0, <1>0a, NoBadPages DEF RenameOver, CanRename
<1>3a. nlink' = Replaced(od, tgt, mode[src] = "dir")
    BY <1>0, RenameOverDrops
<1>3. /\ dirent' = Moved(od, on, nd, F, {})
      /\ nlink' = Replaced(od, tgt, mode[src] = "dir")
      /\ dentry' = IF mode[src] = "dir"
                   THEN [MovedDentry(od, on, nd, nn) EXCEPT ![tgt] = NoDentries]
                   ELSE MovedDentry(od, on, nd, nn)
      /\ parent' = MovedParent(od, on, nd)
      /\ dead' = IF mode[src] = "dir" THEN dead \cup {tgt} ELSE dead
    BY <1>0, <1>0a, <1>1, <1>3a DEF RenameOver, With
<1>4. /\ od \in Live /\ TreeOf[od][on] = src /\ src # 0 /\ src # Root
      /\ Binds(dirent[od], Found(od, on, {}), on, src)
    BY <1>0, <1>0a, FoundIs
<1>5. /\ nd \in Live /\ TreeOf[nd][nn] = tgt /\ tgt # 0 /\ tgt # Root
      /\ Binds(dirent[nd], k, nn, tgt)
    BY <1>0, <1>0a, FoundIs
<1>6. Dirs' = Dirs /\ 0 \notin Dirs
    BY <1>2, InoFacts DEF Dirs
<1>7. /\ dirent \in [Ino -> Directory] /\ nlink \in [Ino -> Int]
      /\ parent \in [Ino -> Ino] /\ Sound(dirent, Live, parent, nlink)
      /\ Live \subseteq Ino
    BY DEF TreeSound, Sound
<1>8. PICK N : N = [i \in Ino |-> nlink[i] - Tally(tgt, i) + Tally(src, i)]
    OBVIOUS
<1>9. \A x : \A i \in Ino : Tally(x, i) \in Int
    BY DEF Tally
<1>10. Recounted(nlink, N, tgt, src)
    BY <1>7, <1>8, <1>9 DEF Recounted
<1>11. /\ Sound(F, Live, parent, N)
       /\ Changed(Bound(dirent, Live), Bound(F, Live), nd, nn, src)
    <2>1. Sound(dirent, Live, parent, nlink) /\ src \in Ino \cup {0}
        BY <1>7
    <2>. QED
        BY <1>1, <1>5, <1>10, <2>1, SoundRelink
<1>12. Binds(F[od], Found(od, on, {}), on, src)
    <2>1. PICK E, j : E = dirent /\ j = Found(od, on, {})
        OBVIOUS
    <2>2. E \in [Ino -> Directory] /\ F = With(E, nd, SetLink(E[nd], k, src))
        BY <1>1, <1>7, <2>1
    <2>3. Binds(E[od], j, on, src)
        BY <1>4, <2>1
    <2>4. src # E[nd][k].ino
        BY <1>2, <1>5, <2>1 DEF Binds
    <2>5. Binds(F[od], j, on, src)
        BY <2>2, <2>3, <2>4, BindsRelinked
    <2>. QED
        BY <2>1, <2>5
<1>13. PICK M : M = [i \in Ino |-> N[i] - Tally(src, i) +
                        (IF mode[src] = "dir" THEN Tally(nd, i) - Tally(od, i) ELSE 0)]
    OBVIOUS
<1>14. MoveCounted(N, M, mode[src] = "dir", src, od, nd)
    <2>1. N \in [Ino -> Int]
        BY <1>10 DEF Recounted
    <2>. QED
        BY <1>9, <1>13, <2>1 DEF MoveCounted
<1>15. PICK C : C = Bound(dirent', Live)
    OBVIOUS
<1>16. /\ Sound(dirent', Live, parent', M)
       /\ Changed(Bound(F, Live), C, od, on, 0)
    <2>1. Sound(F, Live, parent, N)
        BY <1>11
    <2>. QED
        BY <1>0, <1>0a, <1>3, <1>5, <1>12, <1>14, <1>15, <2>1, SoundMoved
<1>17. Moves(TreeOf, C, od, on, nd, nn, src)
    <2>1. od # nd \/ on # nn
        BY <1>0, <1>0a, <1>2
    <2>2. PICK B, G : B = TreeOf /\ G = Bound(F, Live)
        OBVIOUS
    <2>3. Changed(B, G, nd, nn, src) /\ Changed(G, C, od, on, 0)
        BY <1>11, <1>16, <2>2, LiveIs
    <2>4. B \in [Ino -> [Name -> Ino \cup {0}]]
        BY <2>2, TreeFacts
    <2>5. C \in [Ino -> [Name -> Ino \cup {0}]]
        BY <2>3, <2>4 DEF Changed
    <2>6. Moves(B, C, od, on, nd, nn, src)
        BY <2>1, <2>3, <2>4, <2>5, MovesOnce
    <2>. QED
        BY <2>2, <2>6
<1>18. Shaped(TreeOf, parent, Live, Dirs)
    BY LiveIs DEF TreeSound
<1>19. parent' = IF src \in Dirs THEN With(parent, src, nd) ELSE parent
    BY <1>0, <1>0a, <1>3 DEF MovedParent, With, Dirs
<1>20. src \in Dirs => NotAbove(parent, src, nd)
    BY <1>2, AboveNot DEF Dirs
<1>21. \A x \in Ino : mode'[x] = "none" => nlink'[x] = 0
    <2>1. mode[od] # "none" /\ mode[tgt] # "none"
        BY <1>4, <1>5, TreeFacts DEF Live, LiveDir
    <2>. QED
        BY <1>2, <1>3, <2>1 DEF Replaced, TreeSound, Kept, TypeOK
<1>22. CASE mode[src] # "dir"
    <2>1. Live' = Live /\ TreeOf' = C /\ src \notin Dirs /\ tgt \notin Dirs
        BY <1>2, <1>3, <1>6, <1>15, <1>22, LiveIs DEF Dirs
    <2>2. nlink' = M
        <3>1. \A i \in Ino : nlink[i] - Tally(tgt, i) = M[i]
            BY <1>7, <1>8, <1>9, <1>13, <1>22
        <3>2. nlink' = [nlink EXCEPT ![tgt] = @ - 1]
            BY <1>3, <1>22 DEF Replaced
        <3>3. \A i \in Ino : nlink'[i] = nlink[i] - Tally(tgt, i)
            BY <1>7, <3>2 DEF Tally
        <3>4. DOMAIN nlink' = Ino /\ nlink' = [i \in Ino |-> nlink'[i]]
            BY <1>7, <3>2
        <3>. QED
            BY <1>13, <3>1, <3>3, <3>4
    <2>3. Shaped(C, parent', Live, Dirs)
        <3>1. MovesAt(TreeOf, C, od, on, nd, nn, src) /\ TreeOf[nd][nn] \notin Dirs
            BY <1>5, <1>17, <2>1 DEF Moves
        <3>. QED
            BY <1>4, <1>5, <1>6, <1>7, <1>18, <1>19, <1>20, <3>1, ShapedRenamed
    <2>4. Kept'
        <3>1. \A x \in Ino \ Live' : dentry'[x] = NoDentries
            BY <1>3, <1>4, <1>5, <1>22, <2>1 DEF MovedDentry, TreeSound, Kept, TypeOK
        <3>. QED
            BY <1>3, <1>6, <1>21, <1>22, <3>1 DEF TreeSound, Kept
    <2>5. TreeSound'
        BY <1>6, <1>15, <1>16, <2>1, <2>2, <2>3, <2>4 DEF TreeSound
    <2>6. mode[tgt] = mode[src] /\ \A m \in Name : TreeOf[tgt][m] = 0
        <3>1. mode[src] # "none" /\ mode[tgt] # "none"
            BY <1>4, <1>5, TreeFacts
        <3>2. mode[src] \in Mode /\ mode[tgt] \in Mode
            BY DEF TypeOK
        <3>3. tgt \notin Live
            BY <2>1 DEF Live, LiveDir, Dirs
        <3>. QED
            BY <1>2, <1>22, <3>1, <3>2, <3>3, TreeFacts DEF Mode
    <2>7. TreeStep
        BY <1>2, <1>4, <1>5, <1>17, <1>22, <2>1, <2>6, StepMove DEF Moves
    <2>. QED
        BY <2>5, <2>7
<1>23. CASE mode[src] = "dir"
    <2>1. tgt \in Dirs /\ src \in Dirs /\ mode[tgt] = "dir"
        BY <1>2, <1>23 DEF Dirs
    <2>2. tgt \in Live /\ parent[tgt] = nd
        BY <1>5, <2>1, DirPlace
    <2>3. \A m \in Name : TreeOf[tgt][m] = 0
        <3>1. dirent[tgt] \in Directory /\ Unique(dirent[tgt]) /\ Dotted(dirent[tgt])
            BY <1>5, <1>7, <2>2 DEF Sound, Heads
        <3>2. \A m \in Name : InodeByName(dirent[tgt], m, {}) = 0
            BY <1>2, <1>23, <3>1, EmptyRefers
        <3>. QED
            BY <3>2 DEF TreeOf
    <2>4. tgt # od /\ tgt # nd /\ tgt # src
        <3>1. \A m \in Name : TreeOf[tgt][m] \notin Dirs
            BY <1>6, <2>3
        <3>2. tgt # nd
            BY <1>5, <1>18, <2>1, <3>1, ShapedPlace
        <3>3. od \in Ancestors(od)
            BY DEF Ancestors
        <3>. QED
            BY <1>2, <1>23, <3>2, <3>3
    <2>5. Live' = Live \ {tgt}
        BY <1>3, <1>6, <1>23, LiveIs
    <2>6. Sound(dirent', Live \ {tgt}, parent', nlink') /\ Bound(dirent', Live \ {tgt}) = C
        <3>1. dirent'[tgt] = dirent[tgt]
            BY <1>0, <1>0a, <1>1, <1>3, <1>7, <2>4 DEF Moved, DeleteEntry, With
        <3>2. tgt \in Live \ {Root} /\ EmptyDir(dirent'[tgt], tgt, {})
            BY <1>2, <1>5, <1>23, <2>2, <3>1
        <3>3. parent'[tgt] = nd
            BY <1>7, <1>19, <2>1, <2>2, <2>4 DEF With
        <3>4. \A i \in Ino : nlink'[i] = nlink[i] - Tally(tgt, i) - Tally(tgt, i) - Tally(od, i)
            BY <1>3, <1>7, <1>23 DEF Replaced, Tally
        <3>5. \A i \in Ino : M[i] = nlink[i] - Tally(tgt, i) + Tally(nd, i) - Tally(od, i)
            BY <1>7, <1>8, <1>9, <1>13, <1>23
        <3>6. /\ nlink' \in [Ino -> Int]
              /\ \A i \in Ino : nlink'[i] = M[i] - Tally(tgt, i) - Tally(parent'[tgt], i)
            <4>1. nlink' \in [Ino -> Int]
                BY <1>3, <1>7, <1>23 DEF Replaced
            <4>2. ASSUME NEW i \in Ino
                  PROVE  nlink'[i] = M[i] - Tally(tgt, i) - Tally(nd, i)
                <5>1. /\ nlink[i] \in Int /\ Tally(tgt, i) \in Int
                      /\ Tally(nd, i) \in Int /\ Tally(od, i) \in Int
                    BY <1>7, <1>9
                <5>. QED
                    BY <3>4, <3>5, <5>1
            <4>. QED
                BY <3>3, <4>1, <4>2
        <3>7. Sound(dirent', Live, parent', M)
            BY <1>16
        <3>. QED
            BY <1>15, <3>2, <3>6, <3>7, SoundRemoved
    <2>7. TreeOf' = C
        BY <2>5, <2>6, LiveIs
    <2>8. Shaped(C, parent', Live \ {tgt}, Dirs)
        <3>1. PICK B : B = [p \in Ino |-> [m \in Name |->
                               IF p = nd /\ m = nn THEN 0 ELSE TreeOf[p][m]]]
            OBVIOUS
        <3>2. \A p \in Live, m \in Name :
                  IF p = nd /\ m = nn THEN B[p][m] \notin Dirs ELSE B[p][m] = TreeOf[p][m]
            BY <1>6, <1>7, <3>1
        <3>3. \A m \in Name : TreeOf[tgt][m] \notin Dirs
            BY <1>6, <2>3
        <3>4. Shaped(B, parent, Live \ {tgt}, Dirs)
            BY <1>5, <1>18, <2>1, <3>2, <3>3, ShapedRemoved
        <3>5. MovesAt(B, C, od, on, nd, nn, src)
            <4>1. \A p \in Ino, m \in Name :
                      B[p][m] = IF p = nd /\ m = nn THEN 0 ELSE TreeOf[p][m]
                BY <3>1
            <4>2. MovesAt(TreeOf, C, od, on, nd, nn, src)
                BY <1>17 DEF Moves
            <4>. QED
                BY ONLY <4>1, <4>2 DEF MovesAt
        <3>6. B[od][on] = src /\ B[nd][nn] \notin Dirs
            BY <1>2, <1>4, <1>5, <1>6, <3>1
        <3>7. od \in Live \ {tgt} /\ nd \in Live \ {tgt}
            BY <1>4, <1>5, <2>4
        <3>8. parent \in [Ino -> Ino]
            BY <1>7
        <3>. QED
            BY <1>6, <1>19, <1>20, <3>4, <3>5, <3>6, <3>7, <3>8, ShapedRenamed
    <2>9. Kept'
        <3>1. \A x \in Ino \ Live' : dentry'[x] = NoDentries
            <4>1. dentry' = [MovedDentry(od, on, nd, nn) EXCEPT ![tgt] = NoDentries]
                BY <1>3, <1>23
            <4>2. MovedDentry(od, on, nd, nn) \in [Ino -> [Name -> Ino \cup {Negative, NoDentry}]]
                BY <1>0, <1>0a, MovedDentryType DEF Dentries
            <4>3. \A x \in Ino \ Live : MovedDentry(od, on, nd, nn)[x] = NoDentries
                BY <1>4, <1>5 DEF MovedDentry, TreeSound, Kept, TypeOK
            <4>. QED
                BY <2>5, <4>1, <4>2, <4>3
        <3>. QED
            BY <1>3, <1>6, <1>21, <1>23, <2>1, <3>1 DEF TreeSound, Kept
    <2>10. TreeSound'
        BY <1>6, <2>5, <2>6, <2>7, <2>8, <2>9, LiveIs DEF TreeSound
    <2>11. TreeStep
        <3>1. mode[TreeOf[nd][nn]] = mode[TreeOf[od][on]]
            BY <1>4, <1>5, <1>23, <2>1
        <3>2. \A m \in Name : TreeOf[TreeOf[nd][nn]][m] = 0
            BY <1>5, <2>3
        <3>3. TreeOf' = [TreeOf EXCEPT ![od][on] = 0, ![nd][nn] = TreeOf[od][on]]
            BY <1>4, <1>17, <2>7 DEF Moves
        <3>. QED
            BY <1>2, <1>4, <1>5, <1>23, <3>1, <3>2, <3>3, StepMove
    <2>. QED
        BY <2>10, <2>11
<1>. QED
    BY <1>22, <1>23
-----------------------------------------------------------------------------
(***************************************************************************)
(* The theorems about the tree                                             *)
(***************************************************************************)

\* At the start the root is the only directory, and it is empty.
LEMMA TreeStart ==
    ASSUME Init
    PROVE  TreeSound /\ Tree!TreeInit
<1>1. /\ dirent = [i \in Ino |-> << >>] /\ parent = [i \in Ino |-> Root]
      /\ nlink = [i \in Ino |-> IF i = Root THEN 2 ELSE 0] /\ dead = {}
      /\ mode = [i \in Ino |-> IF i = Root THEN "dir" ELSE "none"]
      /\ \A d \in Ino : dentry[d] = NoDentries
    BY DEF Init, NoDentries
<1>2. Dirs = {Root} /\ Live = {Root}
    BY <1>1, InoFacts DEF Dirs, Live, LiveDir
<1>3. << >> \in Directory /\ Unique(<< >>) /\ OnlyNames(<< >>)
    BY DEF Directory, Unique, OnlyNames
<1>4. TreeOf = [d \in Ino |-> [nm \in Name |-> 0]]
    <2>1. \A nm \in Name : InodeByName(<< >>, nm, {}) = 0
        <3>1. \A nm \in Name : \A k \in 1 .. Len(<< >>) : FALSE
            OBVIOUS
        <3>2. PICK es \in Directory : es = << >>
            BY <1>3
        <3>3. \A nm \in Name : InodeByName(es, nm, {}) = 0
            BY <3>1, <3>2, FoundWhenAbsent DEF Directory
        <3>. QED
            BY <3>2, <3>3
    <2>. QED
        BY <1>1, <2>1 DEF TreeOf
<1>5. Links(dirent, Live, nlink)
    <2>1. ASSUME NEW i \in Ino
          PROVE  Counted(dirent, Live, i, 0)
        <3>1. \A d \in Live, k \in Nat : RefAt(dirent[d], k) = 0
            BY <1>1, <1>2, InoFacts DEF RefAt
        <3>2. i # 0
            BY InoFacts
        <3>3. Refs(dirent, Live, i) = {}
            <4>1. ASSUME NEW p, p \in Refs(dirent, Live, i)
                  PROVE  FALSE
                <5>1. PICK d \in Live, k \in Nat : p = <<d, k>>
                    BY <4>1, RefsAre
                <5>2. RefAt(dirent[d], k) = i
                    BY <4>1, <5>1, RefsAre
                <5>. QED
                    BY <3>1, <3>2, <5>2
            <4>. QED
                BY <4>1
        <3>. QED
            BY <3>3, FS_EmptySet DEF Counted
    <2>2. \A i \in Ino : nlink[i] - (IF i = Root THEN 2 ELSE 0) = 0
        BY <1>1
    <2>. QED
        BY <2>1, <2>2 DEF Links
<1>6. Sound(dirent, Live, parent, nlink)
    BY <1>1, <1>2, <1>3, <1>5, InoFacts DEF Sound, Heads
<1>7. Shaped(TreeOf, parent, Live, Dirs)
    BY <1>2, <1>4, InoFacts DEF Shaped
<1>8. Kept
    BY <1>1, <1>2, InoFacts DEF Kept
<1>9. Tree!TreeInit
    BY <1>1, <1>4 DEF Init, Tree!TreeInit, Tree!Empty
<1>. QED
    BY <1>6, <1>7, <1>8, <1>9, LiveIs DEF TreeSound

\* One step, of the system and of the tree.
LEMMA TreeNextStep ==
    ASSUME TypeOK, NameInv, TreeSound, [Next]_vars, ReadFaults = {{}}, CommitFaults = {0}
    PROVE  TreeSound' /\ TreeStep
<1>1. ASSUME NEW d \in Ino, NEW nm \in Name, NextNames(d, nm, {}, 0)
      PROVE  TreeSound' /\ TreeStep
    BY <1>1, TreeCreate, TreeLink, TreeMkdir, TreeUnlink, TreeRmdir, TreeRenameNew
       DEF NextNames
<1>2. ASSUME NEW od \in Ino, NEW nd \in Ino, NEW on \in Name, NEW nn \in Name,
             RenameOver(od, on, nd, nn, {})
      PROVE  TreeSound' /\ TreeStep
    BY <1>2, TreeRenameOver
<1>3. ASSUME NEW d \in Ino, NEW nm \in Name, Lookup(d, nm, {})
      PROVE  TreeSound' /\ TreeStep
    BY <1>3, TreeLookup
<1>4. ASSUME NEW d \in Ino, NEW nm \in Name, DropDentry(d, nm) \/ CreateAborts(d, nm)
      PROVE  TreeSound' /\ TreeStep
    BY <1>4, TreeReferences
<1>5. ASSUME NEW i \in Ino, Tmpfile(i) \/ Evict(i)
      PROVE  TreeSound' /\ TreeStep
    BY <1>5, TreeTmpfile, TreeEvict
<1>6. ASSUME NEW i \in Ino, Open(i) \/ Close(i)
      PROVE  TreeSound' /\ TreeStep
    BY <1>6, TreeOpenClose
<1>7. CASE vars' = vars
    <2>1. /\ mode' = mode /\ nlink' = nlink /\ dirent' = dirent /\ dentry' = dentry
          /\ parent' = parent /\ held' = held /\ linkable' = linkable /\ dead' = dead
        BY <1>7 DEF vars
    <2>2. Dirs' = Dirs
        BY <2>1 DEF Dirs
    <2>. QED
        BY <2>1, <2>2, TreeUnchanged, StepNone DEF TreeSound, Kept
<1>. QED
    BY <1>1, <1>2, <1>3, <1>4, <1>5, <1>6, <1>7 DEF Next

\* Without read and commit errors the inductive invariant holds.
LEMMA TreeInvariant ==
    ASSUME ReadFaults = {{}}, CommitFaults = {0}
    PROVE  Spec => []TreeSound
<1>1. Init => TreeSound
    BY TreeStart
<1>2. TypeOK /\ NameInv /\ TreeSound /\ [Next]_vars => TreeSound'
    BY TreeNextStep
<1>. QED
    BY <1>1, <1>2, TypeCorrect, NameInvariant, PTL DEF Spec

\* The link count of every inode is the number of slots that refer to it.
THEOREM LinksExact ==
    ASSUME ReadFaults = {{}}, CommitFaults = {0}
    PROVE  Spec => []LinkCountExact
<1>1. ASSUME TypeOK, NameInv, TreeSound
      PROVE  LinkCountExact
    <2>0. /\ \A d \in Ino : dirent[d] \in Directory
          /\ nlink \in [Ino -> Int] /\ Links(dirent, Live, nlink)
        BY <1>1 DEF TreeSound, Sound
    <2>1. ASSUME NEW i \in Ino
          PROVE  nlink[i] = Cardinality(References(i)) + (IF i = Root THEN 2 ELSE 0)
        <3>1. References(i) = Refs(dirent, Live, i)
            <4>1. i # 0
                BY InoFacts
            <4>2. \A d \in Live : DOMAIN dirent[d] = 1 .. Len(dirent[d])
                BY <2>0 DEF Live, Directory
            <4>3. \A d \in Live, k \in Nat : RefAt(dirent[d], k) = i <=>
                      k \in DOMAIN dirent[d] /\ dirent[d][k].ino = i
                BY <4>1, <4>2 DEF RefAt
            <4>4. ASSUME NEW p
                  PROVE  p \in References(i) <=>
                             \E d \in Live : \E k \in DOMAIN dirent[d] :
                                 dirent[d][k].ino = i /\ p = <<d, k>>
                BY DEF References, Live
            <4>5. ASSUME NEW p
                  PROVE  p \in Refs(dirent, Live, i) <=>
                             \E d \in Live : \E k \in DOMAIN dirent[d] :
                                 dirent[d][k].ino = i /\ p = <<d, k>>
                <5>1. ASSUME p \in Refs(dirent, Live, i)
                      PROVE  \E d \in Live : \E k \in DOMAIN dirent[d] :
                                 dirent[d][k].ino = i /\ p = <<d, k>>
                    <6>1. PICK d \in Live, k \in Nat : p = <<d, k>>
                        BY <5>1, RefsAre
                    <6>2. RefAt(dirent[d], k) = i
                        BY <5>1, <6>1, RefsAre
                    <6>. QED
                        BY <4>3, <6>1, <6>2
                <5>2. ASSUME NEW d \in Live, NEW k \in DOMAIN dirent[d],
                             dirent[d][k].ino = i, p = <<d, k>>
                      PROVE  p \in Refs(dirent, Live, i)
                    <6>1. k \in Nat /\ RefAt(dirent[d], k) = i
                        BY <4>2, <4>3, <5>2
                    <6>. QED
                        BY <5>2, <6>1, RefsAre
                <5>. QED
                    BY <5>1, <5>2
            <4>. QED
                BY <4>4, <4>5
        <3>2. Cardinality(Refs(dirent, Live, i)) = nlink[i] - (IF i = Root THEN 2 ELSE 0)
            BY <2>0 DEF Links, Counted
        <3>. QED
            BY <2>0, <3>1, <3>2
    <2>. QED
        BY <2>1 DEF LinkCountExact
<1>. QED
    BY <1>1, TypeCorrect, NameInvariant, TreeInvariant, PTL

-----------------------------------------------------------------------------
(***************************************************************************)
(* The link limit                                                          *)
(***************************************************************************)

\* Only three operations raise a count, and each has checked it first; those
\* that lower one find it high enough.
LEMMA LinkCountStep ==
    ASSUME TypeOK, NameInv, TreeSound, LinkCountBounded, Next,
           ReadFaults = {{}}, CommitFaults = {0}
    PROVE  LinkCountBounded'
<1>0. nlink \in [Ino -> Int] /\ LinkMax \in Int /\ LinkMax >= 2
    BY NameiAssumption DEF TypeOK
<1>1. CASE UNCHANGED nlink
    BY <1>1 DEF LinkCountBounded
<1>2. ASSUME NEW d \in Ino, NEW nm \in Name, Create(d, nm, {}, 0)
      PROVE  LinkCountBounded'
    <2>1. nlink' = nlink \/ nlink' = [nlink EXCEPT ![nextino] = 1]
        BY <1>2 DEF Create
    <2>. QED
        BY <1>0, <2>1 DEF LinkCountBounded
<1>3. ASSUME NEW i \in Ino, NEW d \in Ino, NEW nm \in Name, Link(i, d, nm, {}, 0)
      PROVE  LinkCountBounded'
    <2>1. \/ nlink' = nlink
          \/ nlink[i] < LinkMax /\ nlink' = [nlink EXCEPT ![i] = @ + 1]
        BY <1>3 DEF Link, LinkRoom
    <2>. QED
        BY <1>0, <2>1 DEF LinkCountBounded
<1>4. ASSUME NEW d \in Ino, NEW nm \in Name, Mkdir(d, nm, {}, 0)
      PROVE  LinkCountBounded'
    <2>1. /\ nlink[d] < LinkMax
          /\ \/ nlink' = nlink
             \/ nlink' = [nlink EXCEPT ![d] = @ + 1, ![nextino] = 2]
        BY <1>4 DEF Mkdir, LinkRoom
    <2>. QED
        BY <1>0, <2>1 DEF LinkCountBounded
<1>5. ASSUME NEW d \in Ino, NEW nm \in Name, Unlink(d, nm, {}, 0)
      PROVE  LinkCountBounded'
    BY <1>0, <1>5, UnlinkDrops DEF LinkCountBounded
<1>6. ASSUME NEW d \in Ino, NEW nm \in Name, Rmdir(d, nm, {}, 0)
      PROVE  LinkCountBounded'
    BY <1>0, <1>6, RmdirDrops DEF LinkCountBounded
<1>7. ASSUME NEW od \in Ino, NEW nd \in Ino, NEW on \in Name, NEW nn \in Name,
             RenameNew(od, on, nd, nn, {}, 0)
      PROVE  LinkCountBounded'
    <2>1. \/ nlink' = nlink
          \/ /\ nlink[nd] < LinkMax /\ nd # od
             /\ nlink' = [nlink EXCEPT ![nd] = @ + 1, ![od] = @ - 1]
        BY <1>7, RenameNewDrops
    <2>. QED
        BY <1>0, <2>1 DEF LinkCountBounded
<1>8. ASSUME NEW od \in Ino, NEW nd \in Ino, NEW on \in Name, NEW nn \in Name,
             RenameOver(od, on, nd, nn, {})
      PROVE  LinkCountBounded'
    <2>. DEFINE tgt == dentry[nd][nn]
    <2>1. \/ nlink' = [nlink EXCEPT ![tgt] = @ - 2, ![od] = @ - 1]
          \/ nlink' = [nlink EXCEPT ![tgt] = @ - 1]
        BY <1>8, RenameOverDrops DEF Replaced
    <2>. QED
        BY <1>0, <2>1 DEF LinkCountBounded
<1>9. ASSUME NEW d \in Ino, NEW nm \in Name, NEW bad,
             Lookup(d, nm, bad) \/ DropDentry(d, nm) \/ CreateAborts(d, nm)
      PROVE  UNCHANGED nlink
    BY <1>9 DEF Lookup, DropDentry, CreateAborts
<1>10. ASSUME NEW i \in Ino, Tmpfile(i) \/ Open(i) \/ Close(i) \/ Evict(i)
       PROVE  UNCHANGED nlink
    BY <1>10 DEF Tmpfile, Open, Close, Evict
<1>11. ASSUME NEW d \in Ino, NEW nm \in Name, NextNames(d, nm, {}, 0)
       PROVE  LinkCountBounded'
    BY <1>11, <1>2, <1>3, <1>4, <1>5, <1>6, <1>7 DEF NextNames
<1>. QED
    BY <1>1, <1>8, <1>9, <1>10, <1>11 DEF Next

\* When no page read and no commit fails, no sequence of operations takes a
\* link count over s_max_links: none is raised past it, and none, being
\* unsigned, wraps to a value beyond it.
THEOREM LinkLimit ==
    ASSUME ReadFaults = {{}}, CommitFaults = {0}
    PROVE  Spec => []LinkCountBounded
<1>1. Init => LinkCountBounded
    BY NameiAssumption DEF Init, LinkCountBounded
<1>2. TypeOK /\ NameInv /\ TreeSound /\ LinkCountBounded /\ [Next]_vars
          => LinkCountBounded'
    BY LinkCountStep DEF LinkCountBounded, vars
<1>. QED
    BY <1>1, <1>2, TypeCorrect, NameInvariant, TreeInvariant, PTL DEF Spec

-----------------------------------------------------------------------------
\* The first two slots, as a sequence.
LEMMA FirstTwo ==
    ASSUME NEW S, NEW s \in Seq(S), Len(s) >= 2
    PROVE  SubSeq(s, 1, 2) = << s[1], s[2] >>
<1>1. SubSeq(s, 1, 2) = [i \in 1 .. 2 |-> s[i]]
    OBVIOUS
<1>2. << s[1], s[2] >> = [i \in 1 .. 2 |-> << s[1], s[2] >>[i]]
    OBVIOUS
<1>3. \A i \in 1 .. 2 : << s[1], s[2] >>[i] = s[i]
    OBVIOUS
<1>. QED
    BY <1>1, <1>2, <1>3

\* Every directory begins with itself and its parent, which has an entry for
\* it, and leads up to the root: no sequence of renames cuts a part of the
\* tree off or knots it.
THEOREM LeadsToRoot ==
    ASSUME ReadFaults = {{}}, CommitFaults = {0}
    PROVE  Spec => []DotDotLeadsToRoot
<1>1. ASSUME TypeOK, NameInv, TreeSound
      PROVE  DotDotLeadsToRoot
    <2>1. ASSUME NEW d \in Ino \ {Root}, LiveDir(d)
          PROVE  /\ SubSeq(dirent[d], 1, 2) = MakeEmpty(d, dirent[d][2].ino)
                 /\ LiveDir(dirent[d][2].ino)
                 /\ \E k \in DOMAIN dirent[dirent[d][2].ino] :
                        dirent[dirent[d][2].ino][k].ino = d
                 /\ Root \in Ancestors(d)
        <3>1. d \in Live \ {Root}
            BY <2>1 DEF Live
        <3>2. /\ dirent[d] \in Directory /\ Dotted(dirent[d])
              /\ RefAt(dirent[d], 1) = d /\ RefAt(dirent[d], 2) = parent[d]
            BY <1>1, <3>1 DEF TreeSound, Sound, Heads
        <3>3. dirent[d][1].ino = d /\ dirent[d][2].ino = parent[d]
            BY <3>2 DEF RefAt, Dotted
        <3>4. /\ Shaped(TreeOf, parent, Live, Dirs)
              /\ \A p \in Ino : dirent[p] \in Directory
            BY <1>1, LiveIs DEF TreeSound, Sound
        <3>5. PICK nm \in Name : parent[d] \in Live /\ TreeOf[parent[d]][nm] = d
            BY <3>1, <3>4 DEF Shaped
        <3>6. LiveDir(parent[d]) /\ parent[d] \in Ino
            BY <3>5 DEF Live
        <3>7. \E k \in DOMAIN dirent[parent[d]] : dirent[parent[d]][k].ino = d
            <4>1. InodeByName(dirent[parent[d]], nm, {}) = d /\ d # 0
                BY <3>5, <3>6, InoFacts DEF TreeOf
            <4>2. dirent[parent[d]] \in Directory
                BY <3>4, <3>6
            <4>3. DOMAIN dirent[parent[d]] = 1 .. Len(dirent[parent[d]])
                BY <4>2 DEF Directory
            <4>. QED
                BY <4>1, <4>2, <4>3, NameRefers
        <3>8. Root \in Ancestors(d)
            BY <3>1, <3>4, InoFacts DEF Shaped, Ancestors
        <3>9. SubSeq(dirent[d], 1, 2) = MakeEmpty(d, parent[d])
            <4>1. /\ dirent[d] \in Seq(Slots(Ino \cup {0}, Name \cup {Dot, DotDot}))
                  /\ Len(dirent[d]) >= 2
                BY <3>2 DEF Directory, Dotted
            <4>2. dirent[d][1] = Slot(d, Dot) /\ dirent[d][2] = Slot(parent[d], DotDot)
                <5>1. \A s \in Slots(Ino \cup {0}, Name \cup {Dot, DotDot}) :
                          s = Slot(s.ino, s.name)
                    BY DEF Slot, Slots
                <5>2. /\ dirent[d][1] \in Slots(Ino \cup {0}, Name \cup {Dot, DotDot})
                      /\ dirent[d][2] \in Slots(Ino \cup {0}, Name \cup {Dot, DotDot})
                    BY <4>1
                <5>3. dirent[d][1].name = Dot /\ dirent[d][2].name = DotDot
                    BY <3>2 DEF Dotted
                <5>. QED
                    BY <3>3, <5>1, <5>2, <5>3
            <4>. QED
                BY <4>1, <4>2, FirstTwo DEF MakeEmpty
        <3>. QED
            BY <3>3, <3>6, <3>7, <3>8, <3>9
    <2>. QED
        BY <2>1 DEF DotDotLeadsToRoot
<1>. QED
    BY <1>1, TypeCorrect, NameInvariant, TreeInvariant, PTL

\* Every operation on slots, link counts and dentries is one step of the file
\* tree or none.
THEOREM TreeImplemented ==
    ASSUME ReadFaults = {{}}, CommitFaults = {0}
    PROVE  Spec => ImplementsTree
<1>1. Init => Tree!TreeInit
    BY TreeStart
<1>2. TypeOK /\ NameInv /\ TreeSound /\ [Next]_vars => [Tree!TreeNext]_(Tree!treevars)
    BY TreeNextStep DEF TreeStep
<1>. QED
    BY <1>1, <1>2, TypeCorrect, NameInvariant, TreeInvariant, PTL
       DEF Spec, ImplementsTree, Tree!TreeSpec
=============================================================================
