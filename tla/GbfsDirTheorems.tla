-------------------------- MODULE GbfsDirTheorems --------------------------
(***************************************************************************)
(* What the operators of GbfsDir return and preserve, for directories of   *)
(* any length.                                                             *)
(***************************************************************************)
EXTENDS GbfsDir, NaturalsInduction, WellFoundedInduction, TLAPS

\* The order of the natural numbers as a relation.
Less == {p \in Nat \X Nat : p[1] < p[2]}

\* The least element of a set of numbers is one of them, below the others.
LEMMA MinProperty ==
    ASSUME NEW S \in SUBSET Nat, S # {}
    PROVE  Min(S) \in S /\ \A y \in S : Min(S) <= y
<1>1. IsWellFoundedOn(Less, Nat)
    BY NatLessThanWellFounded DEF OpToRel, Less
<1>2. PICK x \in S : \A y \in S : ~(<<y, x>> \in Less)
    BY <1>1, WFMin
<1>3. ASSUME NEW y \in S PROVE x <= y
    <2>1. x \in Nat /\ y \in Nat /\ <<y, x>> \in Nat \X Nat
        OBVIOUS
    <2>2. ~(<<y, x>>[1] < <<y, x>>[2])
        BY <1>2, <2>1 DEF Less
    <2>. QED
        BY <2>1, <2>2
<1>. QED
    BY <1>3 DEF Min

-----------------------------------------------------------------------------
\* Slots of inode numbers I and names N.
Slots(I, N) == [ino : I, name : N]

\* gbfs_find_entry returns NULL, or the first readable slot in use that has
\* the name.
LEMMA FindEntryProperty ==
    ASSUME NEW I, NEW N, NEW es \in Seq(Slots(I, N)), NEW nm, NEW bad
    PROVE  /\ FindEntry(es, nm, bad) \in {0} \cup Matches(es, nm, bad)
           /\ FindEntry(es, nm, bad) = 0 => Matches(es, nm, bad) = {}
           /\ Matches(es, nm, bad) \subseteq 1 .. Len(es)
<1>1. Matches(es, nm, bad) \subseteq 1 .. Len(es)
    BY DEF Matches
<1>2. Matches(es, nm, bad) \in SUBSET Nat /\ 0 \notin Matches(es, nm, bad)
    BY <1>1
<1>3. CASE Matches(es, nm, bad) = {}
    BY <1>1, <1>3 DEF FindEntry
<1>4. CASE Matches(es, nm, bad) # {}
    <2>1. Min(Matches(es, nm, bad)) \in Matches(es, nm, bad)
        BY <1>2, <1>4, MinProperty
    <2>. QED
        BY <1>1, <1>2, <1>4, <2>1 DEF FindEntry
<1>. QED
    BY <1>3, <1>4

\* The inode number found is 0 or one a slot holds.
LEMMA InodeByNameType ==
    ASSUME NEW I, NEW N, NEW es \in Seq(Slots(I, N)), NEW nm, NEW bad
    PROVE  InodeByName(es, nm, bad) \in I \cup {0}
<1>. DEFINE k == FindEntry(es, nm, bad)
<1>1. k = 0 \/ k \in 1 .. Len(es)
    BY FindEntryProperty
<1>2. CASE k \in 1 .. Len(es)
    <2>1. es[k] \in Slots(I, N)
        BY <1>2
    <2>2. es[k].ino \in I
        BY <2>1 DEF Slots
    <2>. QED
        BY <1>2, <2>2 DEF InodeByName
<1>. QED
    BY <1>1, <1>2 DEF InodeByName

\* gbfs_add_link finds a slot of the directory that is free, or the one just
\* past its end, or none.
LEMMA AddSlotProperty ==
    ASSUME NEW I, NEW N, NEW es \in Seq(Slots(I, N)), NEW nm, NEW bad
    PROVE  /\ AddSlot(es, nm, bad) \in 0 .. Len(es) + 1
           /\ AddSlot(es, nm, bad) \in 1 .. Len(es) =>
                  es[AddSlot(es, nm, bad)].ino = 0
<1>. DEFINE k == Min(Stops(es, nm, bad))
<1>1. Len(es) \in Nat
    OBVIOUS
<1>2. Stops(es, nm, bad) \in SUBSET Nat /\ Len(es) + 1 \in Stops(es, nm, bad)
    BY <1>1 DEF Stops
<1>3. k \in Stops(es, nm, bad)
    BY <1>2, MinProperty
<1>4. k \in 1 .. Len(es) + 1
    BY <1>3 DEF Stops
<1>. QED
    BY <1>1, <1>4 DEF AddSlot

\* Filling, relinking and freeing a slot yield a directory again.
LEMMA FillSlotType ==
    ASSUME NEW I, NEW N, NEW es \in Seq(Slots(I, N)),
           NEW k \in 1 .. Len(es) + 1, NEW nm \in N, NEW i \in I
    PROVE  FillSlot(es, k, nm, i) \in Seq(Slots(I, N))
<1>1. Slot(i, nm) \in Slots(I, N)
    BY DEF Slot, Slots
<1>2. CASE k = Len(es) + 1
    BY <1>1, <1>2 DEF FillSlot
<1>3. CASE k # Len(es) + 1
    <2>1. k \in 1 .. Len(es)
        BY <1>3
    <2>. QED
        BY <1>1, <1>3, <2>1 DEF FillSlot
<1>. QED
    BY <1>2, <1>3

\* Relinking a slot does, whatever number it is given.
LEMMA SetLinkType ==
    ASSUME NEW I, NEW N, NEW es \in Seq(Slots(I, N)), NEW k, NEW i \in I
    PROVE  /\ SetLink(es, k, i) \in Seq(Slots(I, N))
           /\ Len(SetLink(es, k, i)) = Len(es)
<1>1. CASE k \in 1 .. Len(es)
    <2>1. es[k] \in Slots(I, N) /\ es[k].name \in N
        <3>1. es[k] \in Slots(I, N)
            BY <1>1
        <3>. QED
            BY <3>1 DEF Slots
    <2>2. Slot(i, es[k].name) \in Slots(I, N)
        BY <2>1 DEF Slot, Slots
    <2>. QED
        BY <1>1, <2>2 DEF SetLink
<1>2. CASE k \notin 1 .. Len(es)
    <2>1. SetLink(es, k, i) = es
        BY <1>2 DEF SetLink
    <2>. QED
        BY <2>1
<1>. QED
    BY <1>1, <1>2

-----------------------------------------------------------------------------
(***************************************************************************)
(* Directories in which no name occurs twice, all of whose pages are read  *)
(***************************************************************************)

\* A search finds the only slot that has the name, and its inode number.
LEMMA FoundWhenPresent ==
    ASSUME NEW I, NEW N, NEW es \in Seq(Slots(I, N)), Unique(es),
           NEW k \in 1 .. Len(es), es[k].ino # 0
    PROVE  /\ FindEntry(es, es[k].name, {}) = k
           /\ InodeByName(es, es[k].name, {}) = es[k].ino
<1>. DEFINE nm == es[k].name
            f  == FindEntry(es, nm, {})
<1>1. k \in Matches(es, nm, {})
    BY DEF Matches
<1>2. f \in Matches(es, nm, {})
    BY <1>1, FindEntryProperty
<1>3. f = k
    BY <1>2 DEF Matches, Unique
<1>4. k # 0
    OBVIOUS
<1>. QED
    BY <1>3, <1>4 DEF InodeByName

\* A search that finds nothing means that no slot in use has the name.
LEMMA FoundWhenAbsent ==
    ASSUME NEW I, NEW N, NEW es \in Seq(Slots(I, N)), NEW nm
    PROVE  /\ InodeByName(es, nm, {}) = 0 <=>
                 \A k \in 1 .. Len(es) : es[k].ino = 0 \/ es[k].name # nm
           /\ FindEntry(es, nm, {}) # 0 =>
                 /\ FindEntry(es, nm, {}) \in 1 .. Len(es)
                 /\ es[FindEntry(es, nm, {})].ino # 0
                 /\ es[FindEntry(es, nm, {})].name = nm
           /\ FindEntry(es, nm, {}) = 0 <=> InodeByName(es, nm, {}) = 0
<1>. DEFINE f == FindEntry(es, nm, {})
<1>1. DOMAIN es = 1 .. Len(es)
    OBVIOUS
<1>2. CASE f = 0
    <2>1. Matches(es, nm, {}) = {}
        BY <1>2, FindEntryProperty
    <2>. QED
        BY <1>1, <1>2, <2>1 DEF Matches, InodeByName
<1>3. CASE f # 0
    <2>1. f \in Matches(es, nm, {})
        BY <1>3, FindEntryProperty
    <2>2. f \in 1 .. Len(es) /\ es[f].ino # 0 /\ es[f].name = nm
        BY <1>1, <2>1 DEF Matches
    <2>. QED
        BY <1>3, <2>2 DEF InodeByName
<1>. QED
    BY <1>2, <1>3

\* A directory two of whose versions use the same slots for a name gives the
\* same answer for it.
LEMMA FoundUnchanged ==
    ASSUME NEW I, NEW N, NEW es \in Seq(Slots(I, N)), NEW fs \in Seq(Slots(I, N)),
           NEW nm, Unique(es), Unique(fs),
           \A k \in 1 .. Len(es) : es[k].ino # 0 /\ es[k].name = nm =>
                k \in 1 .. Len(fs) /\ fs[k] = es[k],
           \A k \in 1 .. Len(fs) : fs[k].ino # 0 /\ fs[k].name = nm =>
                k \in 1 .. Len(es) /\ fs[k] = es[k]
    PROVE  InodeByName(fs, nm, {}) = InodeByName(es, nm, {})
<1>1. CASE \E k \in 1 .. Len(es) : es[k].ino # 0 /\ es[k].name = nm
    <2>1. PICK k \in 1 .. Len(es) : es[k].ino # 0 /\ es[k].name = nm
        BY <1>1
    <2>2. k \in 1 .. Len(fs) /\ fs[k] = es[k]
        BY <2>1
    <2>3. InodeByName(es, nm, {}) = es[k].ino
        BY <2>1, FoundWhenPresent
    <2>4. InodeByName(fs, nm, {}) = es[k].ino
        BY <2>1, <2>2, FoundWhenPresent
    <2>. QED
        BY <2>3, <2>4
<1>2. CASE ~ \E k \in 1 .. Len(es) : es[k].ino # 0 /\ es[k].name = nm
    <2>1. InodeByName(es, nm, {}) = 0
        BY <1>2, FoundWhenAbsent
    <2>2. InodeByName(fs, nm, {}) = 0
        BY <1>2, FoundWhenAbsent
    <2>. QED
        BY <2>1, <2>2
<1>. QED
    BY <1>1, <1>2

\* fs is es with v at k, at the end if need be.
Filled(es, fs, k, v) ==
    /\ Len(fs) >= Len(es) /\ DOMAIN fs = 1 .. Len(fs)
    /\ 1 .. Len(fs) = 1 .. Len(es) \cup {k}
    /\ fs[k] = v
    /\ \A j \in 1 .. Len(es) : j # k => fs[j] = es[j]

\* What FillSlot writes.
LEMMA FilledSlot ==
    ASSUME NEW S, NEW es \in Seq(S), NEW v \in S, NEW k \in 1 .. Len(es) + 1,
           NEW fs, fs = IF k = Len(es) + 1 THEN Append(es, v) ELSE [es EXCEPT ![k] = v]
    PROVE  Filled(es, fs, k, v)
<1>0. Len(es) \in Nat /\ DOMAIN es = 1 .. Len(es)
    OBVIOUS
<1>1. CASE k = Len(es) + 1
    <2>1. fs = Append(es, v)
        BY <1>1
    <2>. QED
        BY <1>0, <1>1, <2>1 DEF Filled
<1>2. CASE k \in 1 .. Len(es)
    <2>0. k # Len(es) + 1
        BY <1>0, <1>2
    <2>1. fs = [es EXCEPT ![k] = v]
        BY <2>0
    <2>2. Len(fs) = Len(es) /\ DOMAIN fs = 1 .. Len(fs)
        BY <1>2, <2>1
    <2>3. 1 .. Len(fs) = 1 .. Len(es) \cup {k}
        BY <1>2, <2>2
    <2>4. fs[k] = v
        BY ONLY <1>0, <1>2, <2>1
    <2>5. \A j \in 1 .. Len(es) : j # k => fs[j] = es[j]
        BY ONLY <1>0, <1>2, <2>1
    <2>6. Len(fs) >= Len(es)
        BY ONLY <1>0, <2>2
    <2>. QED
        BY ONLY <2>2, <2>3, <2>4, <2>5, <2>6, Zenon DEF Filled
<1>. QED
    BY <1>0, <1>1, <1>2

\* gbfs_add_link binds a name that is absent, and no other: it takes a slot
\* that is not in use.
LEMMA FillSlotEffect ==
    ASSUME NEW I, NEW N, NEW es \in Seq(Slots(I, N)), Unique(es),
           NEW nm \in N, NEW i \in I, i # 0,
           InodeByName(es, nm, {}) = 0, AddSlot(es, nm, {}) # 0,
           NEW fs, fs = FillSlot(es, AddSlot(es, nm, {}), nm, i)
    PROVE  /\ fs \in Seq(Slots(I, N)) /\ Len(fs) >= Len(es)
           /\ Unique(fs)
           /\ InodeByName(fs, nm, {}) = i
           /\ \A m : m # nm => InodeByName(fs, m, {}) = InodeByName(es, m, {})
           /\ \A j \in 1 .. Len(es) : es[j].ino # 0 => fs[j] = es[j]
           /\ \A j \in 1 .. Len(fs) : \/ j \in 1 .. Len(es) /\ fs[j] = es[j]
                                      \/ fs[j] = Slot(i, nm)
<1>. DEFINE k == AddSlot(es, nm, {})
<1>1. k \in 1 .. Len(es) + 1 /\ (k \in 1 .. Len(es) => es[k].ino = 0)
    BY AddSlotProperty
<1>2. Len(es) \in Nat /\ DOMAIN es = 1 .. Len(es)
    OBVIOUS
<1>3. fs \in Seq(Slots(I, N))
    BY <1>1, FillSlotType
<1>4. /\ Len(fs) >= Len(es) /\ DOMAIN fs = 1 .. Len(fs)
      /\ 1 .. Len(fs) = 1 .. Len(es) \cup {k}
      /\ fs[k] = Slot(i, nm)
      /\ \A j \in 1 .. Len(es) : j # k => fs[j] = es[j]
    <2>. HIDE DEF k
    <2>1. Slot(i, nm) \in Slots(I, N)
        BY DEF Slot, Slots
    <2>2. PICK S, v : es \in Seq(S) /\ v \in S /\ v = Slot(i, nm)
        BY <2>1
    <2>3. fs = FillSlot(es, k, nm, i)
        BY DEF k
    <2>4. Filled(es, fs, k, v)
        BY ONLY <1>1, <2>2, <2>3, FilledSlot DEF FillSlot
    <2>. QED
        BY <2>2, <2>4 DEF Filled
<1>5. fs[k].ino = i /\ fs[k].name = nm
    BY <1>4 DEF Slot
<1>6. \A j \in 1 .. Len(es) : es[j].ino # 0 => fs[j] = es[j] /\ es[j].name # nm
    BY <1>1, <1>4, FoundWhenAbsent
<1>7. Unique(fs)
    BY <1>2, <1>4, <1>5, <1>6 DEF Unique
<1>8. InodeByName(fs, nm, {}) = i
    <2>. HIDE DEF k
    <2>1. k \in 1 .. Len(fs) /\ fs[k].ino # 0
        BY <1>4, <1>5
    <2>. QED
        BY <1>3, <1>5, <1>7, <2>1, FoundWhenPresent
<1>9. ASSUME NEW m, m # nm
      PROVE  InodeByName(fs, m, {}) = InodeByName(es, m, {})
    <2>1. \A j \in 1 .. Len(es) : es[j].ino # 0 /\ es[j].name = m =>
              j \in 1 .. Len(fs) /\ fs[j] = es[j]
        BY <1>4, <1>6
    <2>2. \A j \in 1 .. Len(fs) : fs[j].ino # 0 /\ fs[j].name = m =>
              j \in 1 .. Len(es) /\ fs[j] = es[j]
        BY <1>4, <1>5, <1>9
    <2>. QED
        BY <1>3, <1>7, <2>1, <2>2, FoundUnchanged
<1>10. \A j \in 1 .. Len(fs) : \/ j \in 1 .. Len(es) /\ fs[j] = es[j]
                               \/ fs[j] = Slot(i, nm)
    BY <1>4
<1>. QED
    BY <1>3, <1>4, <1>6, <1>7, <1>8, <1>9, <1>10

\* Relinking or freeing a slot in use changes the answer for its name only.
LEMMA SetLinkEffect ==
    ASSUME NEW I, NEW N, NEW es \in Seq(Slots(I, N)), Unique(es),
           NEW k \in 1 .. Len(es), es[k].ino # 0, NEW i \in I,
           NEW fs, fs = SetLink(es, k, i)
    PROVE  /\ fs \in Seq(Slots(I, N)) /\ Len(fs) = Len(es)
           /\ Unique(fs)
           /\ InodeByName(fs, es[k].name, {}) = i
           /\ \A m : m # es[k].name =>
                    InodeByName(fs, m, {}) = InodeByName(es, m, {})
           /\ \A j \in 1 .. Len(es) : j # k => fs[j] = es[j]
           /\ fs[k] = Slot(i, es[k].name)
<1>1. fs \in Seq(Slots(I, N)) /\ Len(fs) = Len(es)
    BY SetLinkType
<1>2. DOMAIN es = 1 .. Len(es) /\ DOMAIN fs = 1 .. Len(es)
    BY <1>1
<1>3. /\ \A j \in 1 .. Len(es) : j # k => fs[j] = es[j]
      /\ fs[k] = Slot(i, es[k].name)
    BY <1>2 DEF SetLink
<1>4. fs[k].ino = i /\ fs[k].name = es[k].name
    BY <1>3 DEF Slot
<1>5. Unique(fs)
    BY <1>2, <1>3, <1>4 DEF Unique
<1>6. \A j \in 1 .. Len(es) : j # k =>
          es[j].ino = 0 \/ es[j].name # es[k].name
    BY <1>2 DEF Unique
<1>7. InodeByName(fs, es[k].name, {}) = i
    <2>1. CASE i = 0
        BY <1>1, <1>3, <1>4, <1>6, <2>1, FoundWhenAbsent
    <2>2. CASE i # 0
        BY <1>1, <1>4, <1>5, <2>2, FoundWhenPresent
    <2>. QED
        BY <2>1, <2>2
<1>8. ASSUME NEW m, m # es[k].name
      PROVE  InodeByName(fs, m, {}) = InodeByName(es, m, {})
    <2>1. \A j \in 1 .. Len(es) : es[j].ino # 0 /\ es[j].name = m =>
              j \in 1 .. Len(fs) /\ fs[j] = es[j]
        BY <1>1, <1>3, <1>8
    <2>2. \A j \in 1 .. Len(fs) : fs[j].ino # 0 /\ fs[j].name = m =>
              j \in 1 .. Len(es) /\ fs[j] = es[j]
        BY <1>1, <1>3, <1>4, <1>8
    <2>. QED
        BY <1>1, <1>5, <2>1, <2>2, FoundUnchanged
<1>. QED
    BY <1>1, <1>3, <1>5, <1>7, <1>8
=============================================================================
