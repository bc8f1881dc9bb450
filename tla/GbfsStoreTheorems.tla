------------------------- MODULE GbfsStoreTheorems -------------------------
(***************************************************************************)
(* Theorems about GbfsStore, for a database whose gets and puts succeed:   *)
(* the link counts in memory and in the database, and the pages of a file  *)
(* that has a name.                                                        *)
(***************************************************************************)
EXTENDS GbfsStoreProps, TLAPS

\* The inode numbers, pages and records are what they should be.
LEMMA StoreFacts ==
    /\ Ino \subseteq Nat /\ FirstIno \in Ino
    /\ Page \subseteq Nat
    /\ Uncached \notin RawInode /\ Uncached \notin Data
    /\ Zeroes \in Data
    /\ Raw(0, 0, 0) \in RawInode
    /\ Raw(1, 1, 0) \in RawInode
<1>1. Pages * PageBlocks \in Nat
    BY StoreAssumption
<1>2. 0 \in Size
    BY <1>1 DEF Size
<1>3. /\ Raw(0, 0, 0) \in RawInode
      /\ Raw(1, 1, 0) \in RawInode
    BY <1>2, StoreAssumption DEF RawInode, Raw
<1>4. Ino \subseteq Nat /\ FirstIno \in Ino /\ Page \subseteq Nat /\ Zeroes \in Data
    BY StoreAssumption DEF Ino, FirstIno, Page, Zeroes, Data
<1>. QED
    BY <1>3, <1>4, StoreAssumption

\* A write ends within the largest file.
LEMMA WrittenSize ==
    ASSUME NEW s \in Size, NEW p \in Page, NEW l \in Block
    PROVE  Larger(s, p * PageBlocks + l) \in Size
<1>1. /\ Pages \in Nat /\ PageBlocks \in Nat
      /\ p \in Nat /\ p <= Pages - 1
      /\ l \in Nat /\ l <= PageBlocks
    BY StoreAssumption DEF Page, Block
<1>2. p * PageBlocks <= (Pages - 1) * PageBlocks
    BY <1>1
<1>3. (Pages - 1) * PageBlocks = Pages * PageBlocks - PageBlocks
    BY <1>1
<1>4. p * PageBlocks \in Nat /\ Pages * PageBlocks \in Nat
    BY <1>1
<1>5. p * PageBlocks + l \in Size
    BY <1>1, <1>2, <1>3, <1>4 DEF Size
<1>. QED
    BY <1>5 DEF Larger

-----------------------------------------------------------------------------
StoreInv == TypeOK /\ LinkInv /\ PageInv

\* A new database has the invariant.
LEMMA StoreInit == Init => StoreInv
<1>. SUFFICES ASSUME Init PROVE StoreInv
    OBVIOUS
<1>1. TypeOK
    BY StoreFacts, StoreAssumption DEF Init, TypeOK, Ino, FirstIno
<1>2. LinkInv
    BY StoreFacts DEF Init, LinkInv, CountRight, Cached, Raw
<1>3. PageInv
    BY DEF Init, PageInv
<1>. QED
    BY <1>1, <1>2, <1>3 DEF StoreInv

\* An inode that a step leaves alone keeps its part of the invariant.
LEMMA Untouched ==
    ASSUME StoreInv, NEW j \in Ino,
           inode'[j] = inode[j], rec'[j] = rec[j], names'[j] = names[j],
           j \in dirty' <=> j \in dirty, j \in held' => j \in held,
           mounted' = mounted,
           nextino' = nextino \/ nextino' = nextino + 1
    PROVE  CountRight(j)'
<1>1. nextino \in Int /\ j \in Int
    BY StoreFacts, StoreAssumption DEF StoreInv, TypeOK, FirstIno
<1>2. CountRight(j)
    BY DEF StoreInv, LinkInv
<1>. QED
    BY <1>1, <1>2 DEF CountRight, Cached

\* Changing a link count by n keeps the invariant if the names follow.
LEMMA RelinkedKeeps ==
    ASSUME StoreInv, NEW i \in Ino, NEW n \in {1, -1},
           Cached(i), names[i] > 0, names[i] + n \in 0 .. MaxNames,
           Relinked(i, n),
           names' = [names EXCEPT ![i] = @ + n],
           UNCHANGED <<rec, stored, page, pdirty, held, mounted, nextino>>
    PROVE  TypeOK' /\ LinkInv'
<1>. USE DEF StoreInv
<1>1. inode[i] \in RawInode /\ inode[i].mode = 1 /\ inode[i].nlinks = names[i]
    BY DEF TypeOK, LinkInv, CountRight, Cached
<1>. DEFINE r == Raw(inode[i].mode, inode[i].nlinks + n, inode[i].size)
<1>2. r \in RawInode /\ r.mode = 1 /\ r.nlinks = names[i] + n
    BY <1>1 DEF RawInode, Raw
<1>3. inode' = [inode EXCEPT ![i] = r] /\ dirty' = dirty \cup {i}
    BY DEF Relinked
<1>4. r # Uncached
    BY <1>2, StoreFacts
<1>. HIDE DEF r
<1>5. TypeOK'
    BY <1>2, <1>3 DEF TypeOK
<1>6. CountRight(i)'
    BY <1>2, <1>3, <1>4 DEF TypeOK, LinkInv, CountRight, Cached
<1>7. ASSUME NEW j \in Ino, j # i
      PROVE  CountRight(j)'
    <2>1. inode'[j] = inode[j] /\ rec'[j] = rec[j] /\ names'[j] = names[j]
        BY <1>3, <1>7 DEF TypeOK
    <2>. QED
        BY <1>3, <1>7, <2>1, Untouched
<1>. QED
    BY <1>5, <1>6, <1>7 DEF LinkInv

\* Making, linking and removing names keeps the invariant.
LEMMA StoreNames ==
    ASSUME StoreInv, NEW i \in Ino,
           Create(i) \/ AddName(i) \/ RemoveName(i) \/ Iget(i) \/ Open(i) \/ Close(i)
    PROVE  TypeOK' /\ LinkInv'
<1>. USE DEF StoreInv
<1>1. CASE Create(i)
    <2>1. names[i] = 0 /\ ~Cached(i) /\ i = nextino /\ i \in Nat /\ i \notin held
        BY <1>1, StoreFacts DEF Create, LinkInv, CountRight
    <2>2. nextino' \in FirstIno .. MaxIno + 1
        BY <1>1, <2>1, StoreAssumption DEF Create, Ino, FirstIno
    <2>3. TypeOK'
        BY <1>1, <2>1, <2>2, StoreFacts, StoreAssumption DEF Create, TypeOK, NoPages
    <2>4. CountRight(i)'
        BY <1>1, <2>1, StoreFacts DEF Create, LinkInv, CountRight, TypeOK, Cached, Raw
    <2>5. ASSUME NEW j \in Ino, j # i
          PROVE  CountRight(j)'
        <3>1. inode'[j] = inode[j] /\ rec'[j] = rec[j] /\ names'[j] = names[j]
            BY <1>1, <2>5 DEF TypeOK, Create
        <3>. QED
            BY <1>1, <2>5, <3>1, Untouched DEF Create
    <2>. QED
        BY <2>3, <2>4, <2>5 DEF LinkInv
<1>2. CASE AddName(i)
    <2>1. names[i] > 0 /\ names[i] + 1 \in 0 .. MaxNames
        BY <1>2, StoreAssumption DEF AddName, TypeOK
    <2>. QED
        BY <1>2, <2>1, RelinkedKeeps DEF AddName
<1>3. CASE RemoveName(i)
    <2>1. names[i] - 1 = names[i] + -1 /\ names[i] + -1 \in 0 .. MaxNames
        BY <1>3, StoreAssumption DEF RemoveName, TypeOK
    <2>2. names' = [names EXCEPT ![i] = @ + -1]
        BY <1>3, <2>1 DEF RemoveName
    <2>. QED
        BY <1>3, <2>1, <2>2, RelinkedKeeps DEF RemoveName
<1>4. CASE Iget(i)
    <2>1. TypeOK'
        BY <1>4, StoreFacts DEF Iget, TypeOK
    <2>2. CountRight(i)'
        BY <1>4, StoreFacts DEF Iget, LinkInv, CountRight, TypeOK, Cached
    <2>3. ASSUME NEW j \in Ino, j # i
          PROVE  CountRight(j)'
        <3>1. inode'[j] = inode[j]
            BY <1>4, <2>3 DEF TypeOK, Iget
        <3>. QED
            BY <1>4, <2>3, <3>1, Untouched DEF Iget
    <2>. QED
        BY <2>1, <2>2, <2>3 DEF LinkInv
<1>5. CASE Open(i) \/ Close(i)
    BY <1>5 DEF Open, Close, TypeOK, LinkInv, CountRight, Cached
<1>. QED
    BY <1>1, <1>2, <1>3, <1>4, <1>5

-----------------------------------------------------------------------------
\* Reading a page keeps the invariant.
LEMMA ReadKeeps ==
    ASSUME StoreInv, NEW i \in Ino, NEW p \in Page, Read(i, p)
    PROVE  TypeOK' /\ LinkInv'
BY DEF StoreInv, Read, TypeOK, LinkInv, CountRight, Cached

\* Writing keeps the invariant: the inode's mode and link count stay.
LEMMA WriteKeeps ==
    ASSUME StoreInv, NEW i \in Ino, NEW p \in Page, NEW f \in Block,
           NEW l \in f .. PageBlocks, NEW v \in Val, Write(i, p, f, l, v)
    PROVE  TypeOK' /\ LinkInv'
<1>. USE DEF StoreInv
<1>1. inode[i] \in RawInode /\ Cached(i)
    BY DEF Write, TypeOK, LinkInv, CountRight, Cached
<1>2. l \in Block
    BY StoreAssumption DEF Block
<1>. DEFINE s == Larger(inode[i].size, p * PageBlocks + l)
            r == Raw(inode[i].mode, inode[i].nlinks, s)
            w == [o \in Block |-> IF o \in f .. l THEN v ELSE WriteBegin(i, p)[o]]
<1>3. s \in Size
    BY <1>1, <1>2, WrittenSize DEF RawInode
<1>4. r \in RawInode /\ r.mode = inode[i].mode /\ r.nlinks = inode[i].nlinks
    BY <1>1, <1>3 DEF RawInode, Raw
<1>5. WriteBegin(i, p) \in Data
    BY StoreFacts DEF WriteBegin, TypeOK
<1>6. w \in Data
    BY <1>5 DEF Data
<1>7. /\ inode' = [inode EXCEPT ![i] = r]
      /\ page' = [page EXCEPT ![i][p] = w]
      /\ pdirty' = pdirty \cup {<<i, p>>}
    BY DEF Write
<1>8. r # Uncached
    BY <1>4, StoreFacts
<1>. HIDE DEF s, r, w
<1>9. TypeOK'
    <2>1. pdirty' \subseteq Ino \X Page
        BY <1>7 DEF TypeOK
    <2>2. inode' \in [Ino -> RawInode \cup {Uncached}]
        BY <1>4, <1>7 DEF TypeOK
    <2>3. page' \in [Ino -> [Page -> Data \cup {Uncached}]]
        BY <1>6, <1>7 DEF TypeOK
    <2>. QED
        BY <2>1, <2>2, <2>3 DEF TypeOK, Write
<1>10. CountRight(i)'
    BY <1>1, <1>4, <1>7, <1>8 DEF Write, TypeOK, LinkInv, CountRight, Cached
<1>11. ASSUME NEW j \in Ino, j # i
       PROVE  CountRight(j)'
    <2>1. inode'[j] = inode[j]
        BY <1>7, <1>11 DEF TypeOK
    <2>. QED
        BY <1>11, <2>1, Untouched DEF Write
<1>. QED
    BY <1>9, <1>10, <1>11 DEF LinkInv

\* So does setting the size.
LEMMA SetattrKeeps ==
    ASSUME StoreInv, NEW i \in Ino, NEW n \in Size, Setattr(i, n)
    PROVE  TypeOK' /\ LinkInv'
<1>. USE DEF StoreInv
<1>1. inode[i] \in RawInode /\ Cached(i) /\ n \in Size
    BY StoreFacts DEF Setattr, TypeOK, Cached
<1>. DEFINE r == Raw(inode[i].mode, inode[i].nlinks, n)
<1>2. r \in RawInode /\ r.mode = inode[i].mode /\ r.nlinks = inode[i].nlinks
    BY <1>1 DEF RawInode, Raw
<1>3. inode' = [inode EXCEPT ![i] = r] /\ r # Uncached
    BY <1>2, StoreFacts DEF Setattr
<1>. HIDE DEF r
<1>4. Truncated(i, n) \in [Page -> Data \cup {Uncached}]
    <2>1. ASSUME NEW q \in Page, page[i][q] # Uncached
          PROVE  [o \in Block |-> IF q * PageBlocks + o <= n
                                   THEN page[i][q][o] ELSE 0] \in Data
        <3>1. page[i][q] \in Data
            BY <2>1 DEF TypeOK
        <3>. QED
            BY <3>1 DEF Data
    <2>. QED
        BY <2>1 DEF Truncated
<1>5. TypeOK'
    <2>1. inode' \in [Ino -> RawInode \cup {Uncached}]
        BY <1>2, <1>3 DEF TypeOK
    <2>2. page' \in [Ino -> [Page -> Data \cup {Uncached}]]
        BY <1>4 DEF TypeOK, Setattr
    <2>. QED
        BY <2>1, <2>2 DEF TypeOK, Setattr
<1>6. CountRight(i)'
    BY <1>1, <1>2, <1>3 DEF Setattr, TypeOK, LinkInv, CountRight, Cached
<1>7. ASSUME NEW j \in Ino, j # i
      PROVE  CountRight(j)'
    <2>1. inode'[j] = inode[j]
        BY <1>3, <1>7 DEF TypeOK
    <2>. QED
        BY <1>7, <2>1, Untouched DEF Setattr
<1>. QED
    BY <1>5, <1>6, <1>7 DEF LinkInv

-----------------------------------------------------------------------------
\* What a write-back puts into the database are pages.
LEMMA StoredAllType ==
    ASSUME StoreInv, NEW S
    PROVE  StoredAll(S) \in [Ino -> [Page -> Data]]
<1>1. ASSUME NEW i \in Ino, NEW p \in Page
      PROVE  (IF i \in S /\ <<i, p>> \in pdirty THEN page[i][p] ELSE stored[i][p]) \in Data
    BY <1>1 DEF StoreInv, PageInv, TypeOK
<1>. QED
    BY <1>1 DEF StoredAll

\* Writing back and giving up what is clean or deleted keeps the invariant,
\* when no put fails.
LEMMA StoreWriteBack ==
    ASSUME StoreInv, NEW i \in Ino, NEW p \in Page,
           \/ WritePage(i, p, 0) \/ WriteInode(i, 0) \/ Fsync(i)
           \/ Reclaim(i, p) \/ Evict(i) \/ Free(i, 0)
    PROVE  TypeOK' /\ LinkInv'
<1>. USE DEF StoreInv
<1>1. CASE WritePage(i, p, 0)
    <2>1. page[i][p] \in Data
        BY <1>1 DEF WritePage, PageInv, TypeOK
    <2>2. stored' \in [Ino -> [Page -> Data]]
        BY <1>1, <2>1 DEF WritePage, PutPage, TypeOK
    <2>. QED
        BY <1>1, <2>2 DEF WritePage, TypeOK, LinkInv, CountRight, Cached
<1>2. ASSUME i \in dirty,
             rec' = [rec EXCEPT ![i] = inode[i]], dirty' = dirty \ {i},
             UNCHANGED <<inode, names, held, mounted, nextino>>
      PROVE  rec' \in [Ino -> RawInode] /\ LinkInv'
    <2>1. inode[i] \in RawInode /\ Cached(i)
        BY <1>2 DEF TypeOK, LinkInv, CountRight, Cached
    <2>2. CountRight(i)'
        BY <1>2, <2>1 DEF TypeOK, LinkInv, CountRight, Cached
    <2>3. ASSUME NEW j \in Ino, j # i
          PROVE  CountRight(j)'
        <3>1. rec'[j] = rec[j]
            BY <1>2, <2>3 DEF TypeOK
        <3>. QED
            BY <1>2, <2>3, <3>1, Untouched
    <2>. QED
        BY <1>2, <2>1, <2>2, <2>3 DEF TypeOK, LinkInv
<1>3. CASE WriteInode(i, 0)
    BY <1>2, <1>3 DEF Written, WriteInode, TypeOK
<1>4. CASE Fsync(i)
    <2>1. stored' \in [Ino -> [Page -> Data]]
        BY <1>4, StoredAllType DEF Written, Fsync
    <2>2. CASE i \in dirty
        BY <1>2, <1>4, <2>1, <2>2 DEF Written, Fsync, TypeOK
    <2>3. CASE i \notin dirty
        <3>1. rec' = rec /\ dirty' = dirty
            BY <1>4, <2>3 DEF Written, Fsync
        <3>. QED
            BY <1>4, <2>1, <3>1 DEF Written, Fsync, TypeOK, LinkInv, CountRight, Cached
    <2>. QED
        BY <2>2, <2>3
<1>5. CASE Reclaim(i, p)
    BY <1>5 DEF Reclaim, TypeOK, LinkInv, CountRight, Cached
<1>6. CASE Evict(i)
    <2>1. TypeOK'
        BY <1>6 DEF Evict, TypeOK, NoPages
    <2>2. CountRight(i)'
        BY <1>6, StoreFacts, StoreAssumption
        DEF Evict, TypeOK, LinkInv, CountRight, Cached, FirstIno
    <2>3. ASSUME NEW j \in Ino, j # i
          PROVE  CountRight(j)'
        <3>1. inode'[j] = inode[j]
            BY <1>6, <2>3 DEF TypeOK, Evict
        <3>. QED
            BY <1>6, <2>3, <3>1, Untouched DEF Evict
    <2>. QED
        BY <2>1, <2>2, <2>3 DEF LinkInv
<1>7. CASE Free(i, 0)
    <2>. DEFINE r == Cleared(rec[i])
    <2>1. r \in RawInode /\ r.mode = 0 /\ r.nlinks = 0
        BY StoreAssumption DEF TypeOK, Cleared, Raw, RawInode
    <2>2. rec' = [rec EXCEPT ![i] = r]
        BY <1>7 DEF Free
    <2>. HIDE DEF r
    <2>3. TypeOK'
        BY <1>7, <2>1, <2>2 DEF Free, TypeOK, NoPages
    <2>4. CountRight(i)'
        BY <1>7, <2>1, <2>2, StoreFacts
        DEF Free, TypeOK, LinkInv, CountRight, Cached
    <2>5. ASSUME NEW j \in Ino, j # i
          PROVE  CountRight(j)'
        <3>1. inode'[j] = inode[j] /\ rec'[j] = rec[j]
            BY <1>7, <2>2, <2>5 DEF TypeOK, Free
        <3>. QED
            BY <1>7, <2>5, <3>1, Untouched DEF Free
    <2>. QED
        BY <2>3, <2>4, <2>5 DEF LinkInv
<1>. QED
    BY <1>1, <1>3, <1>4, <1>5, <1>6, <1>7

\* Unmounting writes back everything that must be and frees the deleted.
LEMMA StoreUnmount ==
    ASSUME StoreInv, Unmount
    PROVE  TypeOK' /\ LinkInv'
<1>. USE DEF StoreInv
<1>. DEFINE deleted == {i \in Ino : Cached(i) /\ inode[i].nlinks = 0}
            after(i) == IF i \in deleted    THEN Cleared(rec[i])
                        ELSE IF i \in dirty THEN inode[i]
                        ELSE rec[i]
<1>1. rec' = [i \in Ino |-> after(i)]
    BY DEF Written, Unmount
<1>2. ASSUME NEW i \in Ino
      PROVE  /\ after(i) \in RawInode
             /\ after(i).nlinks = names[i]
             /\ after(i).mode = IF names[i] > 0 THEN 1 ELSE 0
    <2>1. names[i] \in Nat /\ rec[i] \in RawInode /\ CountRight(i)
        BY StoreAssumption DEF TypeOK, LinkInv
    <2>2. CASE i \in deleted
        <3>1. /\ Cleared(rec[i]) \in RawInode
              /\ Cleared(rec[i]).mode = 0 /\ Cleared(rec[i]).nlinks = 0
            BY <2>1, StoreAssumption DEF Cleared, Raw, RawInode
        <3>. QED
            BY <2>1, <2>2, <3>1 DEF CountRight
    <2>3. CASE i \notin deleted /\ i \in dirty
        <3>1. Cached(i) /\ inode[i] \in RawInode
            BY <2>1, <2>3 DEF CountRight, TypeOK, Cached
        <3>. QED
            BY <2>1, <2>3, <3>1 DEF CountRight
    <2>4. CASE i \notin deleted /\ i \notin dirty
        BY <2>1, <2>4 DEF CountRight
    <2>. QED
        BY <2>2, <2>3, <2>4
<1>. HIDE DEF after, deleted
<1>3. rec' \in [Ino -> RawInode]
    BY <1>1, <1>2
<1>4. stored' \in [Ino -> [Page -> Data]]
    BY StoredAllType DEF Written, Unmount
<1>5. TypeOK'
    BY <1>3, <1>4 DEF Written, Unmount, TypeOK, NoPages
<1>6. ASSUME NEW i \in Ino
      PROVE  CountRight(i)'
    <2>1. /\ rec'[i].nlinks = names[i]
          /\ rec'[i].mode = IF names[i] > 0 THEN 1 ELSE 0
        BY <1>1, <1>2
    <2>2. inode'[i] = Uncached /\ dirty' = {} /\ held' = {} /\ names' = names
          /\ nextino' = nextino
        BY DEF Written, Unmount
    <2>. QED
        BY <2>1, <2>2 DEF CountRight, Cached, LinkInv
<1>. QED
    BY <1>5, <1>6 DEF LinkInv

-----------------------------------------------------------------------------
\* Every step leaves pages in memory only with their inodes.
LEMMA StorePages ==
    ASSUME StoreInv, Next, LinkInv', DbErrors = {0}
    PROVE  PageInv'
<1>. USE DEF StoreInv
<1>1. ASSUME NEW i \in Ino, Create(i)
      PROVE  PageInv'
    <2>1. ~Cached(i)
        BY <1>1, StoreFacts DEF Create, LinkInv, CountRight
    <2>. QED
        BY <1>1, <2>1, StoreFacts DEF Create, PageInv, TypeOK, NoPages, Cached
<1>2. ASSUME NEW i \in Ino, AddName(i) \/ RemoveName(i)
      PROVE  PageInv'
    <2>1. Cached(i)'
        BY <1>2 DEF AddName, RemoveName, Relinked, LinkInv, CountRight
    <2>2. \A j \in Ino : j # i => inode'[j] = inode[j]
        BY <1>2 DEF AddName, RemoveName, Relinked, TypeOK
    <2>. QED
        BY <1>2, <2>1, <2>2 DEF AddName, RemoveName, Relinked, PageInv, Cached
<1>3. ASSUME NEW i \in Ino, Iget(i) \/ Open(i) \/ Close(i) \/ Fsync(i)
      PROVE  PageInv'
    <2>1. \A j \in Ino : Cached(j) => inode'[j] = inode[j]
        BY <1>3 DEF Iget, Open, Close, Written, Fsync, TypeOK, Cached
    <2>. QED
        BY <1>3, <2>1 DEF Iget, Open, Close, Written, Fsync, PageInv, PagesOf, Cached
<1>4. ASSUME NEW i \in Ino, Evict(i) \/ Free(i, 0)
      PROVE  PageInv'
    <2>1. \A p \in Page : page'[i][p] = Uncached /\ <<i, p>> \notin pdirty'
        BY <1>4 DEF Evict, Free, NoPages, TypeOK, PagesOf
    <2>2. \A j \in Ino : j # i => page'[j] = page[j] /\ inode'[j] = inode[j]
        BY <1>4 DEF Evict, Free, TypeOK
    <2>3. pdirty' \subseteq pdirty
        BY <1>4 DEF Evict, Free
    <2>. QED
        BY <2>1, <2>2, <2>3 DEF PageInv, Cached
<1>5. ASSUME NEW i \in Ino, NEW p \in Page, Read(i, p)
      PROVE  PageInv'
    <2>1. Cached(i)
        BY <1>5 DEF Read, LinkInv, CountRight
    <2>2. stored[i][p] # Uncached
        BY StoreFacts DEF TypeOK
    <2>3. page' = [page EXCEPT ![i][p] = stored[i][p]] /\ UNCHANGED <<pdirty, inode>>
        BY <1>5 DEF Read
    <2>4. ASSUME NEW j \in Ino, NEW q \in Page
          PROVE  page'[j][q] = IF j = i /\ q = p THEN stored[i][p] ELSE page[j][q]
        BY <2>3 DEF TypeOK
    <2>5. ASSUME NEW j \in Ino, NEW q \in Page
          PROVE  /\ <<j, q>> \in pdirty' => page'[j][q] # Uncached
                 /\ page'[j][q] # Uncached => Cached(j)'
        <3>1. CASE j = i /\ q = p
            BY <3>1, <2>1, <2>2, <2>3, <2>4 DEF Cached
        <3>2. CASE ~(j = i /\ q = p)
            <4>1. page'[j][q] = page[j][q]
                BY <3>2, <2>4
            <4>. QED
                BY <4>1, <2>3 DEF PageInv, Cached
        <3>. QED
            BY <3>1, <3>2
    <2>. QED
        BY <2>5 DEF PageInv
<1>6. ASSUME NEW i \in Ino, NEW p \in Page, Reclaim(i, p)
      PROVE  PageInv'
    <2>1. ASSUME NEW j \in Ino, NEW q \in Page
          PROVE  page'[j][q] = IF j = i /\ q = p THEN Uncached ELSE page[j][q]
        BY <1>6 DEF Reclaim, TypeOK
    <2>2. <<i, p>> \notin pdirty /\ UNCHANGED <<pdirty, inode>>
        BY <1>6 DEF Reclaim
    <2>. QED
        BY <2>1, <2>2 DEF PageInv, Cached
<1>7. ASSUME NEW i \in Ino, NEW p \in Page, WritePage(i, p, 0)
      PROVE  PageInv'
    BY <1>7 DEF WritePage, PageInv, Cached
<1>8. ASSUME NEW i \in Ino, WriteInode(i, 0)
      PROVE  PageInv'
    BY <1>8 DEF Written, WriteInode, PageInv, Cached
<1>9. CASE Unmount \/ Mount
    <2>1. CASE Unmount
        <3>1. \A i \in Ino, p \in Page : page'[i][p] = Uncached
            BY <2>1 DEF Written, Unmount, NoPages
        <3>2. pdirty' = {}
            BY <2>1 DEF Written, Unmount
        <3>. QED
            BY <3>1, <3>2 DEF PageInv
    <2>2. CASE Mount
        BY <2>2 DEF Mount, PageInv, Cached
    <2>. QED
        BY <1>9, <2>1, <2>2
<1>10. ASSUME NEW i \in Ino, NEW n \in Size, Setattr(i, n)
      PROVE  PageInv'
    <2>1. Cached(i) /\ Cached(i)'
        BY <1>10 DEF Setattr, LinkInv, CountRight
    <2>2. \A j \in Ino : j # i => inode'[j] = inode[j] /\ page'[j] = page[j]
        BY <1>10 DEF Setattr, TypeOK
    <2>3. ASSUME NEW p \in Page, <<i, p>> \in pdirty'
          PROVE  page'[i][p] # Uncached
        <3>1. page[i][p] # Uncached /\ ~(p * PageBlocks >= n)
            BY <1>10, <2>3, StoreFacts, StoreAssumption
            DEF Setattr, PageInv, Size
        <3>2. page[i][p] \in Data
            BY <3>1 DEF TypeOK
        <3>. DEFINE w == [o \in Block |-> IF p * PageBlocks + o <= n
                                          THEN page[i][p][o] ELSE 0]
        <3>3. w \in Data
            BY <3>2 DEF Data
        <3>4. page'[i][p] = w
            BY <1>10, <3>1 DEF Setattr, Truncated, TypeOK
        <3>. HIDE DEF w
        <3>. QED
            BY <3>3, <3>4, StoreFacts
    <2>4. pdirty' \subseteq pdirty
        BY <1>10 DEF Setattr
    <2>. QED
        BY <2>1, <2>2, <2>3, <2>4 DEF PageInv, Cached
<1>11. ASSUME NEW i \in Ino, NEW p \in Page, NEW f \in Block,
              NEW l \in f .. PageBlocks, NEW v \in Val, Write(i, p, f, l, v)
       PROVE  PageInv'
    <2>1. Cached(i)'
        BY <1>11 DEF Write, LinkInv, CountRight
    <2>2. \A j \in Ino : j # i => inode'[j] = inode[j] /\ page'[j] = page[j]
        BY <1>11 DEF Write, TypeOK
    <2>3. WriteBegin(i, p) \in Data
        BY StoreFacts DEF WriteBegin, TypeOK
    <2>. DEFINE w == [o \in Block |-> IF o \in f .. l THEN v ELSE WriteBegin(i, p)[o]]
    <2>4. w \in Data
        BY <2>3 DEF Data
    <2>5. page' = [page EXCEPT ![i][p] = w] /\ pdirty' = pdirty \cup {<<i, p>>}
        BY <1>11 DEF Write
    <2>. HIDE DEF w
    <2>6. page'[i][p] # Uncached
        <3>0. page \in [Ino -> [Page -> Data \cup {Uncached}]] /\ i \in Ino /\ p \in Page
            BY DEF TypeOK
        <3>1. page'[i][p] = w
            BY <2>5, <3>0
        <3>. QED
            BY <2>4, <3>1, StoreFacts
    <2>7. \A q \in Page : q # p => page'[i][q] = page[i][q]
        BY <2>5 DEF TypeOK
    <2>8. ASSUME NEW j \in Ino, NEW q \in Page, <<j, q>> # <<i, p>>
          PROVE  /\ page'[j][q] = page[j][q]
                 /\ <<j, q>> \in pdirty' <=> <<j, q>> \in pdirty
        BY <2>2, <2>5, <2>7, <2>8
    <2>9. ASSUME NEW j \in Ino
          PROVE  Cached(j) => Cached(j)'
        BY <2>1, <2>2 DEF Cached
    <2>10. ASSUME NEW j \in Ino, NEW q \in Page
           PROVE  /\ <<j, q>> \in pdirty' => page'[j][q] # Uncached
                  /\ page'[j][q] # Uncached => Cached(j)'
        <3>1. CASE j = i /\ q = p
            BY <2>1, <2>6, <3>1
        <3>2. CASE <<j, q>> # <<i, p>>
            BY <2>8, <2>9, <3>2 DEF PageInv
        <3>. QED
            BY <3>1, <3>2
    <2>. QED
        BY <2>10 DEF PageInv
<1>. QED
    BY <1>1, <1>2, <1>3, <1>4, <1>5, <1>6, <1>7, <1>8, <1>9, <1>10, <1>11
    DEF Next, Background

-----------------------------------------------------------------------------
\* One step of a database that never fails.
LEMMA StoreStep ==
    ASSUME StoreInv, [Next]_vars, DbErrors = {0}
    PROVE  StoreInv'
<1>1. CASE UNCHANGED vars
    BY <1>1 DEF vars, StoreInv, TypeOK, LinkInv, CountRight, PageInv, Cached
<1>2. CASE Next
    <2>1. TypeOK' /\ LinkInv'
        <3>1. ASSUME NEW i \in Ino,
                     Create(i) \/ AddName(i) \/ RemoveName(i) \/ Iget(i) \/ Open(i) \/ Close(i)
              PROVE  TypeOK' /\ LinkInv'
            BY <3>1, StoreNames
        <3>2. ASSUME NEW i \in Ino, NEW n \in Size, Setattr(i, n)
              PROVE  TypeOK' /\ LinkInv'
            BY <3>2, SetattrKeeps
        <3>3. ASSUME NEW i \in Ino, NEW p \in Page, Read(i, p)
              PROVE  TypeOK' /\ LinkInv'
            BY <3>3, ReadKeeps
        <3>4. ASSUME NEW i \in Ino, NEW p \in Page, NEW f \in Block,
                     NEW l \in f .. PageBlocks, NEW v \in Val, Write(i, p, f, l, v)
              PROVE  TypeOK' /\ LinkInv'
            BY <3>4, WriteKeeps
        <3>5. ASSUME NEW i \in Ino, NEW p \in Page, WritePage(i, p, 0) \/ Reclaim(i, p)
              PROVE  TypeOK' /\ LinkInv'
            BY <3>5, StoreWriteBack
        <3>6. ASSUME NEW i \in Ino, WriteInode(i, 0) \/ Fsync(i) \/ Evict(i) \/ Free(i, 0)
              PROVE  TypeOK' /\ LinkInv'
            <4>1. 0 \in Page
                BY StoreAssumption DEF Page
            <4>. QED
                BY <3>6, <4>1, StoreWriteBack
        <3>7. CASE Unmount
            BY <3>7, StoreUnmount
        <3>8. CASE Mount
            BY <3>8 DEF Mount, StoreInv, TypeOK, LinkInv, CountRight, Cached
        <3>. QED
            BY <1>2, <3>1, <3>2, <3>3, <3>4, <3>5, <3>6, <3>7, <3>8 DEF Next, Background
    <2>. QED
        BY <1>2, <2>1, StorePages DEF StoreInv
<1>. QED
    BY <1>1, <1>2

\* When no get or put fails, every state is well typed ...
THEOREM StoreTypeCorrect == ASSUME DbErrors = {0} PROVE Spec => []TypeOK
<1>1. StoreInv /\ [Next]_vars => StoreInv'
    BY StoreStep
<1>2. StoreInv => TypeOK
    BY DEF StoreInv
<1>. QED
    BY <1>1, <1>2, StoreInit, PTL DEF Spec

\* ... and the link count of an inode with names is their number, wherever it
\* is read from, however write-back, eviction, unmount and mount interleave.
THEOREM StoreKeepsLinks == ASSUME DbErrors = {0} PROVE Spec => []LinksKept
<1>1. StoreInv /\ [Next]_vars => StoreInv'
    BY StoreStep
<1>2. StoreInv => LinksKept
    <2>. SUFFICES ASSUME StoreInv, NEW i \in Ino, names[i] > 0
                  PROVE  RawOf(i).mode = 1 /\ RawOf(i).nlinks = names[i]
        BY DEF LinksKept
    <2>1. CountRight(i)
        BY DEF StoreInv, LinkInv
    <2>. QED
        BY <2>1 DEF CountRight, RawOf
<1>. QED
    BY <1>1, <1>2, StoreInit, PTL DEF Spec

\* A deleted inode that has left the cache is cleared in the database for good.
THEOREM StoreClearsDeleted == ASSUME DbErrors = {0} PROVE Spec => []DeletedCleared
<1>1. StoreInv /\ [Next]_vars => StoreInv'
    BY StoreStep
<1>2. StoreInv => DeletedCleared
    <2>. SUFFICES ASSUME StoreInv, NEW i \in Ino, names[i] = 0, ~Cached(i)
                  PROVE  rec[i].mode = 0 /\ rec[i].nlinks = 0
        BY DEF DeletedCleared
    <2>1. CountRight(i)
        BY DEF StoreInv, LinkInv
    <2>. QED
        BY <2>1 DEF CountRight
<1>. QED
    BY <1>1, <1>2, StoreInit, PTL DEF Spec

-----------------------------------------------------------------------------
\* If a page of the cache is clean, block o of it is the one in the database.
Clean(i, p, o) == CleanPage(i, p) => page[i][p][o] = stored[i][p][o]

\* What a step leaves of a block.
BlockKept(i, p, o) == DataOf(i, p)'[o] = DataOf(i, p)[o]

\* A step that leaves a page alone, in memory and in the database.
LEMMA PageAlone ==
    ASSUME NEW i \in Ino, NEW p \in Page, NEW o \in Block, Clean(i, p, o),
           page'[i][p] = page[i][p], stored'[i][p] = stored[i][p],
           <<i, p>> \in pdirty' <=> <<i, p>> \in pdirty
    PROVE  Clean(i, p, o)' /\ BlockKept(i, p, o)
BY DEF Clean, CleanPage, BlockKept, DataOf

\* Writing a page back if it is dirty.
LEMMA PageWritten ==
    ASSUME PageInv, NEW i \in Ino, NEW p \in Page, NEW o \in Block, Clean(i, p, o),
           page'[i][p] \in {page[i][p], Uncached},
           stored'[i][p] = IF <<i, p>> \in pdirty THEN page[i][p] ELSE stored[i][p]
    PROVE  Clean(i, p, o)' /\ BlockKept(i, p, o)
BY DEF PageInv, Clean, CleanPage, BlockKept, DataOf

\* The pages after each step of the background.
LEMMA BackgroundPages ==
    ASSUME StoreInv, NEW i \in Ino, NEW p \in Page,
           \/ Iget(i) \/ Evict(i) \/ Fsync(i) \/ Open(i) \/ Close(i)
           \/ Read(i, p) \/ Reclaim(i, p) \/ WritePage(i, p, 0) \/ WriteInode(i, 0)
           \/ Mount,
           NEW j \in Ino, NEW q \in Page, NEW o \in Block,
           Clean(j, q, o)
    PROVE  Clean(j, q, o)' /\ BlockKept(j, q, o)
<1>. USE DEF StoreInv
<1>1. CASE Iget(i) \/ Open(i) \/ Close(i) \/ WriteInode(i, 0) \/ Mount
    BY <1>1, PageAlone DEF Iget, Open, Close, WriteInode, Mount
<1>2. CASE Fsync(i)
    <2>1. /\ page' = page /\ pdirty' = pdirty \ PagesOf(i)
          /\ stored'[j][q] = IF j = i /\ <<j, q>> \in pdirty THEN page[j][q] ELSE stored[j][q]
        BY <1>2 DEF Fsync, StoredAll
    <2>2. CASE j = i
        BY <2>1, <2>2, PageWritten
    <2>3. CASE j # i
        BY <2>1, <2>3, PageAlone DEF PagesOf
    <2>. QED
        BY <2>2, <2>3
<1>3. CASE Evict(i)
    <2>1. /\ stored' = stored /\ pdirty' = pdirty /\ pdirty \cap PagesOf(i) = {}
          /\ page'[j][q] = IF j = i THEN Uncached ELSE page[j][q]
        BY <1>3 DEF Evict, NoPages, TypeOK
    <2>2. CASE j = i
        <3>1. <<j, q>> \notin pdirty
            BY <2>1, <2>2 DEF PagesOf
        <3>. QED
            BY <2>1, <2>2, <3>1, PageWritten
    <2>3. CASE j # i
        BY <2>1, <2>3, PageAlone
    <2>. QED
        BY <2>2, <2>3
<1>4. CASE Read(i, p)
    <2>1. /\ stored' = stored /\ pdirty' = pdirty /\ page[i][p] = Uncached
          /\ page'[j][q] = IF j = i /\ q = p THEN stored[j][q] ELSE page[j][q]
        BY <1>4 DEF Read, TypeOK
    <2>2. CASE j = i /\ q = p
        BY <2>1, <2>2 DEF Clean, CleanPage, BlockKept, DataOf
    <2>3. CASE ~(j = i /\ q = p)
        BY <2>1, <2>3, PageAlone
    <2>. QED
        BY <2>2, <2>3
<1>5. CASE Reclaim(i, p)
    <2>1. /\ stored' = stored /\ pdirty' = pdirty /\ <<i, p>> \notin pdirty
          /\ page'[j][q] = IF j = i /\ q = p THEN Uncached ELSE page[j][q]
        BY <1>5 DEF Reclaim, TypeOK
    <2>2. CASE j = i /\ q = p
        BY <2>1, <2>2, PageWritten
    <2>3. CASE ~(j = i /\ q = p)
        BY <2>1, <2>3, PageAlone
    <2>. QED
        BY <2>2, <2>3
<1>6. CASE WritePage(i, p, 0)
    <2>1. /\ page' = page /\ pdirty' = pdirty \ {<<i, p>>} /\ <<i, p>> \in pdirty
          /\ stored'[j][q] = IF j = i /\ q = p THEN page[j][q] ELSE stored[j][q]
        BY <1>6 DEF WritePage, PutPage, TypeOK
    <2>2. CASE j = i /\ q = p
        BY <2>1, <2>2, PageWritten
    <2>3. CASE ~(j = i /\ q = p)
        BY <2>1, <2>3, PageAlone
    <2>. QED
        BY <2>2, <2>3
<1>. QED
    BY <1>1, <1>2, <1>3, <1>4, <1>5, <1>6

\* Unmounting keeps the pages of every file that has a name.
LEMMA UnmountPages ==
    ASSUME StoreInv, Unmount, NEW j \in Ino, NEW q \in Page, NEW o \in Block,
           Clean(j, q, o)
    PROVE  Clean(j, q, o)' /\ (names[j] > 0 => BlockKept(j, q, o))
<1>. USE DEF StoreInv
<1>1. page'[j][q] = Uncached
    BY DEF Unmount, NoPages
<1>2. Clean(j, q, o)'
    BY <1>1 DEF Clean, CleanPage
<1>3. ASSUME names[j] > 0
      PROVE  BlockKept(j, q, o)
    <2>1. CountRight(j) /\ names[j] \in Nat
        BY StoreAssumption DEF LinkInv, TypeOK
    <2>2. ~(Cached(j) /\ inode[j].nlinks = 0)
        BY <1>3, <2>1 DEF CountRight
    <2>3. stored'[j][q] = IF <<j, q>> \in pdirty THEN page[j][q] ELSE stored[j][q]
        BY <2>2 DEF Unmount, StoredAll
    <2>. QED
        BY <1>1, <2>3, PageWritten
<1>. QED
    BY <1>2, <1>3

\* Reading, writing back, reclaiming, evicting, unmounting and mounting change
\* no block of a file that has a name, if it is clean or its page dirty.
LEMMA BackgroundKeeps ==
    ASSUME StoreInv, Background, DbErrors = {0},
           NEW j \in Ino, NEW q \in Page, NEW o \in Block, Clean(j, q, o)
    PROVE  Clean(j, q, o)' /\ (names[j] > 0 => BlockKept(j, q, o))
<1>1. Clean(j, q, o)
    OBVIOUS
<1>2. CASE Unmount
    BY <1>1, <1>2, UnmountPages
<1>3. CASE Mount
    BY <1>1, <1>3, BackgroundPages
<1>4. ASSUME NEW i \in Ino,
             Iget(i) \/ Evict(i) \/ Fsync(i) \/ Open(i) \/ Close(i) \/ WriteInode(i, 0)
      PROVE  Clean(j, q, o)' /\ BlockKept(j, q, o)
    BY <1>1, <1>4, BackgroundPages
<1>5. ASSUME NEW i \in Ino, NEW p \in Page,
             Read(i, p) \/ Reclaim(i, p) \/ WritePage(i, p, 0)
      PROVE  Clean(j, q, o)' /\ BlockKept(j, q, o)
    BY <1>1, <1>5, BackgroundPages
<1>. QED
    BY <1>2, <1>3, <1>4, <1>5 DEF Background

\* Setting a size leaves the blocks below it in pages that stay in memory.
LEMMA SetattrPages ==
    ASSUME StoreInv, NEW i \in Ino, NEW n \in Size, Setattr(i, n),
           NEW j \in Ino, NEW q \in Page, NEW o \in Block, Clean(j, q, o),
           j = i => Within(q, o, n)
    PROVE  Clean(j, q, o)'
<1>. USE DEF StoreInv
<1>1. stored' = stored /\ pdirty' = {r \in pdirty : r[1] = i => r[2] * PageBlocks < n}
    BY DEF Setattr
<1>2. CASE j # i
    BY <1>1, <1>2 DEF Setattr, Clean, CleanPage, TypeOK
<1>3. CASE j = i
    <2>2. page'[j][q] = Truncated(i, n)[q]
        BY <1>3 DEF Setattr, TypeOK
    <2>3. CASE page[j][q] = Uncached \/ q * PageBlocks >= n
        BY <1>3, <2>2, <2>3 DEF Truncated, Clean, CleanPage
    <2>4. CASE page[j][q] # Uncached /\ ~(q * PageBlocks >= n)
        <3>1. PageBlocks \in Nat \ {0} /\ q \in Nat /\ n \in Int
            BY StoreAssumption DEF Page, Size
        <3>2. page'[j][q] = [b \in Block |-> IF q * PageBlocks + b <= n
                                            THEN page[i][q][b] ELSE 0]
            BY <1>3, <2>2, <2>4 DEF Truncated
        <3>3. page'[j][q][o] = page[j][q][o]
            BY <1>3, <3>2 DEF Within
        <3>4. <<j, q>> \in pdirty' <=> <<j, q>> \in pdirty
            BY <1>1, <1>3, <2>4, <3>1
        <3>. QED
            BY <1>1, <2>4, <3>3, <3>4 DEF Clean, CleanPage
    <2>. QED
        BY <2>3, <2>4
<1>. QED
    BY <1>2, <1>3

\* The other steps leave clean pages as they are.
LEMMA ForegroundPages ==
    ASSUME StoreInv, NEW i \in Ino, NEW p \in Page,
           \/ Create(i) \/ AddName(i) \/ RemoveName(i) \/ Free(i, 0)
           \/ \E f \in Block : \E l \in f .. PageBlocks, v \in Val : Write(i, p, f, l, v),
           NEW j \in Ino, NEW q \in Page, NEW o \in Block,
           Clean(j, q, o)
    PROVE  Clean(j, q, o)'
<1>. USE DEF StoreInv
<1>1. CASE AddName(i) \/ RemoveName(i)
    BY <1>1, PageAlone DEF AddName, RemoveName, Relinked
<1>2. CASE Create(i)
    <2>1. /\ stored' = stored /\ pdirty' = pdirty
          /\ page'[j][q] = IF j = i THEN Uncached ELSE page[j][q]
        BY <1>2 DEF Create, NoPages, TypeOK
    <2>. QED
        BY <2>1 DEF Clean, CleanPage
<1>3. CASE Free(i, 0)
    <2>1. /\ stored' = stored /\ pdirty' = pdirty \ PagesOf(i)
          /\ page'[j][q] = IF j = i THEN Uncached ELSE page[j][q]
        BY <1>3 DEF Free, NoPages, TypeOK
    <2>2. j # i => (<<j, q>> \in pdirty' <=> <<j, q>> \in pdirty)
        BY <2>1 DEF PagesOf
    <2>. QED
        BY <2>1, <2>2 DEF Clean, CleanPage
<1>4. ASSUME NEW f \in Block, NEW l \in f .. PageBlocks, NEW v \in Val,
             Write(i, p, f, l, v)
      PROVE  Clean(j, q, o)'
    <2>1. stored' = stored /\ pdirty' = pdirty \cup {<<i, p>>}
        BY <1>4 DEF Write
    <2>2. ~(j = i /\ q = p) => page'[j][q] = page[j][q]
        BY <1>4 DEF Write, TypeOK
    <2>. QED
        BY <2>1, <2>2 DEF Clean, CleanPage
<1>. QED
    BY <1>1, <1>2, <1>3, <1>4

\* One step, whichever it is, leaves the clean pages those of the database,
\* but for what it or an earlier one has cut off.
LEMMA CleanStep ==
    ASSUME StoreInv, CleanStored, HistNext, DbErrors = {0}
    PROVE  CleanStored'
<1>. SUFFICES ASSUME NEW j \in Ino, NEW q \in Page, NEW o \in Block,
                     CleanPage(j, q)', <<j, q, o>> \notin cut'
              PROVE  Clean(j, q, o)'
    BY DEF CleanStored, Clean, CleanPage
<1>0. <<j, q, o>> \notin cut \cup CutOff
    BY DEF HistNext
<1>1. Clean(j, q, o)
    BY <1>0 DEF CleanStored, Clean
<1>3. CASE Background
    BY <1>1, <1>3, BackgroundKeeps
<1>4. ASSUME NEW i \in Ino, Create(i) \/ AddName(i) \/ RemoveName(i) \/ Free(i, 0)
      PROVE  Clean(j, q, o)'
    BY <1>1, <1>4, ForegroundPages
<1>5. ASSUME NEW i \in Ino, NEW n \in Size, Setattr(i, n)
      PROVE  Clean(j, q, o)'
    <2>1. j = i => Within(q, o, n)
        BY <1>0, <1>5 DEF CutOff
    <2>. QED
        BY <1>1, <1>5, <2>1, SetattrPages
<1>6. ASSUME NEW i \in Ino, NEW p \in Page, NEW v \in Val, NEW f \in Block,
             NEW l \in f .. PageBlocks, Write(i, p, f, l, v)
      PROVE  Clean(j, q, o)'
    BY <1>1, <1>6, ForegroundPages
<1>. QED
    BY <1>3, <1>4, <1>5, <1>6 DEF HistNext, Next

-----------------------------------------------------------------------------
\* The size of inode i in the database, if it must be the one in memory.
SizeRight(i) == Cached(i) /\ i \notin dirty \cup lag => rec[i].size = inode[i].size

\* A step that changes inode and record of j in neither memory nor database.
LEMMA SizeAlone ==
    ASSUME NEW j \in Ino, SizeRight(j), HistNext,
           Cached(j)' => inode'[j] = inode[j],
           rec'[j] = rec[j], dirty' = dirty \/ (j \in dirty' <=> j \in dirty)
    PROVE  SizeRight(j)'
BY DEF SizeRight, HistNext, Cached

\* Every step leaves the sizes of clean inodes those of the database, but for
\* what a write has moved.
LEMMA SizeStep ==
    ASSUME StoreInv, SizeStored, HistNext, DbErrors = {0}
    PROVE  SizeStored'
<1>. USE DEF StoreInv
<1>. SUFFICES ASSUME NEW j \in Ino PROVE SizeRight(j)'
    BY DEF SizeStored, SizeRight, Cached
<1>0. SizeRight(j)
    BY DEF SizeStored, SizeRight
<1>1. ASSUME NEW i \in Ino, Iget(i)
      PROVE  SizeRight(j)'
    <2>1. j # i => inode'[j] = inode[j]
        BY <1>1 DEF Iget, TypeOK
    <2>2. j = i => inode'[j] = rec[j]
        BY <1>1 DEF Iget, TypeOK
    <2>3. rec' = rec /\ dirty' = dirty
        BY <1>1 DEF Iget
    <2>4. CASE j = i
        BY <2>2, <2>3, <2>4 DEF SizeRight
    <2>. QED
        BY <1>0, <2>1, <2>3, <2>4, SizeAlone
<1>2. ASSUME NEW i \in Ino, Create(i) \/ AddName(i) \/ RemoveName(i)
      PROVE  SizeRight(j)'
    <2>1. rec' = rec /\ dirty' = dirty \cup {i}
        BY <1>2 DEF Create, AddName, RemoveName, Relinked
    <2>2. j # i => inode'[j] = inode[j]
        BY <1>2 DEF Create, AddName, RemoveName, Relinked, TypeOK
    <2>3. CASE j = i
        BY <2>1, <2>3 DEF SizeRight
    <2>. QED
        BY <1>0, <2>1, <2>2, <2>3, SizeAlone
<1>3. ASSUME NEW i \in Ino, NEW n \in Size, Setattr(i, n)
      PROVE  SizeRight(j)'
    <2>1. rec' = rec /\ dirty' = dirty \cup {i}
        BY <1>3 DEF Setattr
    <2>2. j # i => inode'[j] = inode[j]
        BY <1>3 DEF Setattr, TypeOK
    <2>3. CASE j = i
        BY <2>1, <2>3 DEF SizeRight
    <2>. QED
        BY <1>0, <2>1, <2>2, <2>3, SizeAlone
<1>4. ASSUME NEW i \in Ino, NEW p \in Page, NEW v \in Val, NEW f \in Block,
             NEW l \in f .. PageBlocks, Write(i, p, f, l, v)
      PROVE  SizeRight(j)'
    <2>1. rec' = rec /\ (dirty' = dirty \/ dirty' = dirty \cup {i})
        BY <1>4 DEF Write
    <2>2. j # i => inode'[j] = inode[j]
        BY <1>4 DEF Write, TypeOK
    <2>3. ASSUME j = i, Cached(j)', j \notin dirty' \cup lag'
          PROVE  rec'[j].size = inode'[j].size
        <3>1. Cached(i)
            BY <1>4 DEF Write, LinkInv, CountRight
        <3>2. j \notin lag \cup Grown
            BY <2>3 DEF HistNext
        <3>3. inode'[j].size = inode[j].size
            BY <1>4, <2>3, <3>2 DEF Grown
        <3>. QED
            BY <1>0, <2>1, <2>3, <3>1, <3>2, <3>3 DEF SizeRight
    <2>. QED
        BY <1>0, <2>1, <2>2, <2>3, SizeAlone DEF SizeRight
<1>5. ASSUME NEW i \in Ino, Evict(i) \/ Free(i, 0)
      PROVE  SizeRight(j)'
    <2>1. j # i => inode'[j] = inode[j] /\ rec'[j] = rec[j] /\ (j \in dirty' <=> j \in dirty)
        BY <1>5 DEF Evict, Free, TypeOK
    <2>2. CASE j = i
        BY <1>5, <2>2 DEF Evict, Free, TypeOK, SizeRight, Cached
    <2>. QED
        BY <1>0, <2>1, <2>2, SizeAlone
<1>6. ASSUME NEW i \in Ino, WriteInode(i, 0) \/ Fsync(i)
      PROVE  SizeRight(j)'
    <2>1. /\ inode' = inode /\ dirty' = dirty \ {i}
          /\ rec'[j] = IF j = i /\ i \in dirty THEN inode[j] ELSE rec[j]
        BY <1>6 DEF WriteInode, Fsync, Written, TypeOK
    <2>2. CASE j = i /\ i \in dirty
        BY <2>1, <2>2 DEF SizeRight
    <2>. QED
        BY <1>0, <2>1, <2>2, SizeAlone
<1>7. ASSUME UNCHANGED <<rec, inode, dirty>>
      PROVE  SizeRight(j)'
    BY <1>0, <1>7, SizeAlone
<1>8. ASSUME NEW i \in Ino, NEW p \in Page,
             Open(i) \/ Close(i) \/ Read(i, p) \/ Reclaim(i, p) \/ WritePage(i, p, 0)
      PROVE  SizeRight(j)'
    BY <1>7, <1>8 DEF Open, Close, Read, Reclaim, WritePage
<1>9. CASE Unmount
    BY <1>9 DEF Unmount, SizeRight, Cached
<1>10. CASE Mount
    BY <1>7, <1>10 DEF Mount
<1>11. 0 \in Page
    BY StoreAssumption DEF Page
<1>. QED
    BY <1>1, <1>2, <1>3, <1>4, <1>5, <1>6, <1>8, <1>9, <1>10, <1>11
    DEF HistNext, Next, Background

\* The size read from a file that has a name survives the background's steps.
LEMMA BackgroundSizes ==
    ASSUME StoreInv, SizeStored, Background, DbErrors = {0},
           NEW j \in Ino, names[j] > 0, j \notin lag
    PROVE  RawOf(j)'.size = RawOf(j).size
<1>. USE DEF StoreInv
<1>0. SizeRight(j)
    BY DEF SizeStored, SizeRight
<1>1. ASSUME NEW i \in Ino, Iget(i)
      PROVE  RawOf(j)' = RawOf(j)
    BY <1>1 DEF Iget, TypeOK, RawOf, Cached
<1>2. ASSUME NEW i \in Ino, Evict(i)
      PROVE  RawOf(j)'.size = RawOf(j).size
    <2>1. rec' = rec /\ i \notin dirty /\ (j # i => inode'[j] = inode[j])
          /\ (j = i => Cached(j) /\ inode'[j] = Uncached)
        BY <1>2 DEF Evict, TypeOK
    <2>. QED
        BY <1>0, <2>1 DEF RawOf, SizeRight, Cached
<1>3. ASSUME NEW i \in Ino, WriteInode(i, 0) \/ Fsync(i)
      PROVE  RawOf(j)' = RawOf(j)
    <2>1. /\ inode' = inode
          /\ rec'[j] = IF j = i /\ i \in dirty THEN inode[j] ELSE rec[j]
        BY <1>3 DEF WriteInode, Fsync, Written, TypeOK
    <2>2. i \in dirty => Cached(i)
        BY DEF LinkInv, CountRight
    <2>. QED
        BY <2>1, <2>2 DEF RawOf, Cached
<1>4. ASSUME UNCHANGED <<rec, inode>>
      PROVE  RawOf(j)' = RawOf(j)
    BY <1>4 DEF RawOf, Cached
<1>5. ASSUME NEW i \in Ino, NEW p \in Page,
             Open(i) \/ Close(i) \/ Read(i, p) \/ Reclaim(i, p) \/ WritePage(i, p, 0)
      PROVE  RawOf(j)' = RawOf(j)
    BY <1>4, <1>5 DEF Open, Close, Read, Reclaim, WritePage
<1>6. CASE Mount
    BY <1>4, <1>6 DEF Mount
<1>7. CASE Unmount
    <2>1. CountRight(j) /\ names[j] \in Nat
        BY StoreAssumption DEF LinkInv, TypeOK
    <2>2. ~(Cached(j) /\ inode[j].nlinks = 0)
        BY <2>1 DEF CountRight
    <2>3. rec'[j] = IF j \in dirty THEN inode[j] ELSE rec[j]
        BY <1>7, <2>2 DEF Unmount, Written
    <2>4. ~Cached(j)' /\ (j \in dirty => Cached(j))
        BY <1>7, <2>1 DEF Unmount, CountRight, Cached
    <2>. QED
        BY <1>0, <2>3, <2>4 DEF RawOf, SizeRight
<1>8. 0 \in Page
    BY StoreAssumption DEF Page
<1>. QED
    BY <1>1, <1>2, <1>3, <1>5, <1>6, <1>7, <1>8 DEF Background

\* What is read from a file that has a name survives every step that is not an
\* operation on it: reading, write-back, reclaim, eviction, unmount and mount,
\* whatever sizes are set, when no get or put fails.  Only a size that a write
\* has moved without marking the inode dirty, and blocks that a smaller size
\* has cut off without marking their page dirty, are not claimed.
THEOREM StoreKeepsData ==
    ASSUME DbErrors = {0}
    PROVE  HistSpec => DataKept
<1>. DEFINE Inv == StoreInv /\ CleanStored /\ SizeStored
<1>1. HistInit => Inv
    BY StoreInit DEF HistInit, Init, CleanStored, CleanPage, SizeStored, Cached
<1>2. Inv /\ [HistNext]_histvars => Inv'
    <2>1. ASSUME Inv, HistNext
          PROVE  Inv'
        <3>1. StoreInv'
            BY <2>1, StoreStep DEF HistNext
        <3>. QED
            BY <2>1, <3>1, CleanStep, SizeStep
    <2>2. ASSUME Inv, UNCHANGED histvars
          PROVE  Inv'
        <3>1. StoreInv'
            BY <2>2, StoreStep DEF histvars
        <3>. QED
            BY <2>2, <3>1 DEF histvars, vars, CleanStored, CleanPage, SizeStored, Cached
    <2>. QED
        BY <2>1, <2>2
<1>3. Inv /\ [HistNext]_histvars => [Background => FilesKept]_vars
    <2>. SUFFICES ASSUME Inv, Background, NEW i \in Ino, names[i] > 0
                  PROVE  /\ i \notin lag => RawOf(i)'.size = RawOf(i).size
                         /\ \A p \in Page, o \in Block : <<i, p, o>> \notin cut =>
                                DataOf(i, p)'[o] = DataOf(i, p)[o]
        BY DEF FilesKept
    <2>1. i \notin lag => RawOf(i)'.size = RawOf(i).size
        BY BackgroundSizes
    <2>2. ASSUME NEW p \in Page, NEW o \in Block, <<i, p, o>> \notin cut
          PROVE  DataOf(i, p)'[o] = DataOf(i, p)[o]
        <3>1. Clean(i, p, o)
            BY <2>2 DEF CleanStored, Clean
        <3>. QED
            BY <3>1, BackgroundKeeps DEF BlockKept
    <2>. QED
        BY <2>1, <2>2
<1>. QED
    BY <1>1, <1>2, <1>3, PTL DEF HistSpec, DataKept
=============================================================================
