------------------------ MODULE GbfsReaddirTheorems ------------------------
(***************************************************************************)
(* gbfs_readdir returns what stays in a directory exactly once, for every  *)
(* directory size, buffer size and set of page faults.                     *)
(***************************************************************************)
EXTENDS GbfsReaddir, GbfsDirTheorems, FiniteSetTheorems

\* What a scan that has skipped no page knows of slot k: it was not returned
\* if it lies ahead; if it has been in use all the time, it was returned
\* exactly once when it lies behind, and at the end it does lie behind.
SlotRight(k) ==
    whole =>
        /\ given[k] <= 1
        /\ k > pos => given[k] = 0
        /\ k \in kept =>
              /\ Used(k)
              /\ k <= pos => given[k] = 1
              /\ eof => k <= pos

\* The inductive invariant.
ScanInv ==
    /\ TypeOK
    /\ pos <= Len(es)
    /\ \A k \in SlotNo : SlotRight(k)

\* The slots of this directory, in the terms of GbfsDirTheorems.
Entries == Slots({0, Self}, Name \cup {Dot, DotDot})

LEMMA DirectoryType ==
    ASSUME TypeOK
    PROVE  /\ es \in Seq(Entries) /\ DOMAIN es = 1 .. Len(es)
           /\ Len(es) \in Nat /\ pos \in Nat
<1>1. es \in Seq(Entries)
    BY DEF TypeOK, Entries, Slots
<1>. QED
    BY <1>1, ReaddirAssumption DEF TypeOK

-----------------------------------------------------------------------------
(***************************************************************************)
(* What one call passes                                                    *)
(***************************************************************************)

\* A call moves ctx->pos forward, and never past the end of the directory.
LEMMA AdvanceBound ==
    ASSUME Len(es) \in Nat, NEW p \in 0 .. Len(es), NEW room, NEW bad
    PROVE  /\ Advance(p, room, bad) \in p .. Len(es)
           /\ IsFiniteSet(Readable(p, bad))
           /\ IsFiniteSet(Passed(p, room, bad))
<1>. DEFINE R == p + 1 .. Len(es)
<1>1. IsFiniteSet(R) /\ Cardinality(R) = Len(es) - p
    <2>1. p + 1 \in Int /\ Len(es) \in Int /\ p <= Len(es)
        OBVIOUS
    <2>2. /\ IsFiniteSet(R)
          /\ Cardinality(R) = IF p + 1 > Len(es) THEN 0 ELSE Len(es) - (p + 1) + 1
        BY <2>1, FS_Interval
    <2>. QED
        BY <2>1, <2>2
<1>2. Readable(p, bad) \in SUBSET R
    BY DEF Readable
<1>3. Passed(p, room, bad) \in SUBSET R
    BY <1>2 DEF Passed
<1>4. /\ IsFiniteSet(Readable(p, bad))
      /\ IsFiniteSet(Passed(p, room, bad))
      /\ Cardinality(Passed(p, room, bad)) <= Cardinality(R)
    BY <1>1, <1>2, <1>3, FS_Subset
<1>5. Cardinality(Passed(p, room, bad)) \in Nat
    BY <1>4, FS_CardinalityType
<1>. QED
    BY <1>1, <1>4, <1>5 DEF Advance

\* If no page is skipped, the slots passed are those up to the new ctx->pos.
LEMMA PassedIsInterval ==
    ASSUME Len(es) \in Nat, NEW p \in 0 .. Len(es), NEW room \in Nat, NEW bad,
           ~Skips(p, bad)
    PROVE  Passed(p, room, bad) = p + 1 .. Advance(p, room, bad)
<1>. DEFINE R == p + 1 .. Len(es)
            S == Passed(p, room, bad)
            B(k) == {j \in R : j <= k /\ Used(j)}
<1>1. Readable(p, bad) = R
    BY DEF Readable, Skips
<1>2. S = {k \in R : Cardinality(B(k)) <= room}
    BY <1>1 DEF Passed
<1>3. ASSUME NEW k \in S, NEW j \in R, j <= k
      PROVE  j \in S
    <2>1. k \in R /\ Cardinality(B(k)) <= room
        BY <1>2
    <2>2. IsFiniteSet(R)
        BY FS_Interval
    <2>3. B(k) \in SUBSET R /\ B(j) \in SUBSET B(k)
        BY <1>3, <2>1
    <2>4. IsFiniteSet(B(k)) /\ IsFiniteSet(B(j))
        BY <2>2, <2>3, FS_Subset
    <2>5. Cardinality(B(j)) <= Cardinality(B(k))
        BY <2>3, <2>4, FS_Subset
    <2>6. Cardinality(B(j)) \in Nat /\ Cardinality(B(k)) \in Nat
        BY <2>4, FS_CardinalityType
    <2>. QED
        BY <1>2, <2>1, <2>5, <2>6
<1>4. S \subseteq R
    BY <1>2
<1>. HIDE DEF S, B
<1>5. ASSUME NEW m \in p .. Len(es), S = p + 1 .. m
      PROVE  Advance(p, room, bad) = m
    <2>0. p + 1 \in Int /\ m \in Int /\ p <= m
        OBVIOUS
    <2>1. Cardinality(p + 1 .. m) = IF p + 1 > m THEN 0 ELSE m - (p + 1) + 1
        BY <2>0, FS_Interval
    <2>2. Cardinality(S) = m - p
        BY <1>5, <2>0, <2>1
    <2>. QED
        BY <2>0, <2>2 DEF Advance, S
<1>6. CASE R \subseteq S
    <2>1. S = p + 1 .. Len(es)
        BY <1>4, <1>6
    <2>. QED
        BY <1>5, <2>1 DEF S
<1>7. CASE ~(R \subseteq S)
    <2>. DEFINE m == Min(R \ S)
    <2>1. R \ S \in SUBSET Nat /\ R \ S # {}
        BY <1>7
    <2>2. m \in R \ S /\ \A y \in R \ S : m <= y
        BY <2>1, MinProperty
    <2>. HIDE DEF m
    <2>3. m - 1 \in p .. Len(es)
        BY <2>2
    <2>4. \A j \in R : j \in S <=> j <= m - 1
        BY <1>3, <2>2
    <2>5. S = p + 1 .. m - 1
        <3>1. m \in Int /\ m <= Len(es)
            BY <2>2
        <3>2. \A j : j \in p + 1 .. m - 1 => j \in R
            BY <3>1
        <3>3. \A j \in R : j <= m - 1 <=> j \in p + 1 .. m - 1
            BY <3>1
        <3>. QED
            BY <1>4, <2>4, <3>2, <3>3
    <2>. QED
        BY <1>5, <2>3, <2>5 DEF S
<1>. QED
    BY <1>6, <1>7

\* A call that skips no page returns an entry if there is one ahead.
LEMMA SomethingReturned ==
    ASSUME Len(es) \in Nat, NEW p \in 0 .. Len(es), NEW room \in Nat \ {0},
           NEW bad, ~Skips(p, bad), NEW k \in p + 1 .. Len(es), Used(k)
    PROVE  \E m \in Passed(p, room, bad) : Used(m)
<1>. DEFINE T == {j \in p + 1 .. Len(es) : Used(j)}
            m == Min(T)
<1>1. Readable(p, bad) = p + 1 .. Len(es)
    BY DEF Readable, Skips
<1>2. T \in SUBSET Nat /\ T # {}
    OBVIOUS
<1>3. m \in T /\ \A y \in T : m <= y
    BY <1>2, MinProperty
<1>4. {j \in Readable(p, bad) : j <= m /\ Used(j)} = {m}
    <2>. HIDE DEF m
    <2>. QED
        BY <1>1, <1>3
<1>5. Cardinality({m}) = 1
    BY FS_Singleton
<1>6. m \in Passed(p, room, bad) /\ Used(m)
    <2>1. m \in Readable(p, bad) /\ Used(m) /\ 1 <= room
        BY <1>1, <1>3
    <2>. HIDE DEF m
    <2>2. Cardinality({j \in Readable(p, bad) : j <= m /\ Used(j)}) <= room
        BY <1>4, <1>5, <2>1
    <2>. QED
        BY <2>1, <2>2 DEF Passed
<1>. QED
    BY <1>6

-----------------------------------------------------------------------------
(***************************************************************************)
(* The steps                                                               *)
(***************************************************************************)

\* A call of gbfs_readdir.
LEMMA GetdentsKeeps ==
    ASSUME ScanInv, NEW room \in Room, NEW bad \in PageFaults, Getdents(room, bad)
    PROVE  ScanInv'
<1>. DEFINE S == Passed(pos, room, bad)
<1>0. room \in Nat \ {0}
    BY ReaddirAssumption
<1>1. Len(es) \in Nat /\ pos \in 0 .. Len(es)
    BY DirectoryType DEF ScanInv
<1>2. pos' \in pos .. Len(es)
    BY <1>1, AdvanceBound DEF Getdents
<1>3. Len(es) <= MaxSlots
    BY DEF ScanInv, TypeOK
<1>4. ASSUME NEW k \in SlotNo
      PROVE  given'[k] = IF k \in S /\ Used(k) /\ given[k] < 2
                         THEN given[k] + 1 ELSE given[k]
    BY DEF Getdents
<1>. HIDE DEF S
<1>5. given' \in [SlotNo -> 0 .. 2]
    <2>1. \A k \in SlotNo : given[k] \in 0 .. 2
        BY DEF ScanInv, TypeOK
    <2>2. \A k \in SlotNo : given'[k] \in 0 .. 2
        BY <1>4, <2>1
    <2>3. given' = [k \in SlotNo |-> given'[k]]
        BY DEF Getdents
    <2>. QED
        BY <2>2, <2>3
<1>6. TypeOK'
    <2>1. pos' \in 0 .. MaxSlots
        BY <1>1, <1>2, <1>3, ReaddirAssumption
    <2>2. whole' \in BOOLEAN /\ eof' \in BOOLEAN
        BY DEF Getdents, ScanInv, TypeOK
    <2>3. UNCHANGED <<es, kept>>
        BY DEF Getdents
    <2>. QED
        BY <1>5, <2>1, <2>2, <2>3 DEF ScanInv, TypeOK
<1>7. ASSUME NEW k \in SlotNo, whole'
      PROVE  SlotRight(k)'
    <2>1. whole /\ ~Skips(pos, bad)
        BY <1>7 DEF Getdents, ScanInv, TypeOK
    <2>2. S = pos + 1 .. pos'
        BY <1>0, <1>1, <2>1, PassedIsInterval DEF Getdents, S
    <2>3. SlotRight(k) /\ k \in Nat /\ given[k] \in 0 .. 2
        BY ReaddirAssumption DEF ScanInv, SlotNo, TypeOK
    <2>4. given'[k] <= 1 /\ (k > pos' => given'[k] = 0)
        BY <1>1, <1>2, <1>4, <2>1, <2>2, <2>3 DEF SlotRight
    <2>5. ASSUME k \in kept'
          PROVE  Used(k)' /\ (k <= pos' => given'[k] = 1) /\ (eof' => k <= pos')
        <3>1. k \in kept /\ es' = es /\ k \in 1 .. Len(es)
            BY <2>5, DirectoryType DEF Getdents, ScanInv, TypeOK
        <3>2. Used(k)
            BY <2>1, <2>3, <3>1 DEF SlotRight
        <3>3. Used(k)'
            BY <3>1, <3>2 DEF Used
        <3>4. k <= pos' => given'[k] = 1
            BY <1>1, <1>2, <1>4, <2>1, <2>2, <2>3, <3>1, <3>2 DEF SlotRight
        <3>5. ASSUME eof', ~(k <= pos')
              PROVE  FALSE
            <4>1. k \in pos + 1 .. Len(es)
                BY <1>1, <1>2, <3>1, <3>5
            <4>2. \E j \in S : Used(j)
                BY <1>0, <1>1, <2>1, <3>2, <4>1, SomethingReturned DEF S
            <4>. QED
                BY <3>5, <4>2 DEF Getdents, S
        <3>. QED
            BY <3>3, <3>4, <3>5
    <2>. QED
        BY <2>4, <2>5 DEF SlotRight
<1>8. pos' <= Len(es')
    BY <1>1, <1>2 DEF Getdents
<1>. QED
    BY <1>6, <1>7, <1>8 DEF ScanInv, SlotRight

\* Starting again.
LEMMA RewindKeeps ==
    ASSUME ScanInv, Rewind
    PROVE  ScanInv'
<1>1. Len(es) \in Nat /\ DOMAIN es = 1 .. Len(es)
    BY DirectoryType DEF ScanInv
<1>2. TypeOK'
    <2>1. given' = [k \in SlotNo |-> 0] /\ pos' = 0 /\ es' = es
          /\ whole' = TRUE /\ eof' = FALSE /\ kept' \subseteq DOMAIN es
        BY DEF Rewind
    <2>2. given' \in [SlotNo -> 0 .. 2] /\ pos' \in 0 .. MaxSlots
        BY <2>1, ReaddirAssumption
    <2>. QED
        BY <2>1, <2>2 DEF ScanInv, TypeOK
<1>3. ASSUME NEW k \in SlotNo
      PROVE  SlotRight(k)'
    <2>1. k \in Nat /\ k > 0
        BY DEF SlotNo
    <2>2. pos' = 0 /\ given'[k] = 0 /\ eof' = FALSE
        BY DEF Rewind
    <2>3. k \in kept' => Used(k)'
        BY DEF Rewind, Used
    <2>. QED
        BY <2>1, <2>2, <2>3 DEF SlotRight
<1>. QED
    BY <1>1, <1>2, <1>3 DEF ScanInv, Rewind

\* One slot changes, the others stay.
LEMMA ChangedKeeps ==
    ASSUME ScanInv, NEW k \in SlotNo, Changed(k),
           es' \in Seq(Entries), Len(es') \in Len(es) .. MaxSlots,
           \A j \in 1 .. Len(es) : j # k => es'[j] = es[j]
    PROVE  ScanInv'
<1>1. /\ Len(es) \in Nat /\ DOMAIN es = 1 .. Len(es) /\ pos \in Nat
      /\ Len(es) >= 2 /\ Len(es') \in Nat /\ DOMAIN es' = 1 .. Len(es')
    BY DirectoryType DEF ScanInv, TypeOK
<1>2. TypeOK'
    <2>1. given' \in [SlotNo -> 0 .. 2] /\ UNCHANGED <<pos, whole, eof>>
        BY DEF Changed, ScanInv, TypeOK
    <2>2. kept' \subseteq DOMAIN es'
        BY <1>1 DEF Changed, ScanInv, TypeOK
    <2>3. Len(es') \in 2 .. MaxSlots
        BY <1>1, ReaddirAssumption
    <2>4. es' \in Seq([ino : {0, Self}, name : Name \cup {Dot, DotDot}])
        BY DEF Entries, Slots
    <2>. QED
        BY <2>1, <2>2, <2>3, <2>4 DEF ScanInv, TypeOK
<1>3. ASSUME NEW j \in SlotNo
      PROVE  SlotRight(j)'
    <2>1. CASE j = k
        BY <2>1 DEF Changed, SlotRight, ScanInv, TypeOK
    <2>2. CASE j # k
        <3>1. given'[j] = given[j] /\ UNCHANGED <<pos, whole, eof>>
            BY <2>2 DEF Changed, ScanInv, TypeOK
        <3>2. j \in kept' => j \in kept /\ (Used(j) => Used(j)')
            BY <1>1, <2>2 DEF Changed, ScanInv, TypeOK, Used
        <3>3. SlotRight(j)
            BY DEF ScanInv
        <3>. QED
            BY <3>1, <3>2, <3>3 DEF SlotRight
    <2>. QED
        BY <2>1, <2>2
<1>4. pos' <= Len(es')
    BY <1>1 DEF Changed, ScanInv
<1>. QED
    BY <1>2, <1>3, <1>4 DEF ScanInv

\* An entry comes.
LEMMA AddKeeps ==
    ASSUME ScanInv, NEW nm \in Name, Add(nm)
    PROVE  ScanInv'
<1>. DEFINE k == AddSlot(es, nm, {})
<1>1. es \in Seq(Entries) /\ Len(es) \in Nat /\ Len(es) <= MaxSlots
    BY DirectoryType DEF ScanInv, TypeOK
<1>2. k \in 0 .. Len(es) + 1
    BY <1>1, AddSlotProperty DEF Entries
<1>3. k \in SlotNo /\ es' = FillSlot(es, k, nm, Self) /\ Changed(k)
    BY DEF Add
<1>. HIDE DEF k
<1>4. k \in 1 .. Len(es) + 1 /\ k <= MaxSlots
    BY <1>1, <1>2, <1>3, ReaddirAssumption DEF SlotNo
<1>5. es' \in Seq(Entries)
    BY <1>1, <1>3, <1>4, FillSlotType DEF Entries
<1>6. Slot(Self, nm) \in Entries
    BY DEF Slot, Slots, Entries
<1>7. /\ Len(es') \in Len(es) .. MaxSlots
      /\ \A j \in 1 .. Len(es) : j # k => es'[j] = es[j]
    <2>1. CASE k = Len(es) + 1
        <3>1. es' = Append(es, Slot(Self, nm))
            BY <1>3, <2>1 DEF FillSlot
        <3>. QED
            BY <1>1, <1>4, <1>6, <2>1, <3>1, ReaddirAssumption
    <2>2. CASE k # Len(es) + 1
        <3>1. es' = [es EXCEPT ![k] = Slot(Self, nm)] /\ k \in 1 .. Len(es)
            BY <1>1, <1>3, <1>4, <2>2 DEF FillSlot
        <3>. QED
            BY <1>1, <1>6, <3>1, ReaddirAssumption
    <2>. QED
        BY <2>1, <2>2
<1>. QED
    BY <1>3, <1>5, <1>7, ChangedKeeps

\* An entry goes.
LEMMA RemoveKeeps ==
    ASSUME ScanInv, NEW nm \in Name, Remove(nm)
    PROVE  ScanInv'
<1>. DEFINE k == FindEntry(es, nm, {})
<1>1. /\ es \in Seq(Entries) /\ Len(es) \in Nat /\ Len(es) <= MaxSlots
      /\ DOMAIN es = 1 .. Len(es)
    BY DirectoryType DEF ScanInv, TypeOK
<1>2. k \in 1 .. Len(es)
    BY <1>1, FindEntryProperty DEF Remove, Entries
<1>3. es' = SetLink(es, k, 0) /\ Changed(k)
    BY DEF Remove, DeleteEntry
<1>. HIDE DEF k
<1>4. k \in SlotNo
    BY <1>1, <1>2, ReaddirAssumption DEF SlotNo
<1>5. es' \in Seq(Entries) /\ Len(es') = Len(es)
    BY <1>1, <1>3, SetLinkType DEF Entries
<1>6. \A j \in 1 .. Len(es) : j # k => es'[j] = es[j]
    BY <1>1, <1>3 DEF SetLink
<1>7. Len(es') \in Len(es) .. MaxSlots
    BY <1>1, <1>5, ReaddirAssumption
<1>. QED
    BY <1>3, <1>4, <1>5, <1>6, <1>7, ChangedKeeps

-----------------------------------------------------------------------------
\* The scan starts right.
LEMMA ScanInit ==
    ASSUME Init
    PROVE  ScanInv
<1>1. Slot(Self, Dot) \in Entries /\ Slot(Self, DotDot) \in Entries
    BY DEF Slot, Slots, Entries
<1>2. /\ es \in Seq(Entries) /\ Len(es) = 2 /\ DOMAIN es = 1 .. 2
      /\ es[1].ino = Self /\ es[2].ino = Self
    BY <1>1 DEF Init, MakeEmpty, Slot
<1>3. TypeOK
    <2>1. es \in Seq([ino : {0, Self}, name : Name \cup {Dot, DotDot}])
        BY <1>2 DEF Entries, Slots
    <2>2. Len(es) \in 2 .. MaxSlots /\ kept \subseteq DOMAIN es
        BY <1>2, ReaddirAssumption DEF Init
    <2>3. given \in [SlotNo -> 0 .. 2] /\ pos \in 0 .. MaxSlots
        BY ReaddirAssumption DEF Init
    <2>4. whole \in BOOLEAN /\ eof \in BOOLEAN
        BY DEF Init
    <2>. QED
        BY <2>1, <2>2, <2>3, <2>4 DEF TypeOK
<1>4. ASSUME NEW k \in SlotNo
      PROVE  SlotRight(k)
    <2>1. k \in Nat /\ k > 0 /\ given[k] = 0 /\ pos = 0 /\ ~eof /\ kept = {1, 2}
        BY DEF Init, SlotNo
    <2>2. k \in kept => Used(k)
        BY <1>2, <2>1 DEF Used, Self
    <2>. QED
        BY <2>1, <2>2 DEF SlotRight
<1>. QED
    BY <1>2, <1>3, <1>4 DEF ScanInv, Init

LEMMA ScanStep ==
    ASSUME ScanInv, [Next]_vars
    PROVE  ScanInv'
<1>1. CASE UNCHANGED vars
    BY <1>1 DEF vars, ScanInv, TypeOK, SlotRight, Used
<1>2. CASE Next
    BY <1>2, GetdentsKeeps, RewindKeeps, AddKeeps, RemoveKeeps DEF Next
<1>. QED
    BY <1>1, <1>2

\* The invariant gives the type and the two properties.
LEMMA ScanConclusions ==
    ASSUME ScanInv
    PROVE  TypeOK /\ GivenOnce /\ ScanComplete
<1>1. TypeOK /\ GivenOnce
    BY DEF ScanInv, SlotRight, GivenOnce
<1>2. kept \subseteq SlotNo
    BY DirectoryType, ReaddirAssumption DEF ScanInv, TypeOK, SlotNo
<1>. QED
    BY <1>1, <1>2 DEF ScanInv, SlotRight, ScanComplete

\* In every reachable state ctx->pos lies within the directory's bound and
\* the slots are well formed.
THEOREM ReaddirTypeCorrect == Spec => []TypeOK
<1>1. Init => ScanInv
    BY ScanInit
<1>2. ScanInv /\ [Next]_vars => ScanInv'
    BY ScanStep
<1>3. ScanInv => TypeOK
    BY ScanConclusions
<1>. QED
    BY <1>1, <1>2, <1>3, PTL DEF Spec

\* No interleaving of readdir calls with additions and removals makes a scan
\* that skips no page return an unchanged slot twice.
THEOREM NothingTwice == Spec => []GivenOnce
<1>1. Init => ScanInv
    BY ScanInit
<1>2. ScanInv /\ [Next]_vars => ScanInv'
    BY ScanStep
<1>3. ScanInv => GivenOnce
    BY ScanConclusions
<1>. QED
    BY <1>1, <1>2, <1>3, PTL DEF Spec

\* Nor does it make such a scan miss an entry that was there all the time.
THEOREM NothingMissed == Spec => []ScanComplete
<1>1. Init => ScanInv
    BY ScanInit
<1>2. ScanInv /\ [Next]_vars => ScanInv'
    BY ScanStep
<1>3. ScanInv => ScanComplete
    BY ScanConclusions
<1>. QED
    BY <1>1, <1>2, <1>3, PTL DEF Spec
=============================================================================
