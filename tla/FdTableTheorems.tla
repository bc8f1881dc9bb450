-------------------------- MODULE FdTableTheorems --------------------------
(***************************************************************************)
(* The descriptor table loses no descriptor, gives none out twice, and     *)
(* never leaves a task with a file that is gone: for every size of the     *)
(* table and any number of tasks.                                          *)
(***************************************************************************)
EXTENDS FdTable, FiniteSetTheorems, TLAPS

\* What a task knows of the file and the descriptor it works with.
OpSound ==
    \A t \in Task :
        /\ op[t].at \in {"get", "use", "light"} \/ Owner(t) => op[t].file \in File
        /\ op[t].at \in {"fget", "get", "light", "store"} => op[t].fd \in Fd
        /\ op[t].at = "light" => ftable[op[t].fd] = op[t].file

\* The slots that were never given out are empty.
UnusedEmpty == \A fd \in Fd : ftable[fd] \in File => fd < next_free

\* The inductive invariant.
FdInv == TypeOK /\ OpSound /\ UnusedEmpty /\ OneSlot /\ RefsExact /\ FreeListExact

-----------------------------------------------------------------------------
\* What a step does to the place of a task and to the count of a file.
LEMMA OpMoves ==
    ASSUME TypeOK, NEW t \in Task, NEW place, Moves(t, place)
    PROVE  \A u \in Task : op'[u] = IF u = t THEN place ELSE op[u]
BY DEF TypeOK, Moves

LEMMA CountMoves ==
    ASSUME TypeOK, NEW f \in File, NEW n \in Int, Refs(f, n)
    PROVE  \A g \in File : f_count'[g] = IF g = f THEN f_count[g] + n ELSE f_count[g]
BY DEF TypeOK, Refs

LEMMA Places ==
    ASSUME NEW where \in Place, NEW slot \in Link, NEW f \in File \cup {NoFile}
    PROVE  /\ At(where, slot, f) \in Op
           /\ At(where, slot, f).at = where
           /\ At(where, slot, f).fd = slot
           /\ At(where, slot, f).file = f
BY DEF At, Op

LEMMA IdleIs == Idle \in Op /\ Idle.at = "idle" /\ Idle.fd = 0 /\ Idle.file = NoFile
BY DEF Idle, At, Op, Place, Link

LEMMA FdIs == /\ Fd \subseteq Link /\ Fd \subseteq Int /\ Link \subseteq Int /\ 0 \notin Fd
              /\ \A f \in File : f \notin Int /\ f \notin Link /\ f \notin Fd
              /\ NoFile \notin File
BY FdAssumption DEF Fd, Link, FirstFd

LEMMA GetIs ==
    ASSUME NEW fd \in Fd
    PROVE  /\ Get(fd) # NoFile <=> ftable[fd] \in File
           /\ Get(fd) # NoFile => Get(fd) = ftable[fd]
           /\ Get(fd) \in File \cup {NoFile}
BY FdAssumption DEF Get

LEMMA ListGiven ==
    ASSUME NEW n \in 0 .. TableSize, NEW s \in [1 .. n -> Fd]
    PROVE  /\ IsFreeList(s, n) => FreeListExact
           /\ IsFreeList(s, n)' => FreeListExact'
BY Zenon DEF FreeListExact

\* A list that is not empty begins with a closed descriptor.
LEMMA HeadClosed ==
    ASSUME TypeOK, FreeListExact
    PROVE  /\ free_head # 0 => free_head \in Closed /\ ftable[free_head] \in Link
           /\ free_head = 0 => Closed = {}
<1>0. PICK n \in 0 .. TableSize : \E s \in [1 .. n -> Fd] : IsFreeList(s, n)
    BY DEF FreeListExact
<1>1. PICK s \in [1 .. n -> Fd] : IsFreeList(s, n)
    BY <1>0
<1>2. n \in Int /\ \A i \in 1 .. n : s[i] \in Fd /\ s[i] \in Closed
    BY <1>1, FdAssumption DEF IsFreeList
<1>3. CASE n = 0
    BY <1>1, <1>3 DEF IsFreeList, Closed
<1>4. CASE n # 0
    <2>1. 1 \in 1 .. n /\ free_head = s[1]
        BY <1>1, <1>2, <1>4 DEF IsFreeList
    <2>2. ftable[s[1]] = IF 1 = n THEN 0 ELSE s[1 + 1]
        BY <1>1, <2>1 DEF IsFreeList
    <2>3. ftable[s[1]] \in Link
        <3>1. CASE n = 1
            BY <2>2, <3>1 DEF Link
        <3>2. CASE n # 1
            <4>1. 1 + 1 \in 1 .. n
                BY <1>2, <1>4, <2>1, <3>2
            <4>. QED
                BY <1>2, <2>2, <3>2, <4>1, FdIs
        <3>. QED
            BY <3>1, <3>2
    <2>. QED
        BY <1>2, <2>1, <2>3, FdIs
<1>. QED
    BY <1>3, <1>4

\* The references the table, an owner or a user holds are counted.
LEMMA CountsFinite ==
    ASSUME NEW f
    PROVE  IsFiniteSet(Users(f)) /\ Cardinality(Users(f)) \in Nat
<1>1. Users(f) \in SUBSET Task /\ IsFiniteSet(Task)
    BY FdAssumption DEF Users
<1>2. IsFiniteSet(Users(f))
    BY <1>1, FS_Subset
<1>. QED
    BY <1>2, FS_CardinalityType

LEMMA HeldCounted ==
    ASSUME TypeOK, RefsExact, NEW f \in File
    PROVE  /\ Placed(f) => f_count[f] > 0
           /\ f_count[f] = 0 => ~Placed(f) /\ Users(f) = {}
           /\ \A t \in Task : op[t].at = "use" /\ op[t].file = f => f_count[f] > 0
<1>1. f_count[f] = Cardinality(Users(f)) + (IF Placed(f) THEN 1 ELSE 0)
    BY DEF RefsExact
<1>2. IsFiniteSet(Users(f)) /\ Cardinality(Users(f)) \in Nat
    BY CountsFinite
<1>3. Cardinality(Users(f)) = 0 <=> Users(f) = {}
    BY <1>2, FS_EmptySet
<1>4. \A t \in Task : op[t].at = "use" /\ op[t].file = f => Users(f) # {}
    BY DEF Users
<1>. QED
    BY <1>1, <1>2, <1>3, <1>4

-----------------------------------------------------------------------------
LEMMA TaskSteps ==
    ASSUME [Next]_vars
    PROVE  \/ UNCHANGED vars
           \/ \E t \in Task :
                  \/ FilpOpen(t) \/ TakeFd(t) \/ StoreFile(t) \/ OpenFails(t)
                  \/ FilpClose(t) \/ FgetRead(t) \/ FgetRef(t) \/ Fdput(t)
                  \/ \E fd \in Fd : Uninstall(t, fd) \/ Borrow(t, fd) \/ Fget(t, fd)
BY DEF Next, Step

LEMMA InitInv == Init => FdInv
<1>. SUFFICES ASSUME Init PROVE FdInv
    OBVIOUS
<1>1. \A t \in Task : op[t] = Idle
    BY DEF Init
<1>2. TypeOK
    BY FdAssumption, IdleIs DEF Init, TypeOK, Link, FirstFd
<1>3. OpSound /\ UnusedEmpty /\ OneSlot
    BY <1>1, IdleIs, FdIs DEF Init, OpSound, UnusedEmpty, OneSlot, Owner, Link
<1>4. RefsExact
    <2>1. \A f \in File : Users(f) = {} /\ ~Placed(f)
        BY <1>1, IdleIs, FdIs DEF Init, Users, Placed, Owner
    <2>. QED
        BY <2>1, FS_EmptySet DEF Init, RefsExact
<1>5. FreeListExact
    <2>1. Closed = {}
        BY FdAssumption DEF Init, Closed, Fd, FirstFd
    <2>2. PICK s : s \in [1 .. 0 -> Fd]
        <3>1. [i \in 1 .. 0 |-> FirstFd] \in [1 .. 0 -> Fd]
            OBVIOUS
        <3>. QED
            BY <3>1
    <2>3. IsFreeList(s, 0)
        BY <2>1 DEF IsFreeList, Init
    <2>. QED
        <3>1. 0 \in 0 .. TableSize
            BY FdAssumption
        <3>. QED
            BY <2>2, <2>3, <3>1, ListGiven
<1>. QED
    BY <1>2, <1>3, <1>4, <1>5 DEF FdInv

LEMMA TypesStep == FdInv /\ [Next]_vars => TypeOK'
<1>. SUFFICES ASSUME FdInv, [Next]_vars PROVE TypeOK'
    OBVIOUS
<1>a. TypeOK /\ OpSound /\ RefsExact /\ FreeListExact
    BY DEF FdInv
<1>b. \A t \in Task : op[t] \in Op /\ op[t].fd \in Link /\ op[t].file \in File \cup {NoFile}
    BY <1>a DEF TypeOK, Op
<1>c. \A t \in Task, place \in Op : Moves(t, place) => op' \in [Task -> Op]
    BY <1>a DEF TypeOK, Moves
<1>d. \A f \in File, n \in {0, 1, -1} :
          Refs(f, n) /\ (n = -1 => f_count[f] > 0) => f_count' \in [File -> Nat]
    <2>. SUFFICES ASSUME NEW f \in File, NEW n \in {0, 1, -1}, Refs(f, n),
                         n = -1 => f_count[f] > 0
                  PROVE  f_count' \in [File -> Nat]
        OBVIOUS
    <2>1. f_count \in [File -> Nat] /\ f_count[f] + n \in Nat
        BY <1>a DEF TypeOK
    <2>. QED
        BY <2>1 DEF Refs
<1>e. \A t \in Task : /\ op[t].at \in {"get", "use"} \/ Owner(t) => op[t].file \in File
                      /\ op[t].at = "use" \/ Owner(t) => f_count[op[t].file] > 0
    <2>1. \A t \in Task : op[t].at \in {"get", "use"} \/ Owner(t) => op[t].file \in File
        BY <1>a DEF OpSound
    <2>2. \A t \in Task : Owner(t) => Placed(op[t].file)
        BY DEF Placed
    <2>. QED
        BY <1>a, <2>1, <2>2, HeldCounted
<1>1. ASSUME NEW t \in Task, FilpOpen(t) PROVE TypeOK'
    <2>1. PICK f \in File : Refs(f, 1) /\ Moves(t, At("install", 0, f))
                            /\ UNCHANGED <<ftable, next_free, free_head>>
        BY <1>1 DEF FilpOpen
    <2>2. At("install", 0, f) \in Op
        BY Places DEF Place, Link
    <2>. QED
        BY <1>a, <1>c, <1>d, <2>1, <2>2 DEF TypeOK
<1>2. ASSUME NEW t \in Task, TakeFd(t) PROVE TypeOK'
    <2>1. next_free # TableSize => next_free \in Fd
        BY <1>a, FdAssumption DEF TypeOK, Fd, FirstFd
    <2>2. next_free \in Int /\ next_free >= FirstFd /\ next_free <= TableSize /\ TableSize \in Int
        BY <1>a, FdAssumption DEF TypeOK, FirstFd
    <2>3. next_free' \in FirstFd .. TableSize
        BY <1>a, <1>2, <2>2 DEF TakeFd, TypeOK, FirstFd
    <2>4. free_head' \in Link
        BY <1>a, <1>2, HeadClosed DEF TakeFd, TypeOK
    <2>5. /\ next_free # TableSize => At("store", next_free, op[t].file) \in Op
          /\ At("store", free_head, op[t].file) \in Op
          /\ At("full", 0, op[t].file) \in Op
        BY <1>a, <1>b, <2>1, FdIs, Places DEF TypeOK, Place, Link
    <2>6. op' \in [Task -> Op]
        BY <1>2, <1>c, <2>5 DEF TakeFd
    <2>. QED
        BY <1>a, <1>2, <2>3, <2>4, <2>6 DEF TakeFd, TypeOK
<1>3. ASSUME NEW t \in Task, StoreFile(t) PROVE TypeOK'
    <2>1. op[t].file \in File
        BY <1>3, <1>e DEF StoreFile, Owner
    <2>. QED
        BY <1>a, <1>c, <1>3, <2>1, IdleIs DEF StoreFile, TypeOK
<1>4. ASSUME NEW t \in Task, OpenFails(t) \/ FilpClose(t) PROVE TypeOK'
    <2>1. op[t].file \in File /\ f_count[op[t].file] > 0
        BY <1>4, <1>e DEF OpenFails, FilpClose, Owner
    <2>. QED
        BY <1>a, <1>c, <1>d, <1>4, <2>1, IdleIs DEF OpenFails, FilpClose, TypeOK
<1>5. ASSUME NEW t \in Task, NEW fd \in Fd, Uninstall(t, fd) PROVE TypeOK'
    <2>1. At("close", fd, Get(fd)) \in Op
        BY FdIs, GetIs, Places DEF Place
    <2>2. fd \in Link
        BY FdIs
    <2>3. ftable' \in [Fd -> File \cup Link]
        BY <1>a, <1>5 DEF Uninstall, TypeOK
    <2>. QED
        BY <1>a, <1>c, <1>5, <2>1, <2>2, <2>3 DEF Uninstall, TypeOK
<1>6. ASSUME NEW t \in Task, NEW fd \in Fd, Borrow(t, fd) \/ Fget(t, fd) PROVE TypeOK'
    <2>1. At("light", fd, Get(fd)) \in Op /\ At("fget", fd, NoFile) \in Op
        BY FdIs, GetIs, Places DEF Place
    <2>. QED
        BY <1>a, <1>c, <1>6, <2>1 DEF Borrow, Fget, TypeOK
<1>7. ASSUME NEW t \in Task, FgetRead(t) PROVE TypeOK'
    <2>1. op[t].fd \in Fd
        BY <1>a, <1>7 DEF FgetRead, OpSound
    <2>2. At("get", op[t].fd, Get(op[t].fd)) \in Op
        BY <2>1, FdIs, GetIs, Places DEF Place
    <2>. QED
        BY <1>a, <1>c, <1>7, <2>2, IdleIs DEF FgetRead, TypeOK
<1>8. ASSUME NEW t \in Task, FgetRef(t) PROVE TypeOK'
    <2>1. op[t].file \in File
        BY <1>8, <1>e DEF FgetRef
    <2>2. At("fget", op[t].fd, NoFile) \in Op /\ At("use", op[t].fd, op[t].file) \in Op
        BY <1>b, Places DEF Place
    <2>. QED
        BY <1>a, <1>c, <1>d, <1>8, <2>1, <2>2 DEF FgetRef, TypeOK
<1>9. ASSUME NEW t \in Task, Fdput(t) PROVE TypeOK'
    <2>1. op[t].at = "use" => op[t].file \in File /\ f_count[op[t].file] > 0
        BY <1>e
    <2>2. f_count' \in [File -> Nat]
        BY <1>a, <1>d, <1>9, <2>1 DEF Fdput, TypeOK
    <2>. QED
        BY <1>a, <1>c, <1>9, <2>2, IdleIs DEF Fdput, TypeOK
<1>10. ASSUME UNCHANGED vars PROVE TypeOK'
    BY <1>a, <1>10 DEF TypeOK, vars
<1>. QED
    BY <1>1, <1>2, <1>3, <1>4, <1>5, <1>6, <1>7, <1>8, <1>9, <1>10, TaskSteps

-----------------------------------------------------------------------------
\* What the steps need of the invariant, on the files and slots involved.
LEMMA OwnersApart ==
    ASSUME FdInv, NEW t \in Task, Owner(t)
    PROVE  /\ op[t].file \in File /\ Placed(op[t].file)
           /\ \A fd \in Fd : ftable[fd] # op[t].file
           /\ \A u \in Task : u # t /\ Owner(u) => op[u].file # op[t].file
BY DEF FdInv, OpSound, OneSlot, Placed

LEMMA StoresApart ==
    ASSUME FdInv, NEW t \in Task, op[t].at = "store"
    PROVE  /\ op[t].fd \in Fd /\ op[t].fd < next_free /\ ftable[op[t].fd] \notin File
           /\ \A u \in Task : u # t /\ op[u].at = "store" => op[u].fd # op[t].fd
BY DEF FdInv, OneSlot

\* A step that leaves the table, the closed descriptors and the head alone
\* leaves the list alone.
LEMMA ListKept ==
    ASSUME FreeListExact, free_head' = free_head, Closed' = Closed,
           \A fd \in Closed : ftable'[fd] = ftable[fd]
    PROVE  FreeListExact'
<1>1. PICK n \in 0 .. TableSize : \E s \in [1 .. n -> Fd] : IsFreeList(s, n)
    BY DEF FreeListExact
<1>2. PICK s \in [1 .. n -> Fd] : IsFreeList(s, n)
    BY <1>1
<1>3. \A i \in 1 .. n : s[i] \in Fd /\ s[i] \in Closed
    BY <1>2 DEF IsFreeList
<1>4. IsFreeList(s, n)'
    BY <1>2, <1>3 DEF IsFreeList
<1>. QED
    BY <1>4, ListGiven

\* Taking the head off a list.
LEMMA ListTaken ==
    ASSUME TypeOK, FreeListExact, free_head # 0, free_head' = ftable[free_head],
           Closed' = Closed \ {free_head}, ftable' = ftable
    PROVE  FreeListExact'
<1>1. PICK n \in 0 .. TableSize : \E s \in [1 .. n -> Fd] : IsFreeList(s, n)
    BY DEF FreeListExact
<1>2. PICK s \in [1 .. n -> Fd] : IsFreeList(s, n)
    BY <1>1
<1>3. n \in Int /\ n > 0 /\ TableSize \in Int /\ n <= TableSize
    BY <1>2, FdAssumption DEF IsFreeList
<1>. DEFINE tail == [i \in 1 .. n - 1 |-> s[i + 1]]
<1>4. tail \in [1 .. n - 1 -> Fd] /\ \A i \in 1 .. n - 1 : tail[i] = s[i + 1]
    BY <1>3
<1>5. n - 1 \in 0 .. TableSize
    BY <1>3
<1>. HIDE DEF tail
<1>6. free_head = s[1] /\ ftable[s[1]] = IF 1 = n THEN 0 ELSE s[1 + 1]
    BY <1>2, <1>3 DEF IsFreeList
<1>7. \A i, j \in 1 .. n - 1 : tail[i] = tail[j] => i = j
    <2>. SUFFICES ASSUME NEW i \in 1 .. n - 1, NEW j \in 1 .. n - 1, tail[i] = tail[j]
                  PROVE  i = j
        OBVIOUS
    <2>1. i + 1 \in 1 .. n /\ j + 1 \in 1 .. n /\ s[i + 1] = s[j + 1]
        BY <1>3, <1>4
    <2>2. i + 1 = j + 1
        BY <1>2, <2>1 DEF IsFreeList
    <2>. QED
        BY <1>3, <2>2
<1>8. \A fd \in Fd : fd \in Closed' <=> \E i \in 1 .. n - 1 : tail[i] = fd
    <2>. SUFFICES ASSUME NEW fd \in Fd
                  PROVE  fd \in Closed' <=> \E i \in 1 .. n - 1 : tail[i] = fd
        OBVIOUS
    <2>1. fd \in Closed <=> \E i \in 1 .. n : s[i] = fd
        BY <1>2 DEF IsFreeList
    <2>2. ASSUME NEW i \in 1 .. n - 1, tail[i] = fd PROVE fd \in Closed'
        <3>1. i + 1 \in 1 .. n /\ 1 \in 1 .. n /\ i + 1 # 1 /\ s[i + 1] = fd
            BY <1>3, <1>4, <2>2
        <3>2. fd # s[1]
            BY <1>2, <3>1 DEF IsFreeList
        <3>. QED
            BY <1>6, <2>1, <3>1, <3>2
    <2>3. ASSUME fd \in Closed' PROVE \E i \in 1 .. n - 1 : tail[i] = fd
        <3>1. PICK i \in 1 .. n : s[i] = fd /\ i # 1
            BY <1>6, <2>1, <2>3
        <3>2. i - 1 \in 1 .. n - 1 /\ (i - 1) + 1 = i
            BY <1>3, <3>1
        <3>3. tail[i - 1] = fd
            BY <1>4, <3>1, <3>2
        <3>. QED
            BY <3>2, <3>3
    <2>. QED
        BY <2>2, <2>3
<1>9. free_head' = IF n - 1 = 0 THEN 0 ELSE tail[1]
    <2>1. n # 1 => 1 \in 1 .. n - 1
        BY <1>3
    <2>. QED
        BY <1>3, <1>4, <1>6, <2>1
<1>10. \A i \in 1 .. n - 1 : ftable'[tail[i]] = IF i = n - 1 THEN 0 ELSE tail[i + 1]
    <2>. SUFFICES ASSUME NEW i \in 1 .. n - 1
                  PROVE  ftable[tail[i]] = IF i = n - 1 THEN 0 ELSE tail[i + 1]
        OBVIOUS
    <2>1. i + 1 \in 1 .. n /\ (i + 1 = n <=> i = n - 1) /\ tail[i] = s[i + 1]
        BY <1>3, <1>4
    <2>2. ftable[s[i + 1]] = IF i + 1 = n THEN 0 ELSE s[(i + 1) + 1]
        BY <1>2, <2>1 DEF IsFreeList
    <2>3. i # n - 1 => i + 1 \in 1 .. n - 1
        BY <1>3
    <2>. QED
        BY <1>4, <2>1, <2>2, <2>3
<1>11. IsFreeList(tail, n - 1)'
    BY <1>7, <1>8, <1>9, <1>10 DEF IsFreeList
<1>. QED
    BY <1>4, <1>5, <1>11, ListGiven

\* Putting a closed descriptor in front of a list.
LEMMA ListPut ==
    ASSUME TypeOK, FreeListExact, NEW fd \in Fd, fd \notin Closed,
           free_head' = fd, Closed' = Closed \cup {fd},
           ftable' = [ftable EXCEPT ![fd] = free_head]
    PROVE  FreeListExact'
<1>1. PICK n \in 0 .. TableSize : \E s \in [1 .. n -> Fd] : IsFreeList(s, n)
    BY DEF FreeListExact
<1>2. PICK s \in [1 .. n -> Fd] : IsFreeList(s, n)
    BY <1>1
<1>3. n \in Int /\ n >= 0 /\ TableSize \in Int /\ n <= TableSize
    BY FdAssumption
<1>4. n < TableSize
    <2>. SUFFICES ASSUME n >= TableSize PROVE FALSE
        BY <1>3
    <2>1. IsFiniteSet(1 .. n) /\ Cardinality(1 .. n) = n
        BY <1>3, FdAssumption, FS_Interval
    <2>2. IsFiniteSet(Fd) /\ Cardinality(Fd) < n
        <3>1. IsFiniteSet(FirstFd .. TableSize - 1)
              /\ Cardinality(FirstFd .. TableSize - 1) = TableSize - 1 - FirstFd + 1
            BY FdAssumption, FS_Interval DEF FirstFd
        <3>. QED
            BY <1>3, <3>1 DEF Fd, FirstFd
    <2>3. \E i, j \in 1 .. n : i # j /\ s[i] = s[j]
        BY <2>1, <2>2, FS_PigeonHole
    <2>. QED
        BY <1>2, <2>3 DEF IsFreeList
<1>. DEFINE longer == [i \in 1 .. n + 1 |-> IF i = 1 THEN fd ELSE s[i - 1]]
<1>5. /\ longer \in [1 .. n + 1 -> Fd]
      /\ 1 \in 1 .. n + 1 /\ longer[1] = fd
      /\ \A i \in 1 .. n + 1 : i # 1 => i - 1 \in 1 .. n /\ longer[i] = s[i - 1]
    BY <1>3
<1>6. n + 1 \in 0 .. TableSize
    BY <1>3, <1>4
<1>. HIDE DEF longer
<1>7. \A i \in 1 .. n : s[i] \in Fd /\ s[i] \in Closed /\ s[i] # fd
    BY <1>2 DEF IsFreeList
<1>8. \A g \in Fd : ftable'[g] = IF g = fd THEN free_head ELSE ftable[g]
    BY DEF TypeOK
<1>9. \A i, j \in 1 .. n + 1 : longer[i] = longer[j] => i = j
    <2>. SUFFICES ASSUME NEW i \in 1 .. n + 1, NEW j \in 1 .. n + 1, longer[i] = longer[j]
                  PROVE  i = j
        OBVIOUS
    <2>1. CASE i = 1 \/ j = 1
        BY <1>5, <1>7, <2>1
    <2>2. CASE i # 1 /\ j # 1
        <3>1. i - 1 = j - 1
            BY <1>2, <1>5, <2>2 DEF IsFreeList
        <3>. QED
            BY <1>3, <3>1
    <2>. QED
        BY <2>1, <2>2
<1>10. \A g \in Fd : g \in Closed' <=> \E i \in 1 .. n + 1 : longer[i] = g
    <2>. SUFFICES ASSUME NEW g \in Fd
                  PROVE  g \in Closed' <=> \E i \in 1 .. n + 1 : longer[i] = g
        OBVIOUS
    <2>1. g \in Closed <=> \E i \in 1 .. n : s[i] = g
        BY <1>2 DEF IsFreeList
    <2>2. \A i \in 1 .. n : i + 1 \in 1 .. n + 1 /\ i + 1 # 1 /\ (i + 1) - 1 = i
        BY <1>3
    <2>3. \A i \in 1 .. n : longer[i + 1] = s[i]
        BY <1>5, <2>2
    <2>. QED
        BY <1>5, <2>1, <2>2, <2>3
<1>11. free_head' = IF n + 1 = 0 THEN 0 ELSE longer[1]
    BY <1>3, <1>5
<1>12. \A i \in 1 .. n + 1 : ftable'[longer[i]] = IF i = n + 1 THEN 0 ELSE longer[i + 1]
    <2>. SUFFICES ASSUME NEW i \in 1 .. n + 1
                  PROVE  ftable'[longer[i]] = IF i = n + 1 THEN 0 ELSE longer[i + 1]
        OBVIOUS
    <2>1. i # n + 1 => i + 1 \in 1 .. n + 1 /\ i + 1 # 1 /\ (i + 1) - 1 = i /\ i \in 1 .. n
        BY <1>3
    <2>2. i # n + 1 => longer[i + 1] = s[i]
        BY <1>5, <2>1
    <2>3. CASE i = 1
        <3>1. ftable'[longer[i]] = free_head
            BY <1>5, <1>8, <2>3
        <3>. QED
            BY <1>2, <1>3, <2>2, <2>3, <3>1 DEF IsFreeList
    <2>4. CASE i # 1
        <3>1. i - 1 \in 1 .. n /\ longer[i] = s[i - 1]
            BY <1>5, <2>4
        <3>2. ftable'[longer[i]] = ftable[s[i - 1]]
            BY <1>7, <1>8, <3>1
        <3>3. ftable[s[i - 1]] = IF i - 1 = n THEN 0 ELSE s[(i - 1) + 1]
            BY <1>2, <3>1 DEF IsFreeList
        <3>4. (i - 1) + 1 = i /\ (i - 1 = n <=> i = n + 1)
            BY <1>3
        <3>. QED
            BY <2>2, <3>2, <3>3, <3>4
    <2>. QED
        BY <2>3, <2>4
<1>13. IsFreeList(longer, n + 1)'
    BY <1>9, <1>10, <1>11, <1>12 DEF IsFreeList
<1>. QED
    BY <1>5, <1>6, <1>13, ListGiven
-----------------------------------------------------------------------------
LEMMA SoundStep == FdInv /\ [Next]_vars => OpSound'
<1>. SUFFICES ASSUME FdInv, [Next]_vars PROVE OpSound'
    OBVIOUS
<1>a. TypeOK /\ OpSound
    BY DEF FdInv
<1>b. \A t \in Task : \A place : Moves(t, place) =>
          \A u \in Task : op'[u] = IF u = t THEN place ELSE op[u]
    BY <1>a, OpMoves
<1>1. ASSUME NEW t \in Task, FilpOpen(t) PROVE OpSound'
    <2>1. PICK f \in File : Moves(t, At("install", 0, f)) /\ ftable' = ftable
        BY <1>1 DEF FilpOpen
    <2>. QED
        BY <1>a, <1>b, <2>1 DEF OpSound, Owner, At
<1>2. ASSUME NEW t \in Task, TakeFd(t) PROVE OpSound'
    <2>1. op[t].file \in File /\ (next_free # TableSize => next_free \in Fd)
          /\ (free_head # 0 => free_head \in Fd)
        BY <1>a, <1>2, FdAssumption DEF TakeFd, OpSound, Owner, TypeOK, Link, Fd, FirstFd
    <2>2. PICK place : /\ Moves(t, place) /\ ftable' = ftable
                       /\ place.file = op[t].file
                       /\ place.at = "full" \/ (place.at = "store" /\ place.fd \in Fd)
        BY <1>2, <2>1 DEF TakeFd, At
    <2>. QED
        BY <1>a, <1>b, <2>1, <2>2 DEF OpSound, Owner
<1>3. ASSUME NEW t \in Task, StoreFile(t) PROVE OpSound'
    <2>1. \A u \in Task : op'[u] = IF u = t THEN Idle ELSE op[u]
        BY <1>b, <1>3 DEF StoreFile
    <2>2. op[t].fd \in Fd /\ ftable[op[t].fd] \notin File
        BY <1>3, StoresApart DEF StoreFile
    <2>3. \A fd \in Fd : ftable[fd] \in File => ftable'[fd] = ftable[fd]
        BY <1>a, <1>3, <2>2 DEF StoreFile, TypeOK
    <2>. QED
        BY <1>a, <2>1, <2>3, IdleIs DEF OpSound, Owner
<1>4. ASSUME NEW t \in Task, OpenFails(t) \/ FilpClose(t) \/ Fdput(t) PROVE OpSound'
    <2>1. Moves(t, Idle) /\ ftable' = ftable
        BY <1>4 DEF OpenFails, FilpClose, Fdput
    <2>. QED
        BY <1>a, <1>b, <2>1, IdleIs DEF OpSound, Owner
<1>5. ASSUME NEW t \in Task, NEW fd \in Fd, Uninstall(t, fd) PROVE OpSound'
    <2>1. \A u \in Task : op'[u] = IF u = t THEN At("close", fd, Get(fd)) ELSE op[u]
        BY <1>b, <1>5 DEF Uninstall
    <2>2. Get(fd) \in File
        BY <1>5, GetIs DEF Uninstall
    <2>3. \A g \in Fd : g # fd => ftable'[g] = ftable[g]
        BY <1>a, <1>5 DEF Uninstall, TypeOK
    <2>4. \A u \in Task : op[u].at = "light" => op[u].fd # fd
        BY <1>5 DEF Uninstall, Quiet
    <2>. QED
        BY <1>a, <2>1, <2>2, <2>3, <2>4 DEF OpSound, Owner, At
<1>6. ASSUME NEW t \in Task, NEW fd \in Fd, Borrow(t, fd) \/ Fget(t, fd) PROVE OpSound'
    <2>1. PICK place : /\ Moves(t, place) /\ ftable' = ftable /\ place.fd = fd
                       /\ \/ place.at = "fget"
                          \/ place.at = "light" /\ place.file \in File /\ ftable[fd] = place.file
        BY <1>6, GetIs DEF Borrow, Fget, At
    <2>. QED
        BY <1>a, <1>b, <2>1 DEF OpSound, Owner
<1>7. ASSUME NEW t \in Task, FgetRead(t) \/ FgetRef(t) PROVE OpSound'
    <2>1. op[t].at \in {"fget", "get"} /\ op[t].fd \in Fd /\ (op[t].at = "get" => op[t].file \in File)
        BY <1>a, <1>7 DEF FgetRead, FgetRef, OpSound
    <2>2. PICK place : /\ Moves(t, place) /\ ftable' = ftable
                       /\ \/ place.at = "idle"
                          \/ place.at = "fget" /\ place.fd = op[t].fd
                          \/ place.at = "get" /\ place.fd = op[t].fd /\ place.file \in File
                          \/ place.at = "use" /\ place.file \in File
        <3>1. CASE FgetRead(t)
            BY <2>1, <3>1, IdleIs, GetIs DEF FgetRead, At
        <3>2. CASE FgetRef(t)
            BY <2>1, <3>2 DEF FgetRef, At
        <3>. QED
            BY <1>7, <3>1, <3>2
    <2>. QED
        BY <1>a, <1>b, <2>1, <2>2 DEF OpSound, Owner
<1>8. ASSUME UNCHANGED vars PROVE OpSound'
    BY <1>a, <1>8 DEF OpSound, Owner, vars
<1>. QED
    BY <1>1, <1>2, <1>3, <1>4, <1>5, <1>6, <1>7, <1>8, TaskSteps

\* A step that neither gives a task a file or a slot of its own nor touches
\* the table leaves every file where it is.
LEMMA SlotsKept ==
    ASSUME OneSlot, ftable' = ftable, next_free' = next_free,
           \A u \in Task : Owner(u)' => Owner(u) /\ op'[u] = op[u],
           \A u \in Task : op'[u].at = "store" => op'[u] = op[u]
    PROVE  OneSlot'
BY DEF OneSlot

LEMMA SlotStep == FdInv /\ [Next]_vars => OneSlot'
<1>. SUFFICES ASSUME FdInv, [Next]_vars PROVE OneSlot'
    OBVIOUS
<1>a. TypeOK /\ OpSound /\ OneSlot /\ RefsExact
    BY DEF FdInv
<1>b. \A t \in Task : \A place : Moves(t, place) =>
          \A u \in Task : op'[u] = IF u = t THEN place ELSE op[u]
    BY <1>a, OpMoves
<1>1. ASSUME NEW t \in Task, FilpOpen(t) PROVE OneSlot'
    <2>1. PICK f \in File : /\ f_count[f] = 0 /\ Moves(t, At("install", 0, f))
                            /\ op[t] = Idle /\ UNCHANGED <<ftable, next_free>>
        BY <1>1 DEF FilpOpen
    <2>2. \A u \in Task : op'[u] = IF u = t THEN At("install", 0, f) ELSE op[u]
        BY <1>b, <2>1
    <2>3. ~Placed(f)
        BY <1>a, <2>1, HeldCounted
    <2>4. At("install", 0, f).at = "install" /\ At("install", 0, f).file = f
        BY DEF At
    <2>. QED
        BY <1>a, <2>1, <2>2, <2>3, <2>4 DEF OneSlot, Owner, Placed
<1>2. ASSUME NEW t \in Task, TakeFd(t) PROVE OneSlot'
    <2>1. PICK place : /\ Moves(t, place) /\ ftable' = ftable /\ place.file = op[t].file
                       /\ next_free' >= next_free /\ next_free \in Int /\ next_free' \in Int
                       /\ \/ place.at = "full"
                          \/ /\ place.at = "store" /\ place.fd \in Fd /\ place.fd < next_free'
                             /\ ftable[place.fd] \notin File
                             /\ \A u \in Task : ~(op[u].at = "store" /\ op[u].fd = place.fd)
        <3>0. next_free \in Int /\ TableSize \in Int
            BY <1>a, FdAssumption DEF TypeOK, FirstFd
        <3>1. CASE next_free # TableSize
            <4>1. next_free \in Fd /\ Moves(t, At("store", next_free, op[t].file))
                  /\ next_free' = next_free + 1 /\ ftable' = ftable
                BY <1>a, <1>2, <3>1, FdAssumption DEF TakeFd, TypeOK, Fd, FirstFd
            <4>2. \A u \in Task : ~(op[u].at = "store" /\ op[u].fd = next_free)
                BY <3>0, StoresApart
            <4>3. ftable[next_free] \notin File
                BY <3>0, <4>1 DEF FdInv, UnusedEmpty
            <4>. QED
                BY <3>0, <4>1, <4>2, <4>3 DEF At
        <3>2. CASE next_free = TableSize /\ free_head # 0
            <4>1. free_head \in Closed
                BY <1>a, <3>2, HeadClosed DEF FdInv
            <4>2. Moves(t, At("store", free_head, op[t].file))
                  /\ next_free' = next_free /\ ftable' = ftable
                BY <1>2, <3>2 DEF TakeFd
            <4>. QED
                BY <3>0, <4>1, <4>2 DEF At, Closed
        <3>3. CASE next_free = TableSize /\ free_head = 0
            BY <1>2, <3>0, <3>3 DEF TakeFd, At
        <3>. QED
            BY <3>1, <3>2, <3>3
    <2>2. \A u \in Task : op'[u] = IF u = t THEN place ELSE op[u]
        BY <1>b, <2>1
    <2>3. Owner(t)
        BY <1>2 DEF TakeFd, Owner
    <2>4. \A u \in Task : op[u].at = "store" => op[u].fd \in Int
        BY <1>a, FdIs DEF OpSound
    <2>. QED
        BY <1>a, <2>1, <2>2, <2>3, <2>4, FdIs DEF OneSlot, Owner
<1>3. ASSUME NEW t \in Task, StoreFile(t) PROVE OneSlot'
    <2>1. /\ Owner(t) /\ op[t].at = "store" /\ op[t].fd \in Fd /\ next_free' = next_free
          /\ ftable[op[t].fd] \notin File
          /\ \A u \in Task : u # t /\ op[u].at = "store" => op[u].fd # op[t].fd
        BY <1>3, StoresApart DEF StoreFile, Owner
    <2>2. /\ op[t].file \in File /\ \A fd \in Fd : ftable[fd] # op[t].file
          /\ \A u \in Task : u # t /\ Owner(u) => op[u].file # op[t].file
        BY <2>1, OwnersApart
    <2>3. \A fd \in Fd : ftable'[fd] = IF fd = op[t].fd THEN op[t].file ELSE ftable[fd]
        BY <1>a, <1>3 DEF StoreFile, TypeOK
    <2>4. \A u \in Task : op'[u] = IF u = t THEN Idle ELSE op[u]
        BY <1>b, <1>3 DEF StoreFile
    <2>. QED
        BY <1>a, <2>1, <2>2, <2>3, <2>4, IdleIs DEF OneSlot, Owner
<1>4. ASSUME NEW t \in Task, OpenFails(t) \/ FilpClose(t) \/ Fdput(t) PROVE OneSlot'
    <2>1. Moves(t, Idle) /\ ftable' = ftable /\ next_free' = next_free
        BY <1>4 DEF OpenFails, FilpClose, Fdput
    <2>. QED
        BY <1>a, <1>b, <2>1, IdleIs, SlotsKept DEF Owner
<1>5. ASSUME NEW t \in Task, NEW fd \in Fd, Uninstall(t, fd) PROVE OneSlot'
    <2>1. \A u \in Task : op'[u] = IF u = t THEN At("close", fd, Get(fd)) ELSE op[u]
        BY <1>b, <1>5 DEF Uninstall
    <2>2. Get(fd) \in File /\ Get(fd) = ftable[fd] /\ free_head \notin File
        BY <1>a, <1>5, GetIs, FdIs DEF Uninstall, TypeOK
    <2>3. \A g \in Fd : ftable'[g] = IF g = fd THEN free_head ELSE ftable[g]
        BY <1>a, <1>5 DEF Uninstall, TypeOK
    <2>4. At("close", fd, Get(fd)).at = "close" /\ At("close", fd, Get(fd)).file = ftable[fd]
        BY <2>2 DEF At
    <2>5. ~Owner(t) /\ next_free' = next_free
        BY <1>5, IdleIs DEF Uninstall, Owner
    <2>. QED
        BY <1>a, <2>1, <2>2, <2>3, <2>4, <2>5 DEF OneSlot, Owner
<1>6. ASSUME NEW t \in Task, NEW fd \in Fd, Borrow(t, fd) \/ Fget(t, fd) PROVE OneSlot'
    <2>1. PICK place : /\ Moves(t, place) /\ ftable' = ftable /\ next_free' = next_free
                       /\ place.at \in {"fget", "light"}
        BY <1>6 DEF Borrow, Fget, At
    <2>. QED
        BY <1>a, <1>b, <2>1, SlotsKept DEF Owner
<1>7. ASSUME NEW t \in Task, FgetRead(t) \/ FgetRef(t) PROVE OneSlot'
    <2>1. PICK place : /\ Moves(t, place) /\ ftable' = ftable /\ next_free' = next_free
                       /\ place.at \in {"idle", "fget", "get", "use"}
        BY <1>7, IdleIs DEF FgetRead, FgetRef, At
    <2>. QED
        BY <1>a, <1>b, <2>1, SlotsKept DEF Owner
<1>8. ASSUME UNCHANGED vars PROVE OneSlot'
    BY <1>a, <1>8 DEF OneSlot, Owner, vars
<1>. QED
    BY <1>1, <1>2, <1>3, <1>4, <1>5, <1>6, <1>7, <1>8, TaskSteps

LEMMA UnusedStep == FdInv /\ [Next]_vars => UnusedEmpty'
<1>. SUFFICES ASSUME FdInv, [Next]_vars PROVE UnusedEmpty'
    OBVIOUS
<1>a. TypeOK /\ UnusedEmpty /\ next_free \in Int
    BY FdAssumption DEF FdInv, TypeOK, FirstFd
<1>1. ASSUME NEW t \in Task, StoreFile(t) PROVE UnusedEmpty'
    BY <1>a, <1>1, StoresApart DEF StoreFile, TypeOK, UnusedEmpty
<1>2. ASSUME NEW t \in Task, NEW fd \in Fd, Uninstall(t, fd) PROVE UnusedEmpty'
    <2>1. free_head \notin File /\ next_free' = next_free
        BY <1>a, <1>2, FdIs DEF Uninstall, TypeOK
    <2>2. \A g \in Fd : ftable'[g] = IF g = fd THEN free_head ELSE ftable[g]
        BY <1>a, <1>2 DEF Uninstall, TypeOK
    <2>. QED
        BY <1>a, <2>1, <2>2 DEF UnusedEmpty
<1>3. ASSUME ftable' = ftable, next_free' \in {next_free, next_free + 1} PROVE UnusedEmpty'
    BY <1>a, <1>3, FdIs DEF UnusedEmpty
<1>. QED
    BY <1>1, <1>2, <1>3, TaskSteps
       DEF FilpOpen, TakeFd, OpenFails, FilpClose, Borrow, Fget, FgetRead, FgetRef, Fdput, vars

-----------------------------------------------------------------------------
\* A step that moves no reference.
LEMMA RefsKept ==
    ASSUME RefsExact, f_count' = f_count,
           \A f \in File : Users(f)' = Users(f) /\ (Placed(f)' <=> Placed(f))
    PROVE  RefsExact'
BY DEF RefsExact

\* A reference to f made or dropped, by a user or by the place that holds it.
LEMMA RefsMoved ==
    ASSUME TypeOK, RefsExact, NEW f \in File, NEW n \in Int, Refs(f, n),
           \A g \in File \ {f} : Users(g)' = Users(g) /\ (Placed(g)' <=> Placed(g)),
           Cardinality(Users(f)') + (IF Placed(f)' THEN 1 ELSE 0)
               = Cardinality(Users(f)) + (IF Placed(f) THEN 1 ELSE 0) + n
    PROVE  RefsExact'
<1>1. \A g \in File : f_count'[g] = IF g = f THEN f_count[g] + n ELSE f_count[g]
    BY CountMoves
<1>. QED
    BY <1>1 DEF RefsExact

LEMMA UsersKept ==
    ASSUME \A u \in Task : op'[u] = op[u] \/ (op[u].at # "use" /\ op'[u].at # "use")
    PROVE  \A f \in File : Users(f)' = Users(f)
BY DEF Users

LEMMA PlacedKept ==
    ASSUME ftable' = ftable,
           \A u \in Task : \/ op'[u] = op[u]
                           \/ Owner(u) /\ Owner(u)' /\ op'[u].file = op[u].file
                           \/ ~Owner(u) /\ ~Owner(u)'
    PROVE  \A f \in File : Placed(f)' <=> Placed(f)
BY DEF Placed, Owner

LEMMA RefsStep == FdInv /\ [Next]_vars => RefsExact'
<1>. SUFFICES ASSUME FdInv, [Next]_vars PROVE RefsExact'
    OBVIOUS
<1>a. TypeOK /\ OpSound /\ OneSlot /\ RefsExact
    BY DEF FdInv
<1>b. \A t \in Task : \A place : Moves(t, place) =>
          \A u \in Task : op'[u] = IF u = t THEN place ELSE op[u]
    BY <1>a, OpMoves
<1>c. \A f : IsFiniteSet(Users(f)) /\ Cardinality(Users(f)) \in Nat
    BY CountsFinite
<1>1. ASSUME NEW t \in Task, FilpOpen(t) PROVE RefsExact'
    <2>1. PICK f \in File : /\ f_count[f] = 0 /\ Refs(f, 1) /\ Moves(t, At("install", 0, f))
                            /\ op[t] = Idle /\ ftable' = ftable
        BY <1>1 DEF FilpOpen
    <2>2. \A u \in Task : op'[u] = IF u = t THEN At("install", 0, f) ELSE op[u]
        BY <1>b, <2>1
    <2>3. At("install", 0, f).at = "install" /\ At("install", 0, f).file = f
        BY DEF At
    <2>4. \A g \in File : Users(g)' = Users(g)
        BY <2>1, <2>2, <2>3, IdleIs, UsersKept
    <2>5. ~Placed(f) /\ Placed(f)' /\ \A g \in File \ {f} : Placed(g)' <=> Placed(g)
        <3>1. ~Placed(f)
            BY <1>a, <2>1, HeldCounted
        <3>. QED
            BY <2>1, <2>2, <2>3, <3>1, IdleIs DEF Placed, Owner
    <2>. QED
        BY <1>a, <1>c, <2>1, <2>4, <2>5, RefsMoved
<1>2. ASSUME NEW t \in Task, TakeFd(t) PROVE RefsExact'
    <2>1. PICK place : /\ Moves(t, place) /\ UNCHANGED <<ftable, f_count>>
                       /\ place.file = op[t].file /\ place.at \in {"store", "full"}
        BY <1>2 DEF TakeFd, At
    <2>2. op[t].at = "install"
        BY <1>2 DEF TakeFd
    <2>3. \A f \in File : Users(f)' = Users(f)
        BY <1>b, <2>1, <2>2, UsersKept
    <2>4. \A f \in File : Placed(f)' <=> Placed(f)
        BY <1>b, <2>1, <2>2, PlacedKept DEF Owner
    <2>. QED
        BY <1>a, <2>1, <2>3, <2>4, RefsKept
<1>3. ASSUME NEW t \in Task, StoreFile(t) PROVE RefsExact'
    <2>1. /\ Owner(t) /\ op[t].at = "store" /\ op[t].fd \in Fd /\ f_count' = f_count
          /\ ftable[op[t].fd] \notin File
        BY <1>3, StoresApart DEF StoreFile, Owner
    <2>2. \A fd \in Fd : ftable'[fd] = IF fd = op[t].fd THEN op[t].file ELSE ftable[fd]
        BY <1>a, <1>3 DEF StoreFile, TypeOK
    <2>3. \A u \in Task : op'[u] = IF u = t THEN Idle ELSE op[u]
        BY <1>b, <1>3 DEF StoreFile
    <2>4. \A f \in File : Users(f)' = Users(f)
        BY <2>1, <2>3, IdleIs, UsersKept
    <2>5. \A f \in File : Placed(f)' <=> Placed(f)
        BY <2>1, <2>2, <2>3, IdleIs DEF Placed, Owner
    <2>. QED
        BY <1>a, <2>1, <2>4, <2>5, RefsKept
<1>4. ASSUME NEW t \in Task, OpenFails(t) \/ FilpClose(t) PROVE RefsExact'
    <2>0. PICK f \in File : f = op[t].file
        BY <1>4, OwnersApart DEF OpenFails, FilpClose, Owner
    <2>1. /\ Owner(t) /\ op[t].at # "use" /\ Refs(f, -1) /\ Moves(t, Idle) /\ ftable' = ftable
        BY <1>4, <2>0 DEF OpenFails, FilpClose, Owner
    <2>2. /\ f \in File /\ Placed(f) /\ \A fd \in Fd : ftable[fd] # f
          /\ \A u \in Task : u # t /\ Owner(u) => op[u].file # f
        BY <2>0, <2>1, OwnersApart
    <2>3. \A u \in Task : op'[u] = IF u = t THEN Idle ELSE op[u]
        BY <1>b, <2>1
    <2>4. \A g \in File : Users(g)' = Users(g)
        BY <2>1, <2>3, IdleIs, UsersKept
    <2>5. ~Placed(f)' /\ \A g \in File \ {f} : Placed(g)' <=> Placed(g)
        BY <2>0, <2>1, <2>2, <2>3, IdleIs DEF Placed, Owner
    <2>. QED
        BY <1>a, <1>c, <2>1, <2>2, <2>4, <2>5, RefsMoved
<1>5. ASSUME NEW t \in Task, NEW fd \in Fd, Uninstall(t, fd) PROVE RefsExact'
    <2>1. \A u \in Task : op'[u] = IF u = t THEN At("close", fd, Get(fd)) ELSE op[u]
        BY <1>b, <1>5 DEF Uninstall
    <2>2. Get(fd) = ftable[fd] /\ free_head \notin File
        BY <1>a, <1>5, GetIs, FdIs DEF Uninstall, TypeOK
    <2>3. \A g \in Fd : ftable'[g] = IF g = fd THEN free_head ELSE ftable[g]
        BY <1>a, <1>5 DEF Uninstall, TypeOK
    <2>4. At("close", fd, Get(fd)).at = "close" /\ At("close", fd, Get(fd)).file = ftable[fd]
        BY <2>2 DEF At
    <2>5. op[t].at = "idle" /\ f_count' = f_count
        BY <1>5, IdleIs DEF Uninstall
    <2>6. \A f \in File : Users(f)' = Users(f)
        BY <2>1, <2>4, <2>5, UsersKept
    <2>7. \A f \in File : Placed(f)' <=> Placed(f)
        BY <2>1, <2>2, <2>3, <2>4, <2>5 DEF Placed, Owner
    <2>. QED
        BY <1>a, <2>5, <2>6, <2>7, RefsKept
<1>6. ASSUME NEW t \in Task, FgetRead(t) \/ (\E fd \in Fd : Borrow(t, fd) \/ Fget(t, fd))
      PROVE  RefsExact'
    <2>1. PICK place : /\ Moves(t, place) /\ UNCHANGED <<ftable, f_count>>
                       /\ place.at \in {"idle", "get", "fget", "light"}
                       /\ op[t].at \in {"idle", "fget"}
        BY <1>6, IdleIs DEF FgetRead, Borrow, Fget, At
    <2>2. \A f \in File : Users(f)' = Users(f)
        BY <1>b, <2>1, UsersKept
    <2>3. \A f \in File : Placed(f)' <=> Placed(f)
        BY <1>b, <2>1, PlacedKept DEF Owner
    <2>. QED
        BY <1>a, <2>1, <2>2, <2>3, RefsKept
<1>7. ASSUME NEW t \in Task, FgetRef(t) PROVE RefsExact'
    <2>0. PICK f \in File : f = op[t].file
        BY <1>a, <1>7 DEF FgetRef, OpSound
    <2>1. op[t].at = "get" /\ ftable' = ftable
        BY <1>7 DEF FgetRef
    <2>2. CASE f_count[f] = 0
        <3>1. Moves(t, At("fget", op[t].fd, NoFile)) /\ f_count' = f_count
              /\ At("fget", op[t].fd, NoFile).at = "fget"
            BY <1>7, <2>0, <2>2 DEF FgetRef, At
        <3>2. \A g \in File : Users(g)' = Users(g)
            BY <1>b, <2>1, <3>1, UsersKept
        <3>3. \A g \in File : Placed(g)' <=> Placed(g)
            BY <1>b, <2>1, <3>1, PlacedKept DEF Owner
        <3>. QED
            BY <1>a, <3>1, <3>2, <3>3, RefsKept
    <2>3. CASE f_count[f] # 0
        <3>1. /\ Moves(t, At("use", op[t].fd, f)) /\ Refs(f, 1)
              /\ At("use", op[t].fd, f).at = "use" /\ At("use", op[t].fd, f).file = f
            BY <1>7, <2>0, <2>3 DEF FgetRef, At
        <3>2. \A u \in Task : op'[u] = IF u = t THEN At("use", op[t].fd, f) ELSE op[u]
            BY <1>b, <3>1
        <3>3. t \notin Users(f) /\ Users(f)' = Users(f) \cup {t}
              /\ \A g \in File \ {f} : Users(g)' = Users(g)
            BY <2>1, <3>1, <3>2 DEF Users
        <3>4. \A g \in File : Placed(g)' <=> Placed(g)
            BY <2>1, <3>1, <3>2, PlacedKept DEF Owner
        <3>5. Cardinality(Users(f)') = Cardinality(Users(f)) + 1
            BY <1>c, <3>3, FS_AddElement
        <3>. QED
            BY <1>a, <1>c, <2>1, <3>1, <3>3, <3>4, <3>5, RefsMoved
    <2>. QED
        BY <2>2, <2>3
<1>8. ASSUME NEW t \in Task, Fdput(t) PROVE RefsExact'
    <2>0. PICK f \in File : f = op[t].file
        BY <1>a, <1>8 DEF Fdput, OpSound
    <2>1. /\ op[t].at \in {"use", "light"} /\ ftable' = ftable
          /\ Moves(t, Idle)
          /\ IF op[t].at = "use" THEN Refs(f, -1) ELSE f_count' = f_count
        BY <1>8, <2>0 DEF Fdput
    <2>2. \A g \in File : Placed(g)' <=> Placed(g)
        BY <1>b, <2>1, IdleIs, PlacedKept DEF Owner
    <2>3. CASE op[t].at = "light"
        <3>1. \A g \in File : Users(g)' = Users(g)
            BY <1>b, <2>1, <2>3, IdleIs, UsersKept
        <3>. QED
            BY <1>a, <2>1, <2>2, <2>3, <3>1, RefsKept
    <2>4. CASE op[t].at = "use"
        <3>1. t \in Users(f) /\ Users(f)' = Users(f) \ {t}
              /\ \A g \in File \ {f} : Users(g)' = Users(g)
            BY <1>b, <2>0, <2>1, <2>4, IdleIs DEF Users
        <3>2. Cardinality(Users(f)') = Cardinality(Users(f)) - 1
            BY <1>c, <3>1, FS_RemoveElement
        <3>3. Refs(f, -1) /\ (Placed(f)' <=> Placed(f))
            BY <2>1, <2>2, <2>4
        <3>4. /\ -1 \in Int
              /\ Cardinality(Users(f)') + (IF Placed(f)' THEN 1 ELSE 0)
                    = Cardinality(Users(f)) + (IF Placed(f) THEN 1 ELSE 0) + -1
            BY <1>c, <3>2, <3>3
        <3>. QED
            BY <1>a, <2>2, <3>1, <3>3, <3>4, RefsMoved
    <2>. QED
        BY <2>1, <2>3, <2>4
<1>9. ASSUME UNCHANGED vars PROVE RefsExact'
    BY <1>a, <1>9 DEF RefsExact, Users, Placed, Owner, vars
<1>. QED
    BY <1>1, <1>2, <1>3, <1>4, <1>5, <1>6, <1>7, <1>8, <1>9, TaskSteps

-----------------------------------------------------------------------------
\* A step that stores nothing and takes no descriptor closes none.
LEMMA ClosedKept ==
    ASSUME ftable' = ftable, next_free' = next_free,
           \A u \in Task : \/ op'[u] = op[u]
                           \/ op[u].at # "store" /\ op'[u].at # "store"
    PROVE  Closed' = Closed
BY DEF Closed

LEMMA ListStep == FdInv /\ [Next]_vars => FreeListExact'
<1>. SUFFICES ASSUME FdInv, [Next]_vars PROVE FreeListExact'
    OBVIOUS
<1>a. TypeOK /\ OpSound /\ OneSlot /\ FreeListExact /\ UnusedEmpty
    BY DEF FdInv
<1>b. \A t \in Task : \A place : Moves(t, place) =>
          \A u \in Task : op'[u] = IF u = t THEN place ELSE op[u]
    BY <1>a, OpMoves
<1>1. ASSUME ftable' = ftable, free_head' = free_head, Closed' = Closed PROVE FreeListExact'
    BY <1>a, <1>1, ListKept
<1>2. ASSUME NEW t \in Task, FilpOpen(t) \/ OpenFails(t) \/ FilpClose(t) \/ Fdput(t)
                             \/ FgetRead(t) \/ FgetRef(t)
                             \/ (\E fd \in Fd : Borrow(t, fd) \/ Fget(t, fd))
      PROVE  FreeListExact'
    <2>1. PICK place : /\ Moves(t, place) /\ UNCHANGED <<ftable, next_free, free_head>>
                       /\ place.at # "store" /\ op[t].at # "store"
        BY <1>2, IdleIs
           DEF FilpOpen, OpenFails, FilpClose, Fdput, FgetRead, FgetRef, Borrow, Fget, At
    <2>2. Closed' = Closed
        BY <1>b, <2>1, ClosedKept
    <2>. QED
        BY <1>1, <2>1, <2>2
<1>3. ASSUME NEW t \in Task, TakeFd(t) PROVE FreeListExact'
    <2>1. op[t].at = "install" /\ ftable' = ftable
        BY <1>3 DEF TakeFd
    <2>2. CASE next_free # TableSize
        <3>1. /\ next_free \in Fd /\ next_free' = next_free + 1 /\ free_head' = free_head
              /\ \A u \in Task : op'[u] = IF u = t THEN At("store", next_free, op[t].file)
                                                   ELSE op[u]
            BY <1>a, <1>b, <1>3, <2>2, FdAssumption DEF TakeFd, TypeOK, Fd, FirstFd
        <3>2. /\ At("store", next_free, op[t].file).at = "store"
              /\ At("store", next_free, op[t].file).fd = next_free
            BY DEF At
        <3>3. next_free \in Int /\ \A fd \in Fd : fd \in Int
                  /\ (fd < next_free + 1 <=> fd < next_free \/ fd = next_free)
            BY <3>1, FdIs
        <3>4. \A fd \in Fd : fd \in Closed' <=> fd \in Closed
            <4>. SUFFICES ASSUME NEW fd \in Fd PROVE fd \in Closed' <=> fd \in Closed
                OBVIOUS
            <4>1. CASE fd = next_free
                BY <2>1, <3>1, <3>2, <3>3, <4>1 DEF Closed
            <4>2. CASE fd # next_free
                BY <2>1, <3>1, <3>2, <3>3, <4>2 DEF Closed
            <4>. QED
                BY <4>1, <4>2
        <3>5. Closed' = Closed
            BY <3>4 DEF Closed
        <3>. QED
            BY <1>1, <2>1, <3>1, <3>5
    <2>3. CASE next_free = TableSize /\ free_head # 0
        <3>1. /\ next_free' = next_free /\ free_head' = ftable[free_head]
              /\ \A u \in Task : op'[u] = IF u = t THEN At("store", free_head, op[t].file)
                                                   ELSE op[u]
            BY <1>b, <1>3, <2>3 DEF TakeFd
        <3>2. /\ At("store", free_head, op[t].file).at = "store"
              /\ At("store", free_head, op[t].file).fd = free_head
            BY DEF At
        <3>3. Closed' = Closed \ {free_head}
            BY <2>1, <3>1, <3>2 DEF Closed
        <3>. QED
            BY <1>a, <2>1, <2>3, <3>1, <3>3, ListTaken
    <2>4. CASE next_free = TableSize /\ free_head = 0
        <3>1. /\ next_free' = next_free /\ free_head' = free_head
              /\ Moves(t, At("full", 0, op[t].file)) /\ At("full", 0, op[t].file).at = "full"
            BY <1>3, <2>4 DEF TakeFd, At
        <3>2. Closed' = Closed
            BY <1>b, <2>1, <3>1, ClosedKept
        <3>. QED
            BY <1>1, <2>1, <3>1, <3>2
    <2>. QED
        BY <2>2, <2>3, <2>4
<1>4. ASSUME NEW t \in Task, StoreFile(t) PROVE FreeListExact'
    <2>1. /\ op[t].at = "store" /\ op[t].fd \in Fd /\ op[t].file \in File
          /\ next_free' = next_free /\ free_head' = free_head
          /\ \A u \in Task : u # t /\ op[u].at = "store" => op[u].fd # op[t].fd
        BY <1>4, StoresApart, OwnersApart DEF StoreFile, Owner
    <2>2. \A fd \in Fd : ftable'[fd] = IF fd = op[t].fd THEN op[t].file ELSE ftable[fd]
        BY <1>a, <1>4 DEF StoreFile, TypeOK
    <2>3. \A u \in Task : op'[u] = IF u = t THEN Idle ELSE op[u]
        BY <1>b, <1>4 DEF StoreFile
    <2>4. Closed' = Closed
        BY <2>1, <2>2, <2>3, IdleIs DEF Closed
    <2>5. \A fd \in Closed : ftable'[fd] = ftable[fd]
        BY <2>1, <2>2 DEF Closed
    <2>. QED
        BY <1>a, <2>1, <2>4, <2>5, ListKept
<1>5. ASSUME NEW t \in Task, NEW fd \in Fd, Uninstall(t, fd) PROVE FreeListExact'
    <2>1. /\ ftable[fd] \in File /\ free_head \notin File /\ next_free' = next_free
          /\ ftable' = [ftable EXCEPT ![fd] = free_head] /\ free_head' = fd
          /\ op[t].at = "idle"
        BY <1>a, <1>5, GetIs, FdIs, IdleIs DEF Uninstall, TypeOK
    <2>2. \A u \in Task : op'[u] = IF u = t THEN At("close", fd, Get(fd)) ELSE op[u]
        BY <1>b, <1>5 DEF Uninstall
    <2>3. At("close", fd, Get(fd)).at = "close"
        BY DEF At
    <2>4. \A g \in Fd : ftable'[g] = IF g = fd THEN free_head ELSE ftable[g]
        BY <1>a, <2>1 DEF TypeOK
    <2>5. /\ fd < next_free
          /\ \A u \in Task : ~(op[u].at = "store" /\ op[u].fd = fd)
        BY <1>a, <2>1 DEF UnusedEmpty, OneSlot
    <2>6. fd \notin Closed /\ Closed' = Closed \cup {fd}
        BY <2>1, <2>2, <2>3, <2>4, <2>5 DEF Closed
    <2>. QED
        BY <1>a, <2>1, <2>6, ListPut
<1>6. ASSUME UNCHANGED vars PROVE FreeListExact'
    <2>1. Closed' = Closed
        BY <1>6 DEF Closed, vars
    <2>. QED
        BY <1>1, <1>6, <2>1 DEF vars
<1>. QED
    BY <1>2, <1>3, <1>4, <1>5, <1>6, TaskSteps

-----------------------------------------------------------------------------
\* The invariant holds in every state of the descriptor table.
THEOREM Inductive == Spec => []FdInv
<1>1. FdInv /\ [Next]_vars => FdInv'
    BY TypesStep, SoundStep, UnusedStep, SlotStep, RefsStep, ListStep DEF FdInv
<1>. QED
    BY InitInv, <1>1, PTL DEF Spec

\* The table, the counts and the places of the tasks keep their types, which
\* next_free and the links of the free list get from the list being exact.
THEOREM FdTypes == Spec => []TypeOK
<1>1. FdInv => TypeOK
    BY DEF FdInv
<1>. QED
    BY Inductive, <1>1, PTL

\* A file is in one slot, or with one task, whatever the stores that
\* __install_file makes after it has dropped ftable_lock meet.
THEOREM OneSlotEach == Spec => []OneSlot
<1>1. FdInv => OneSlot
    BY DEF FdInv
<1>. QED
    BY Inductive, <1>1, PTL

\* get_file_rcu, fput and filp_close keep the count of every file exact.
THEOREM CountsExact == Spec => []RefsExact
<1>1. FdInv => RefsExact
    BY DEF FdInv
<1>. QED
    BY Inductive, <1>1, PTL

\* The free list threaded through the table neither loses nor repeats a
\* descriptor: __install_file and __uninstall_file keep it a list.
THEOREM ListExact == Spec => []FreeListExact
<1>1. FdInv => FreeListExact
    BY DEF FdInv
<1>. QED
    BY Inductive, <1>1, PTL

\* No task reads, writes or syncs a file that has gone, with the reference
\* of __fget or with none, as __fget_light has it.
THEOREM UsedLive == Spec => []UsedFilesLive
<1>1. FdInv => UsedFilesLive
    <2>. SUFFICES ASSUME FdInv, NEW t \in Task, op[t].at \in {"use", "light"}
                  PROVE  f_count[op[t].file] > 0
        BY DEF UsedFilesLive
    <2>1. TypeOK /\ OpSound /\ RefsExact /\ op[t].file \in File
        BY DEF FdInv, OpSound
    <2>2. op[t].at = "light" => Placed(op[t].file)
        BY <2>1 DEF OpSound, Placed
    <2>. QED
        BY <2>1, <2>2, HeldCounted
<1>. QED
    BY Inductive, <1>1, PTL

\* open answers EMFILE only when the table has no descriptor to give.
THEOREM FullIsFull == Spec => FullMeansFull
<1>1. FdInv /\ [Next]_vars =>
          [\A t \in Task : op'[t].at = "full" /\ op[t].at # "full" =>
               \A fd \in Fd : fd < next_free /\ fd \notin Closed]_vars
    <2>. SUFFICES ASSUME FdInv, [Next]_vars,
                         NEW t \in Task, op'[t].at = "full", op[t].at # "full"
                  PROVE  \A fd \in Fd : fd < next_free /\ fd \notin Closed
        OBVIOUS
    <2>a. TypeOK /\ FreeListExact
        BY DEF FdInv
    <2>b. \A u \in Task : \A place : Moves(u, place) =>
              op'[t] = IF t = u THEN place ELSE op[t]
        BY <2>a, OpMoves
    <2>1. PICK u \in Task : TakeFd(u)
        <3>1. ASSUME NEW u \in Task, FilpOpen(u) \/ StoreFile(u) \/ OpenFails(u) \/ FilpClose(u)
                                     \/ FgetRead(u) \/ FgetRef(u) \/ Fdput(u)
                                     \/ (\E fd \in Fd : Uninstall(u, fd) \/ Borrow(u, fd)
                                                        \/ Fget(u, fd))
              PROVE  FALSE
            <4>1. \E place : Moves(u, place) /\ place.at # "full"
                <5>0. CASE FilpOpen(u)
                    <6>1. \A f : At("install", 0, f).at # "full"
                        BY DEF At
                    <6>. QED
                        BY <5>0, <6>1 DEF FilpOpen
                <5>1. CASE StoreFile(u) \/ OpenFails(u) \/ FilpClose(u) \/ Fdput(u)
                    BY <5>1, IdleIs DEF StoreFile, OpenFails, FilpClose, Fdput
                <5>2. CASE FgetRead(u)
                    <6>1. \A slot, f : At("get", slot, f).at = "get"
                        BY DEF At
                    <6>. QED
                        BY <5>2, <6>1, IdleIs DEF FgetRead
                <5>3. CASE FgetRef(u)
                    <6>1. \A slot, f : /\ At("use", slot, f).at = "use"
                                       /\ At("fget", slot, f).at = "fget"
                        BY DEF At
                    <6>. QED
                        BY <5>3, <6>1 DEF FgetRef
                <5>4. CASE \E fd \in Fd : Uninstall(u, fd) \/ Borrow(u, fd) \/ Fget(u, fd)
                    BY <5>4 DEF Uninstall, Borrow, Fget, At
                <5>. QED
                    BY <3>1, <5>0, <5>1, <5>2, <5>3, <5>4
            <4>. QED
                BY <2>b, <4>1
        <3>2. ~UNCHANGED vars
            BY DEF vars
        <3>. QED
            BY <3>1, <3>2, TaskSteps
    <2>2. next_free = TableSize /\ free_head = 0
        BY <2>b, <2>1 DEF TakeFd, At
    <2>3. Closed = {}
        BY <2>a, <2>2, HeadClosed
    <2>. QED
        BY <2>2, <2>3, FdAssumption DEF Fd, FirstFd
<1>. QED
    BY Inductive, <1>1, PTL DEF Spec, FullMeansFull
=============================================================================
