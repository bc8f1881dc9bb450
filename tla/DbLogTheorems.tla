---------------------------- MODULE DbLogTheorems ----------------------------
(***************************************************************************)
(* The log keeps what was put into it, its sync point only moves forward   *)
(* and tells the truth, the flushes are counted right and nobody waits for *)
(* a flush that nobody makes: for any number of tasks, any size of files   *)
(* and buffer, and any number of failing writes and syncs.                 *)
(***************************************************************************)
EXTENDS DbLog, SequenceTheorems, FiniteSetTheorems, NaturalsInduction,
        WellFoundedInduction, TLAPS

-----------------------------------------------------------------------------
(***************************************************************************)
(* Lists without duplicates                                                *)
(***************************************************************************)
List(S) == {s \in Seq(S) : IsInjective(s)}

LEMMA ListIs ==
    ASSUME NEW S, NEW s \in List(S)
    PROVE  /\ s \in Seq(S) /\ Len(s) \in Nat /\ DOMAIN s = 1 .. Len(s)
           /\ \A i \in 1 .. Len(s) : s[i] \in S /\ s[i] \in ToSet(s)
           /\ \A i, j \in 1 .. Len(s) : s[i] = s[j] => i = j
           /\ \A x : x \in ToSet(s) <=> \E i \in 1 .. Len(s) : s[i] = x
           /\ ToSet(s) \in SUBSET S
           /\ s = <<>> <=> Len(s) = 0
           /\ s = <<>> <=> ToSet(s) = {}
           /\ s # <<>> => Head(s) = s[1] /\ Head(s) \in ToSet(s) /\ 1 \in 1 .. Len(s)
<1>1. s \in Seq(S) /\ \A i, j \in DOMAIN s : s[i] = s[j] => i = j
    BY DEF List, IsInjective
<1>2. Len(s) \in Nat /\ DOMAIN s = 1 .. Len(s) /\ s \in [1 .. Len(s) -> S]
    BY <1>1, LenProperties
<1>3. \A x : x \in ToSet(s) <=> \E i \in 1 .. Len(s) : s[i] = x
    BY <1>2 DEF ToSet
<1>4. s = <<>> <=> Len(s) = 0
    BY <1>1
<1>5. s # <<>> => 1 \in 1 .. Len(s) /\ Head(s) = s[1]
    BY <1>1, <1>2, <1>4
<1>6. \A i \in 1 .. Len(s) : s[i] \in S /\ s[i] \in ToSet(s)
    BY <1>2, <1>3
<1>7. s = <<>> <=> ToSet(s) = {}
    <2>1. CASE s = <<>>
        BY <1>2, <1>3, <1>4, <2>1
    <2>2. CASE s # <<>>
        BY <1>5, <1>6, <2>2
    <2>. QED
        BY <2>1, <2>2
<1>. QED
    BY <1>1, <1>2, <1>3, <1>4, <1>5, <1>6, <1>7

LEMMA ListBuilt ==
    ASSUME NEW S, NEW s \in Seq(S),
           \A i, j \in 1 .. Len(s) : s[i] = s[j] => i = j
    PROVE  s \in List(S)
<1>1. DOMAIN s = 1 .. Len(s)
    BY LenProperties
<1>. QED
    BY <1>1 DEF List, IsInjective

LEMMA EmptyList ==
    ASSUME NEW S
    PROVE  <<>> \in List(S) /\ ToSet(<<>>) = {}
<1>1. <<>> \in Seq(S) /\ Len(<<>>) = 0
    BY EmptySeq
<1>2. DOMAIN <<>> = {}
    BY <1>1, LenProperties
<1>3. <<>> \in List(S)
    BY <1>1, <1>2 DEF List, IsInjective
<1>. QED
    BY <1>3, ListIs

\* An element in front of a list, or behind it.
LEMMA ListCons ==
    ASSUME NEW S, NEW s \in List(S), NEW x \in S, x \notin ToSet(s)
    PROVE  /\ <<x>> \o s \in List(S)
           /\ ToSet(<<x>> \o s) = ToSet(s) \cup {x}
           /\ <<x>> \o s # <<>> /\ Head(<<x>> \o s) = x
<1>. DEFINE r == <<x>> \o s
<1>1. s \in Seq(S) /\ <<x>> \in Seq(S) /\ Len(<<x>>) = 1 /\ <<x>>[1] = x /\ Len(s) \in Nat
    BY ListIs
<1>2. /\ r \in Seq(S) /\ Len(r) = 1 + Len(s)
      /\ \A i \in 1 .. 1 + Len(s) : r[i] = IF i <= 1 THEN <<x>>[i] ELSE s[i - 1]
    BY <1>1, ConcatProperties
<1>. HIDE DEF r
<1>3. r[1] = x /\ 1 \in 1 .. Len(r)
    BY <1>1, <1>2
<1>4. \A i \in 1 .. Len(r) : i # 1 => i - 1 \in 1 .. Len(s) /\ r[i] = s[i - 1] /\ r[i] # x
    <2>. SUFFICES ASSUME NEW i \in 1 .. Len(r), i # 1
                  PROVE  i - 1 \in 1 .. Len(s) /\ r[i] = s[i - 1] /\ r[i] # x
        OBVIOUS
    <2>1. i - 1 \in 1 .. Len(s) /\ r[i] = s[i - 1]
        BY <1>1, <1>2
    <2>. QED
        BY <2>1, ListIs
<1>5. \A i, j \in 1 .. Len(r) : r[i] = r[j] => i = j
    <2>. SUFFICES ASSUME NEW i \in 1 .. Len(r), NEW j \in 1 .. Len(r), r[i] = r[j]
                  PROVE  i = j
        OBVIOUS
    <2>1. CASE i = 1 \/ j = 1
        BY <1>3, <1>4, <2>1
    <2>2. CASE i # 1 /\ j # 1
        <3>1. i - 1 = j - 1
            BY <1>4, <2>2, ListIs
        <3>. QED
            BY <1>1, <1>2, <3>1
    <2>. QED
        BY <2>1, <2>2
<1>6. r \in List(S)
    BY <1>2, <1>5, ListBuilt
<1>7. \A y : y \in ToSet(r) <=> y \in ToSet(s) \/ y = x
    <2>1. \A y : y \in ToSet(r) <=> \E i \in 1 .. Len(r) : r[i] = y
        BY <1>6, ListIs
    <2>2. \A y : y \in ToSet(s) <=> \E i \in 1 .. Len(s) : s[i] = y
        BY ListIs
    <2>3. \A i \in 1 .. Len(s) : i + 1 \in 1 .. Len(r) /\ r[i + 1] = s[i]
        BY <1>1, <1>2
    <2>4. ASSUME NEW y, y \in ToSet(r)
          PROVE  y \in ToSet(s) \/ y = x
        <3>1. PICK i \in 1 .. Len(r) : r[i] = y
            BY <2>1, <2>4
        <3>2. i = 1 \/ \E j \in 1 .. Len(s) : r[i] = s[j]
            BY <1>4
        <3>. QED
            BY <1>3, <2>2, <3>1, <3>2
    <2>5. ASSUME NEW y, y \in ToSet(s) \/ y = x
          PROVE  y \in ToSet(r)
        <3>1. CASE y \in ToSet(s)
            <4>1. PICK i \in 1 .. Len(s) : s[i] = y
                BY <2>2, <3>1
            <4>. QED
                BY <2>1, <2>3, <4>1
        <3>2. CASE y = x
            BY <1>3, <2>1, <3>2
        <3>. QED
            BY <2>5, <3>1, <3>2
    <2>. QED
        BY <2>4, <2>5
<1>8. r # <<>> /\ Head(r) = x
    BY <1>3, <1>6, <1>7, ListIs
<1>. QED
    BY <1>6, <1>7, <1>8 DEF r

LEMMA ListAppend ==
    ASSUME NEW S, NEW s \in List(S), NEW x \in S, x \notin ToSet(s)
    PROVE  /\ Append(s, x) \in List(S)
           /\ ToSet(Append(s, x)) = ToSet(s) \cup {x}
           /\ Append(s, x) # <<>>
           /\ Head(Append(s, x)) = IF s = <<>> THEN x ELSE Head(s)
<1>. DEFINE r == Append(s, x)
<1>1. s \in Seq(S) /\ Len(s) \in Nat
    BY ListIs
<1>2. /\ r \in Seq(S) /\ Len(r) = Len(s) + 1 /\ r # <<>>
      /\ \A i \in 1 .. Len(s) : r[i] = s[i]
      /\ r[Len(s) + 1] = x
    BY <1>1, AppendProperties
<1>3. Head(r) = IF s = <<>> THEN x ELSE Head(s)
    BY <1>1, HeadTailAppend
<1>. HIDE DEF r
<1>4. \A i \in 1 .. Len(r) : i \in 1 .. Len(s) \/ i = Len(s) + 1
    BY <1>1, <1>2
<1>5. \A i \in 1 .. Len(s) : r[i] # x
    BY <1>2, ListIs
<1>6. \A i, j \in 1 .. Len(r) : r[i] = r[j] => i = j
    BY <1>2, <1>4, <1>5, ListIs
<1>7. r \in List(S)
    BY <1>2, <1>6, ListBuilt
<1>8. \A y : y \in ToSet(r) <=> y \in ToSet(s) \/ y = x
    <2>1. \A y : y \in ToSet(r) <=> \E i \in 1 .. Len(r) : r[i] = y
        BY <1>7, ListIs
    <2>2. \A y : y \in ToSet(s) <=> \E i \in 1 .. Len(s) : s[i] = y
        BY ListIs
    <2>3. Len(s) + 1 \in 1 .. Len(r) /\ \A i \in 1 .. Len(s) : i \in 1 .. Len(r)
        BY <1>1, <1>2
    <2>. QED
        BY <1>2, <1>4, <2>1, <2>2, <2>3
<1>. QED
    BY <1>2, <1>3, <1>7, <1>8 DEF r

LEMMA ListTail ==
    ASSUME NEW S, NEW s \in List(S), s # <<>>
    PROVE  Tail(s) \in List(S) /\ ToSet(Tail(s)) = ToSet(s) \ {Head(s)}
<1>. DEFINE r == Tail(s)
<1>1. s \in Seq(S) /\ Len(s) \in Nat /\ Len(s) # 0 /\ Head(s) = s[1]
    BY ListIs
<1>2. /\ r \in Seq(S) /\ Len(r) = Len(s) - 1
      /\ \A i \in 1 .. Len(r) : r[i] = s[i + 1]
    BY <1>1, HeadTailProperties
<1>. HIDE DEF r
<1>3. \A i \in 1 .. Len(r) : i + 1 \in 1 .. Len(s) /\ i + 1 # 1
    BY <1>1, <1>2
<1>4. \A i, j \in 1 .. Len(r) : r[i] = r[j] => i = j
    <2>. SUFFICES ASSUME NEW i \in 1 .. Len(r), NEW j \in 1 .. Len(r), r[i] = r[j]
                  PROVE  i = j
        OBVIOUS
    <2>1. i + 1 = j + 1
        BY <1>2, <1>3, ListIs
    <2>. QED
        BY <2>1
<1>5. r \in List(S)
    BY <1>2, <1>4, ListBuilt
<1>6. \A y : y \in ToSet(r) <=> y \in ToSet(s) /\ y # s[1]
    <2>1. \A y : y \in ToSet(r) <=> \E i \in 1 .. Len(r) : r[i] = y
        BY <1>5, ListIs
    <2>2. \A y : y \in ToSet(s) <=> \E i \in 1 .. Len(s) : s[i] = y
        BY ListIs
    <2>3. \A i \in 1 .. Len(s) : i # 1 => i - 1 \in 1 .. Len(r) /\ r[i - 1] = s[i]
        BY <1>1, <1>2
    <2>4. \A i \in 1 .. Len(s) : s[i] = s[1] => i = 1
        <3>1. 1 \in 1 .. Len(s)
            BY <1>1
        <3>. QED
            BY <3>1, ListIs
    <2>. QED
        BY <1>2, <1>3, <2>1, <2>2, <2>3, <2>4
<1>. QED
    BY <1>1, <1>5, <1>6 DEF r

-----------------------------------------------------------------------------
(***************************************************************************)
(* The walk down the list of waiters                                       *)
(***************************************************************************)
Less == {p \in Nat \X Nat : p[1] < p[2]}

\* Every set of numbers has a least element.
LEMMA LeastOf ==
    ASSUME NEW S \in SUBSET Nat, S # {}
    PROVE  \E x \in S : \A y \in S : x <= y
<1>1. IsWellFoundedOn(Less, Nat)
    BY NatLessThanWellFounded DEF OpToRel, Less
<1>2. PICK x \in S : \A y \in S : ~(<<y, x>> \in Less)
    BY <1>1, WFMin
<1>3. ASSUME NEW y \in S PROVE x <= y
    <2>1. x \in Nat /\ y \in Nat /\ <<y, x>> \in Nat \X Nat
        OBVIOUS
    <2>2. ~(<<y, x>>[1] < <<y, x>>[2])
        BY <1>2, <2>1 DEF Less
    <2>. QED
        BY <2>1, <2>2
<1>. QED
    BY <1>3

\* What the walk makes of the i-th waiter of s when f has what it made of
\* those before him.
Walk(s, f, i) ==
    IF i = 0 THEN <<>>
    ELSE IF Flushed(op[s[i]].goal) THEN f[i - 1] ELSE Append(f[i - 1], s[i])

\* There is a walk down every list.
LEMMA WalkExists ==
    ASSUME NEW s \in List(Task)
    PROVE  \A n \in 0 .. Len(s) : \E f : f = [i \in 0 .. n |-> Walk(s, f, i)]
<1>. DEFINE Has(n) == \E f : f = [i \in 0 .. n |-> Walk(s, f, i)]
            Bad == {n \in 0 .. Len(s) : ~Has(n)}
<1>. SUFFICES ASSUME Bad # {} PROVE FALSE
    OBVIOUS
<1>1. Len(s) \in Nat
    BY ListIs
<1>2. PICK m \in Bad : \A y \in Bad : m <= y
    <2>1. Bad \in SUBSET Nat
        BY <1>1
    <2>. HIDE DEF Bad
    <2>. QED
        BY <2>1, LeastOf
<1>3. m \in 0 .. Len(s) /\ ~Has(m)
    BY <1>2
<1>4. CASE m = 0
    <2>. DEFINE f == [i \in 0 .. 0 |-> <<>>]
    <2>1. f = [i \in 0 .. 0 |-> Walk(s, f, i)]
        BY DEF Walk
    <2>. QED
        BY <1>3, <1>4, <2>1
<1>5. CASE m # 0
    <2>1. m - 1 \in 0 .. Len(s) /\ m - 1 \notin Bad
        BY <1>1, <1>2, <1>3, <1>5
    <2>2. PICK g : g = [i \in 0 .. m - 1 |-> Walk(s, g, i)]
        BY <2>1
    <2>. DEFINE f == [i \in 0 .. m |-> IF i = m THEN Walk(s, g, m) ELSE g[i]]
    <2>3. ASSUME NEW i \in 0 .. m PROVE f[i] = Walk(s, f, i)
        <3>1. CASE i = m
            <4>1. m - 1 \in 0 .. m /\ f[m - 1] = g[m - 1]
                BY <1>3, <1>5
            <4>. QED
                BY <1>3, <3>1, <4>1 DEF Walk
        <3>2. CASE i # m
            <4>1. i \in 0 .. m - 1 /\ (i # 0 => i - 1 \in 0 .. m /\ i - 1 # m)
                BY <1>3, <3>2
            <4>2. f[i] = g[i] /\ (i # 0 => f[i - 1] = g[i - 1])
                BY <3>2, <4>1
            <4>3. g[i] = Walk(s, g, i)
                BY <2>2, <4>1
            <4>. HIDE DEF f
            <4>. QED
                BY <4>2, <4>3 DEF Walk
        <3>. QED
            BY <3>1, <3>2
    <2>4. f = [i \in 0 .. m |-> Walk(s, f, i)]
        <3>1. f = [i \in 0 .. m |-> f[i]]
            OBVIOUS
        <3>. HIDE DEF f
        <3>. QED
            BY <2>3, <3>1
    <2>. HIDE DEF f
    <2>. QED
        BY <1>3, <2>4
<1>. QED
    BY <1>4, <1>5

\* It leaves those whose record is not synced.
LEMMA NotSyncedIs ==
    ASSUME NEW s \in List(Task)
    PROVE  /\ NotSynced(s) \in List(Task)
           /\ ToSet(NotSynced(s)) = {u \in ToSet(s) : ~Flushed(op[u].goal)}
<1>. DEFINE Is(f)  == f = [i \in 0 .. Len(s) |-> Walk(s, f, i)]
            rest   == CHOOSE f : Is(f)
            So(i)  == {s[k] : k \in {k \in 1 .. i : ~Flushed(op[s[k]].goal)}}
            Bad    == {i \in 0 .. Len(s) : ~(/\ rest[i] \in List(Task)
                                            /\ ToSet(rest[i]) = So(i))}
<1>1. Len(s) \in Nat /\ Len(s) \in 0 .. Len(s)
    BY ListIs
<1>2. Is(rest)
    <2>1. \E f : Is(f)
        BY <1>1, WalkExists
    <2>. HIDE DEF Is
    <2>. QED
        BY <2>1
<1>3. NotSynced(s) = rest[Len(s)]
    BY DEF NotSynced, Walk
<1>4. \A i \in 0 .. Len(s) : rest[i] = Walk(s, rest, i)
    <2>. HIDE DEF rest
    <2>. QED
        BY <1>2
<1>. HIDE DEF rest
<1>5. Bad = {}
    <2>. SUFFICES ASSUME Bad # {} PROVE FALSE
        OBVIOUS
    <2>1. Bad \in SUBSET Nat
        BY <1>1
    <2>2. PICK m \in Bad : \A y \in Bad : m <= y
        BY <2>1, LeastOf
    <2>3. m \in 0 .. Len(s)
        BY <2>2
    <2>4. CASE m = 0
        <3>1. rest[m] = <<>> /\ So(m) = {}
            BY <1>4, <2>3, <2>4 DEF Walk
        <3>. QED
            BY <2>2, <3>1, EmptyList
    <2>5. CASE m # 0
        <3>a. m - 1 \in 0 .. Len(s) /\ m \in 1 .. Len(s) /\ ~(m <= m - 1)
            BY <1>1, <2>3, <2>5
        <3>1. m - 1 \in 0 .. Len(s) /\ m - 1 \notin Bad /\ m \in 1 .. Len(s)
            <4>. HIDE DEF Bad
            <4>. QED
                BY <2>2, <3>a
        <3>2. rest[m - 1] \in List(Task) /\ ToSet(rest[m - 1]) = So(m - 1)
            BY <3>1
        <3>3. \A k : k \in 1 .. m <=> k \in 1 .. m - 1 \/ k = m
            BY <1>1, <3>1
        <3>4. CASE Flushed(op[s[m]].goal)
            <4>1. rest[m] = rest[m - 1]
                BY <1>4, <2>3, <2>5, <3>4 DEF Walk
            <4>2. So(m) = So(m - 1)
                BY <3>3, <3>4
            <4>. QED
                BY <2>2, <3>2, <4>1, <4>2
        <3>5. CASE ~Flushed(op[s[m]].goal)
            <4>1. rest[m] = Append(rest[m - 1], s[m])
                BY <1>4, <2>3, <2>5, <3>5 DEF Walk
            <4>2. So(m) = So(m - 1) \cup {s[m]}
                BY <3>3, <3>5
            <4>3. s[m] \in Task /\ \A k \in 1 .. m - 1 : s[k] # s[m]
                <5>1. \A k \in 1 .. m - 1 : k \in 1 .. Len(s) /\ k # m
                    BY <1>1, <3>1
                <5>. QED
                    BY <3>1, <5>1, ListIs
            <4>4. s[m] \notin So(m - 1)
                BY <4>3
            <4>5. /\ Append(rest[m - 1], s[m]) \in List(Task)
                  /\ ToSet(Append(rest[m - 1], s[m])) = So(m - 1) \cup {s[m]}
                <5>. HIDE DEF So
                <5>. QED
                    BY <3>2, <4>3, <4>4, ListAppend
            <4>. QED
                BY <2>2, <4>1, <4>2, <4>5
        <3>. QED
            BY <3>4, <3>5
    <2>. QED
        BY <2>4, <2>5
<1>6. rest[Len(s)] \in List(Task) /\ ToSet(rest[Len(s)]) = So(Len(s))
    BY <1>1, <1>5
<1>7. So(Len(s)) = {u \in ToSet(s) : ~Flushed(op[u].goal)}
    <2>1. \A x : x \in ToSet(s) <=> \E i \in 1 .. Len(s) : s[i] = x
        BY ListIs
    <2>. QED
        BY <2>1
<1>. QED
    BY <1>3, <1>6, <1>7

-----------------------------------------------------------------------------
(***************************************************************************)
(* The inductive invariant                                                 *)
(***************************************************************************)
OpType == [at : Places, for : {"none", "page", "undo", "commit", "update"},
           lsn : LsnType, goal : LsnType, release : BOOLEAN,
           snap : LsnType, woken : {"no", "done", "flush"}, ok : BOOLEAN]

\* Between the call of __log_flush_int and its return.
Asks(t) == op[t].at \in {"flush", "wait", "mtx", "sync", "synced", "flushed"}

\* A commit whose record is in the log.
Commits(t) == op[t].for = "commit" /\ op[t].lsn # ZeroLsn

\* On the way to a new file, whose first record is not written yet.
Turns(t) == /\ op[t].for \in {"commit", "update"} /\ op[t].lsn = ZeroLsn
            /\ Asks(t) \/ At(t, "newfile")

\* Which calls let the region go, and which are woken.
Shape(t) ==
    /\ At(t, "out") => op[t] = Idle
    /\ op[t].at \in {"newfile", "put"} =>
           op[t].for \in {"commit", "update"} /\ op[t].lsn = ZeroLsn
    /\ Asks(t) => op[t].for # "none"
    /\ op[t].lsn # ZeroLsn => op[t].for \in {"commit", "undo"}
    /\ op[t].for = "undo" => op[t].lsn # ZeroLsn /\ ~op[t].release
    /\ Commits(t) \/ op[t].for = "page" \/ At(t, "wait") => op[t].release
    /\ Turns(t) => ~op[t].release
    /\ op[t].woken # "no" => At(t, "wait")

Holds(t) == \/ op[t].at \in {"newfile", "put", "flush", "mtx", "flushed"}
            \/ op[t].at \in {"sync", "synced"} /\ ~op[t].release

\* Who holds the lock of the region, and the flush mutex.
Locks == \A t \in Task : /\ region = t <=> Holds(t)
                         /\ mtx_flush = t <=> At(t, "sync")

\* Where the next record goes, and what is in the buffer.
Positions ==
    /\ lsn.file \in Files /\ lsn.offset \in 0 .. LogSize /\ lsn.offset % RecLen = 0
    /\ lsn.offset = w_off + Len(bufp)
    /\ bufp # <<>> => f_lsn = Lsn(lsn.file, w_off - (w_off % RecLen))
    /\ lsn.offset # 0 => f_lsn.file = lsn.file
    /\ lsn.offset = 0 => \E t \in Task : At(t, "newfile")

\* The sync point lies before what is written, and all older files lie before
\* the sync point.
SyncPoint ==
    /\ s_lsn.offset \in 0 .. LogSize /\ s_lsn.offset % RecLen = 0
    /\ s_lsn.file <= lsn.file
    /\ s_lsn.file = lsn.file => s_lsn.offset <= w_off
    /\ s_lsn.file < lsn.file => /\ s_lsn.file = lsn.file - 1
                                /\ s_lsn.file # 0 => s_lsn.offset = LogSize

Record(l) == /\ l.file \in Files /\ l.offset \in 0 .. LogSize - RecLen
             /\ l.offset % RecLen = 0 /\ Before(l, lsn)

\* What task t asks for is in the log, and what it syncs is written.
Goal(t) ==
    /\ At(t, "put") => lsn.offset + RecLen <= LogSize
    /\ op[t].lsn # ZeroLsn => Record(op[t].lsn)
    /\ Asks(t) => Before(op[t].goal, lsn)
    /\ Commits(t) => ~Before(op[t].goal, op[t].lsn)
    /\ At(t, "wait") => ~Before(t_lsn, op[t].goal)
    /\ op[t].woken = "done" => Flushed(op[t].goal)
    /\ At(t, "sync") => /\ op[t].snap.file = lsn.file
                        /\ op[t].snap.offset \in 0 .. w_off
                        /\ op[t].snap.offset % RecLen = 0
                        /\ ~Before(op[t].snap, s_lsn)
                        /\ Before(op[t].goal, op[t].snap)
    /\ op[t].at \in {"synced", "flushed"} /\ op[t].ok => Flushed(op[t].goal)

\* The log is flushed to the end of the file before it goes on in a new one,
\* and nobody else syncs meanwhile.
Turning(t) ==
    Turns(t) /\ ~(At(t, "newfile") /\ lsn.offset = 0) =>
        /\ lsn.file < MaxFile /\ lsn.offset = LogSize
        /\ At(t, "newfile") \/ op[t].goal = LastLsn
        /\ \/ op[t].at \in {"sync", "synced", "newfile"}
           \/ At(t, "flushed") /\ op[t].ok
           => bufp = <<>>
        /\ At(t, "newfile") => s_lsn = lsn
        /\ op[t].at \in {"sync", "synced", "flushed", "newfile"} =>
               \A u \in Task \ {t} : ~At(u, "sync")

\* No two tasks have the same record.
Apart == \A t, u \in Task : t # u /\ op[t].lsn = op[u].lsn => op[t].lsn = ZeroLsn

LogPlaced == /\ Positions /\ SyncPoint /\ Before(t_lsn, lsn) /\ Apart
             /\ \A t \in Task : Goal(t) /\ Turning(t)

\* The unit of the log at an offset, in a file or in the buffer.
UnitAt(f, o) == IF f < lsn.file \/ o < w_off THEN file[f][o] ELSE bufp[o - w_off + 1]

\* What is synced is on disk as reads see it.
DiskIsFile == \A f \in Files, o \in Offsets :
                  Before(Lsn(f, o), s_lsn) => disk[f][o] = file[f][o]

\* The record of a commit under way is as it was put.
CommitsWhole ==
    \A t \in Task : Commits(t) =>
        UnitAt(op[t].lsn.file, op[t].lsn.offset + 1) = Unit(op[t].lsn, "commit")

\* The list has exactly the tasks that wait and have not been woken.
Listed == /\ commits \in List(Task)
          /\ \A t \in Task : t \in ToSet(commits) <=> At(t, "wait") /\ op[t].woken = "no"

LogWell  == TypeOK /\ Locks /\ \A t \in Task : Shape(t)
LogKept  == LogIntact /\ DiskIsFile /\ CommitsWhole
LogWaits == Listed /\ IsFiniteSet(Flushing) /\ InFlushExact /\ WaitersHaveFlush
LogInv   == LogWell /\ LogPlaced /\ LogKept /\ LogWaits

-----------------------------------------------------------------------------
(***************************************************************************)
(* Types, locks, and who releases the region                               *)
(***************************************************************************)
LEMMA LsnIs ==
    ASSUME NEW f \in Nat, NEW o \in Int
    PROVE  Lsn(f, o) \in LsnType /\ Lsn(f, o).file = f /\ Lsn(f, o).offset = o
BY DEF Lsn, LsnType

LEMMA LsnHas ==
    ASSUME NEW l \in LsnType
    PROVE  /\ l.file \in Nat /\ l.offset \in Int /\ l = Lsn(l.file, l.offset)
           /\ \A k \in LsnType : k.file = l.file /\ k.offset = l.offset => k = l
BY DEF Lsn, LsnType

LEMMA ZeroLsnIs == ZeroLsn \in LsnType /\ ZeroLsn.file = 0 /\ ZeroLsn.offset = 0
BY DEF Lsn, LsnType, ZeroLsn

\* An offset of a file, and an LSN.
LEMMA BeforeLsn ==
    ASSUME NEW f \in Nat, NEW o \in Int, NEW l \in LsnType
    PROVE  /\ Before(Lsn(f, o), l) <=> f < l.file \/ (f = l.file /\ o < l.offset)
           /\ Before(l, Lsn(f, o)) <=> l.file < f \/ (l.file = f /\ l.offset < o)
BY LsnIs, LsnHas DEF Before

\* The order of the LSNs is total.
LEMMA BeforeIs ==
    ASSUME NEW a \in LsnType, NEW b \in LsnType, NEW c \in LsnType
    PROVE  /\ ~Before(a, a)
           /\ Before(a, b) => ~Before(b, a)
           /\ Before(a, b) /\ ~Before(c, b) => Before(a, c)
           /\ ~Before(b, a) /\ Before(b, c) => Before(a, c)
           /\ ~Before(b, a) /\ ~Before(c, b) => ~Before(c, a)
           /\ ~Before(a, b) /\ ~Before(b, a) => a = b
<1>1. /\ a.file \in Nat /\ b.file \in Nat /\ c.file \in Nat
      /\ a.offset \in Int /\ b.offset \in Int /\ c.offset \in Int
    BY LsnHas
<1>2. ~Before(a, b) /\ ~Before(b, a) => a = b
    BY <1>1, LsnHas DEF Before
<1>. QED
    BY <1>1, <1>2 DEF Before

LEMMA IdleIs ==
    /\ Idle \in OpType
    /\ Idle.at = "out" /\ Idle.for = "none" /\ Idle.lsn = ZeroLsn /\ Idle.goal = ZeroLsn
    /\ Idle.release = TRUE /\ Idle.snap = ZeroLsn /\ Idle.woken = "no" /\ Idle.ok = TRUE
BY ZeroLsnIs DEF Idle, OpType, Places

LEMMA OpIs ==
    ASSUME TypeOK, NEW t \in Task
    PROVE  /\ op \in [Task -> OpType] /\ op[t] \in OpType
           /\ op[t].at \in Places /\ op[t].for \in {"none", "page", "undo", "commit", "update"}
           /\ op[t].lsn \in LsnType /\ op[t].goal \in LsnType /\ op[t].snap \in LsnType
           /\ op[t].release \in BOOLEAN /\ op[t].ok \in BOOLEAN
           /\ op[t].woken \in {"no", "done", "flush"}
<1>1. op \in [Task -> OpType]
    BY DEF TypeOK, OpType
<1>2. op[t] \in OpType
    BY <1>1
<1>. QED
    BY <1>1, <1>2 DEF OpType

LEMMA SetsIs ==
    ASSUME TypeOK, NEW t \in Task, NEW r \in OpType, Sets(t, r)
    PROVE  /\ op' \in [Task -> OpType] /\ op'[t] = r
           /\ \A u \in Task \ {t} : op'[u] = op[u]
BY OpIs DEF Sets

\* One task moves; the locks follow.
LEMMA LocksFollow ==
    ASSUME LogWell, NEW t \in Task, op' \in [Task -> OpType],
           \A u \in Task \ {t} : op'[u] = op[u], Shape(t)',
           region' \in Task \cup {NoTask}, mtx_flush' \in Task \cup {NoTask},
           region' = t <=> Holds(t)',
           \A u \in Task \ {t} : region' = u <=> region = u,
           mtx_flush' = t <=> At(t, "sync")',
           \A u \in Task \ {t} : mtx_flush' = u <=> mtx_flush = u
    PROVE  Locks' /\ \A u \in Task : Shape(u)'
<1>1. ASSUME NEW u \in Task, u # t
      PROVE  /\ Shape(u)' /\ (region' = u <=> Holds(u)')
             /\ (mtx_flush' = u <=> At(u, "sync")')
    <2>1. op'[u] = op[u] /\ Shape(u) /\ (region = u <=> Holds(u))
          /\ (mtx_flush = u <=> At(u, "sync"))
        BY <1>1 DEF LogWell, Locks
    <2>2. Shape(u)' /\ (Holds(u)' <=> Holds(u)) /\ (At(u, "sync")' <=> At(u, "sync"))
        BY <2>1 DEF Shape, Holds, At, Asks, Commits, Turns
    <2>. QED
        BY <1>1, <2>1, <2>2
<1>. QED
    BY <1>1 DEF Locks

\* Whoever is at one of these places holds the region.
LEMMA Holder ==
    ASSUME LogWell, NEW t \in Task,
           op[t].at \in {"newfile", "put", "flush", "mtx", "flushed"}
    PROVE  region = t /\ t # NoTask /\ mtx_flush # t
BY LogAssumption DEF LogWell, Locks, Holds, At

\* Who turns to a new file holds the region.
LEMMA TurnsHolds ==
    ASSUME LogWell, NEW t \in Task, Turns(t)
    PROVE  region = t
<1>1. ~op[t].release /\ ~At(t, "wait")
    BY DEF LogWell, Shape
<1>2. Holds(t)
    BY <1>1 DEF Turns, Asks, At, Holds
<1>. QED
    BY <1>2 DEF LogWell, Locks

-----------------------------------------------------------------------------
(***************************************************************************)
(* The buffer and the file                                                 *)
(***************************************************************************)
LEMMA UnitIs ==
    /\ \A l \in LsnType, p \in {"zero", "head", "persist", "update", "commit", "abort"} :
           Unit(l, p) \in UnitType /\ Unit(l, p).lsn = l /\ Unit(l, p).part = p
    /\ Zero \in UnitType
    /\ \A u \in UnitType : u = Unit(u.lsn, u.part)
BY ZeroLsnIs DEF Unit, UnitType, Zero

\* The types that the log's own variables have.
LEMMA EvenIs ==
    ASSUME NEW n \in Nat, n % 2 = 0
    PROVE  n - (n % 2) = n /\ (n + 1) - ((n + 1) % 2) = n /\ (n + 2) % 2 = 0 /\ (n + 1) % 2 # 0
OBVIOUS

LEMMA EvenNext ==
    ASSUME NEW a \in Nat, NEW b \in Nat, a % 2 = 0, b % 2 = 0, a > b - 2, a <= b
    PROVE  a = b
OBVIOUS

LEMMA LogTypes ==
    ASSUME LogInv
    PROVE  /\ TypeOK
           /\ lsn \in LsnType /\ f_lsn \in LsnType /\ s_lsn \in LsnType /\ t_lsn \in LsnType
           /\ lsn.file \in Files /\ lsn.file \in Nat /\ lsn.offset \in 0 .. LogSize
           /\ s_lsn.file \in Nat /\ s_lsn.offset \in 0 .. LogSize
           /\ bufp \in Seq(UnitType) /\ Len(bufp) \in Nat /\ Len(bufp) < BufSize
           /\ w_off \in Nat /\ lsn.offset = w_off + Len(bufp)
           /\ file \in [Files -> [Offsets -> UnitType]]
           /\ disk \in [Files -> [Offsets -> UnitType]]
           /\ LogSize \in Nat /\ BufSize \in Nat /\ BufSize > 2 /\ MaxFile \in Nat \ {0}
           /\ LogSize > 2
<1>1. TypeOK /\ lsn \in LsnType /\ f_lsn \in LsnType /\ s_lsn \in LsnType /\ t_lsn \in LsnType
      /\ bufp \in Seq(UnitType) /\ Len(bufp) < BufSize /\ w_off \in Nat
      /\ file \in [Files -> [Offsets -> UnitType]] /\ disk \in [Files -> [Offsets -> UnitType]]
    BY DEF LogInv, LogWell, TypeOK
<1>2. /\ lsn.file \in Files /\ lsn.offset \in 0 .. LogSize /\ lsn.offset % 2 = 0
      /\ lsn.offset = w_off + Len(bufp)
    BY DEF LogInv, LogPlaced, Positions, RecLen
<1>3. s_lsn.offset \in 0 .. LogSize /\ s_lsn.offset % 2 = 0
    BY DEF LogInv, LogPlaced, SyncPoint, RecLen
<1>4. Len(bufp) \in Nat
    BY <1>1, LenProperties
<1>. QED
    BY <1>1, <1>2, <1>3, <1>4, LsnHas, LogAssumption DEF RecLen

\* Records begin at even offsets.
LEMMA EvenOffsets ==
    ASSUME LogInv
    PROVE  lsn.offset % 2 = 0 /\ s_lsn.offset % 2 = 0 /\ LogSize % 2 = 0
BY LogAssumption DEF LogInv, LogPlaced, Positions, SyncPoint, RecLen

LEMMA OffsetIs ==
    /\ \A f \in Files : f \in Nat /\ f \in Int /\ f <= MaxFile
    /\ \A o \in Offsets : o \in Nat /\ o \in Int /\ o < LogSize
    /\ \A o \in Nat : o < LogSize => o \in Offsets
BY LogAssumption DEF Files, Offsets

\* What is synced has been written.
LEMMA SyncedWritten ==
    ASSUME LogInv, NEW f \in Files, NEW o \in Offsets, Before(Lsn(f, o), s_lsn)
    PROVE  f # lsn.file \/ o < w_off
<1>1. f \in Nat /\ o \in Nat /\ s_lsn \in LsnType
    BY LogTypes, OffsetIs
<1>2. f < s_lsn.file \/ (f = s_lsn.file /\ o < s_lsn.offset)
    BY <1>1, BeforeLsn
<1>3. /\ s_lsn.file <= lsn.file
      /\ s_lsn.file = lsn.file => s_lsn.offset <= w_off
    BY DEF LogInv, LogPlaced, SyncPoint
<1>4. s_lsn.file \in Int /\ lsn.file \in Int /\ s_lsn.offset \in Int /\ w_off \in Int
    BY LogTypes
<1>. QED
    BY <1>1, <1>2, <1>3, <1>4

\* What a write leaves in the files.
LEMMA OverlayIs ==
    ASSUME LogInv, NEW s \in Seq(UnitType)
    PROVE  /\ Overlay(s) \in [Files -> [Offsets -> UnitType]]
           /\ \A f \in Files, o \in Offsets :
                 Overlay(s)[f][o] = IF f = lsn.file /\ o \in w_off .. w_off + Len(s) - 1
                                    THEN s[o - w_off + 1] ELSE file[f][o]
<1>1. Len(s) \in Nat /\ s \in [1 .. Len(s) -> UnitType]
    BY LenProperties
<1>2. /\ w_off \in Nat /\ lsn.file \in Files /\ file \in [Files -> [Offsets -> UnitType]]
      /\ LogSize \in Nat
    BY LogTypes
<1>. DEFINE g == [o \in Offsets |-> IF o \in w_off .. w_off + Len(s) - 1
                                    THEN s[o - w_off + 1] ELSE file[lsn.file][o]]
<1>3. Overlay(s) = [file EXCEPT ![lsn.file] = g]
    BY DEF Overlay
<1>4. g \in [Offsets -> UnitType]
    <2>1. ASSUME NEW o \in Offsets
          PROVE  (IF o \in w_off .. w_off + Len(s) - 1 THEN s[o - w_off + 1]
                                                       ELSE file[lsn.file][o]) \in UnitType
        <3>1. CASE o \in w_off .. w_off + Len(s) - 1
            <4>1. o - w_off + 1 \in 1 .. Len(s)
                BY <1>1, <1>2, <3>1
            <4>. QED
                BY <1>1, <3>1, <4>1
        <3>2. CASE o \notin w_off .. w_off + Len(s) - 1
            BY <1>2, <3>2
        <3>. QED
            BY <3>1, <3>2
    <2>. QED
        BY <2>1
<1>5. \A o \in Offsets : g[o] = IF o \in w_off .. w_off + Len(s) - 1
                                THEN s[o - w_off + 1] ELSE file[lsn.file][o]
    OBVIOUS
<1>. HIDE DEF g
<1>. QED
    BY <1>2, <1>3, <1>4, <1>5

\* A failed write changes nothing before w_off.
LEMMA WriteFailsIs ==
    ASSUME LogInv, NEW s \in Seq(UnitType), WriteFails(s)
    PROVE  /\ file' \in [Files -> [Offsets -> UnitType]] /\ w_off' = w_off
           /\ faults' \in 0 .. MaxFaults
           /\ \A f \in Files, o \in Offsets :
                 f # lsn.file \/ o < w_off => file'[f][o] = file[f][o]
<1>1. PICK k \in 0 .. Len(s) : file' = Overlay(SubSeq(s, 1, k))
    BY DEF WriteFails
<1>2. Len(s) \in Nat /\ \A i \in 1 .. Len(s) : s[i] \in UnitType
    BY LenProperties
<1>3. SubSeq(s, 1, k) \in Seq(UnitType) /\ Len(SubSeq(s, 1, k)) \in Nat
    BY <1>2, SubSeqProperties
<1>4. faults' \in 0 .. MaxFaults /\ w_off' = w_off
    <2>1. faults \in 0 .. MaxFaults /\ MaxFaults \in Nat
        BY LogTypes, LogAssumption DEF TypeOK
    <2>2. faults < MaxFaults /\ faults' = faults + 1 /\ w_off' = w_off
        BY DEF WriteFails
    <2>. QED
        BY <2>1, <2>2
<1>. DEFINE r == SubSeq(s, 1, k)
<1>. HIDE DEF r
<1>5. /\ file' \in [Files -> [Offsets -> UnitType]]
      /\ \A f \in Files, o \in Offsets :
            file'[f][o] = IF f = lsn.file /\ o \in w_off .. w_off + Len(r) - 1
                          THEN r[o - w_off + 1] ELSE file[f][o]
    BY <1>1, <1>3, OverlayIs DEF r
<1>6. ASSUME NEW f \in Files, NEW o \in Offsets, f # lsn.file \/ o < w_off
      PROVE  file'[f][o] = file[f][o]
    <2>1. ~(f = lsn.file /\ o \in w_off .. w_off + Len(r) - 1)
        BY <1>3, <1>6, LogTypes, OffsetIs DEF r
    <2>. QED
        BY <1>5, <2>1
<1>. QED
    BY <1>4, <1>5, <1>6

\* The units of the log before lsn, as the invariant speaks of them.
LEMMA IntactIs ==
    ASSUME LogInv
    PROVE  \A f \in Files, o \in Offsets :
               Before(Lsn(f, o), lsn) => /\ UnitAt(f, o) \in UnitType
                                         /\ Belongs(UnitAt(f, o), f, o)
<1>. SUFFICES ASSUME NEW f \in Files, NEW o \in Offsets, Before(Lsn(f, o), lsn)
              PROVE  UnitAt(f, o) \in UnitType /\ Belongs(UnitAt(f, o), f, o)
    OBVIOUS
<1>1. f \in Nat /\ o \in Nat /\ (f < lsn.file \/ (f = lsn.file /\ o < lsn.offset))
    BY LogTypes, BeforeLsn, OffsetIs
<1>2. CASE f < lsn.file \/ o < w_off
    <2>1. UnitAt(f, o) = file[f][o] /\ file[f][o] \in UnitType
        BY <1>2, LogTypes DEF UnitAt
    <2>2. f < lsn.file \/ (f = lsn.file /\ o < w_off)
        BY <1>1, <1>2
    <2>. QED
        BY <2>1, <2>2 DEF LogInv, LogKept, LogIntact
<1>3. CASE ~(f < lsn.file \/ o < w_off)
    <2>1. UnitAt(f, o) = bufp[o - w_off + 1] /\ f = lsn.file
        BY <1>1, <1>3, LogTypes DEF UnitAt
    <2>2. o - w_off + 1 \in 1 .. Len(bufp) /\ o = w_off + (o - w_off + 1) - 1
        <3>1. o \in Nat /\ w_off \in Nat /\ Len(bufp) \in Nat /\ o < w_off + Len(bufp) /\ ~(o < w_off)
            BY <1>1, <1>3, LogTypes
        <3>. QED
            BY <3>1
    <2>3. bufp[o - w_off + 1] \in UnitType
        BY <2>2, LogTypes, ElementOfSeq
    <2>4. Belongs(bufp[o - w_off + 1], lsn.file, w_off + (o - w_off + 1) - 1)
        BY <2>2 DEF LogInv, LogKept, LogIntact
    <2>. QED
        BY <2>1, <2>2, <2>3, <2>4
<1>. QED
    BY <1>2, <1>3

LEMMA PlaceIs ==
    ASSUME NEW w \in Nat, NEW n \in Nat, NEW i \in 1 .. n
    PROVE  /\ w + i - 1 \in Nat /\ w + i - 1 < w + n
           /\ ~(w + i - 1 < w) /\ (w + i - 1) - w + 1 = i
OBVIOUS

LEMMA IntactNext ==
    ASSUME TypeOK', Positions',
           \A f \in Files, o \in Offsets :
               Before(Lsn(f, o), lsn') => Belongs(UnitAt(f, o)', f, o)
    PROVE  LogIntact'
<1>1. /\ lsn' \in LsnType /\ lsn'.file \in Files /\ lsn'.offset \in 0 .. LogSize
      /\ bufp' \in Seq(UnitType) /\ w_off' \in Nat /\ lsn'.offset = w_off' + Len(bufp')
      /\ LogSize \in Nat
    BY LogAssumption DEF TypeOK, Positions
<1>2. Len(bufp') \in Nat
    BY <1>1, LenProperties
<1>3. ASSUME NEW f \in Files, NEW o \in Offsets,
             f < lsn'.file \/ (f = lsn'.file /\ o < w_off')
      PROVE  Belongs(file'[f][o], f, o)
    <2>1. Before(Lsn(f, o), lsn')
        BY <1>1, <1>2, <1>3, BeforeLsn, OffsetIs
    <2>2. UnitAt(f, o)' = file'[f][o]
        BY <1>3 DEF UnitAt
    <2>. QED
        BY <2>1, <2>2
<1>4. ASSUME NEW i \in 1 .. Len(bufp')
      PROVE  Belongs(bufp'[i], lsn'.file, w_off' + i - 1)
    <2>1. /\ w_off' + i - 1 \in Nat /\ w_off' + i - 1 < w_off' + Len(bufp')
          /\ ~(w_off' + i - 1 < w_off') /\ (w_off' + i - 1) - w_off' + 1 = i
        BY <1>1, <1>2, PlaceIs
    <2>2. PICK o \in Nat : o = w_off' + i - 1
        BY <2>1
    <2>3. PICK f \in Files : f = lsn'.file
        BY <1>1
    <2>4. o < lsn'.offset /\ ~(o < w_off') /\ o - w_off' + 1 = i
        BY <1>1, <2>1, <2>2
    <2>5. o < LogSize /\ f \in Nat /\ ~(f < lsn'.file)
        BY <1>1, <2>3, <2>4, OffsetIs
    <2>6. o \in Offsets /\ Before(Lsn(f, o), lsn')
        BY <1>1, <2>3, <2>4, <2>5, BeforeLsn, OffsetIs
    <2>7. UnitAt(f, o)' = bufp'[i]
        BY <2>4, <2>5 DEF UnitAt
    <2>. QED
        BY <2>2, <2>3, <2>6, <2>7
<1>. QED
    BY <1>1, <1>3, <1>4 DEF LogIntact

\* A record put into the log is where it belongs, and nothing else is touched.
LEMMA FillIs ==
    ASSUME LogInv, NEW u \in UnitType, NEW v \in UnitType, Fill(<<u, v>>),
           lsn.offset + 2 <= LogSize
    PROVE  /\ bufp' \in Seq(UnitType) /\ Len(bufp') < BufSize
           /\ file' \in [Files -> [Offsets -> UnitType]]
           /\ w_off' \in Nat /\ w_off <= w_off' /\ faults' = faults
           /\ lsn' = Lsn(lsn.file, lsn.offset + 2) /\ f_lsn' \in LsnType
           /\ lsn' \in LsnType /\ lsn'.file = lsn.file /\ lsn'.offset = lsn.offset + 2
           /\ lsn'.offset = w_off' + Len(bufp')
           /\ bufp' # <<>> => f_lsn' = Lsn(lsn.file, w_off' - (w_off' % 2))
           /\ f_lsn'.file = lsn.file
           /\ \A f \in Files, o \in Offsets :
                 /\ f # lsn.file \/ o < w_off => file'[f][o] = file[f][o]
                 /\ Before(Lsn(f, o), lsn') =>
                        UnitAt(f, o)' = IF f = lsn.file /\ o = lsn.offset THEN u
                                        ELSE IF f = lsn.file /\ o = lsn.offset + 1 THEN v
                                        ELSE UnitAt(f, o)
<1>. DEFINE n == Len(bufp)
            all == bufp \o <<u, v>>
            full == Len(all) >= BufSize
<1>1. <<u, v>> \in Seq(UnitType) /\ Len(<<u, v>>) = 2 /\ <<u, v>>[1] = u /\ <<u, v>>[2] = v
    OBVIOUS
<1>2. /\ all \in Seq(UnitType) /\ Len(all) = n + 2
      /\ \A i \in 1 .. n + 2 : all[i] = IF i <= n THEN bufp[i] ELSE <<u, v>>[i - n]
    BY <1>1, LogTypes, ConcatProperties
<1>3. \A i \in 1 .. n + 2 : /\ all[i] \in UnitType
                            /\ i <= n => all[i] = bufp[i]
                            /\ i = n + 1 => all[i] = u
                            /\ i = n + 2 => all[i] = v
    BY <1>1, <1>2, LogTypes, ElementOfSeq
<1>4. /\ IF full THEN Write(SubSeq(all, 1, BufSize)) ELSE UNCHANGED <<file, w_off, faults>>
      /\ bufp'  = IF full THEN SubSeq(all, BufSize + 1, Len(all)) ELSE all
      /\ f_lsn' = IF bufp = <<>> \/ (full /\ Len(all) > BufSize) THEN lsn ELSE f_lsn
      /\ lsn'   = Lsn(lsn.file, lsn.offset + 2)
    BY DEF Fill, RecLen
<1>. HIDE DEF all
<1>0. /\ n \in Int /\ w_off \in Int /\ BufSize \in Int /\ lsn.offset \in Int /\ lsn.file \in Int
      /\ lsn.offset = w_off + n
    BY LogTypes
<1>5. f_lsn' \in LsnType /\ f_lsn'.file = lsn.file
    <2>1. lsn.offset # 0 \/ bufp = <<>>
        BY LogTypes, EmptySeq
    <2>. QED
        BY <1>4, <2>1, LogTypes DEF LogInv, LogPlaced, Positions
<1>6. lsn' \in LsnType /\ lsn'.file = lsn.file /\ lsn'.offset = lsn.offset + 2
    <2>1. lsn' = Lsn(lsn.file, lsn.offset + 2)
        BY <1>4
    <2>2. lsn.file \in Nat /\ lsn.offset + 2 \in Int
        BY LogTypes
    <2>. QED
        BY <2>1, <2>2, LsnIs
<1>7. CASE ~full
    <2>1. /\ bufp' = all /\ file' = file /\ w_off' = w_off /\ faults' = faults
          /\ f_lsn' = IF bufp = <<>> THEN lsn ELSE f_lsn
        BY <1>4, <1>7
    <2>2. lsn'.offset = w_off' + Len(bufp')
        BY <1>2, <1>6, <2>1, LogTypes
    <2>3. f_lsn' = Lsn(lsn.file, w_off' - (w_off' % 2))
        <3>1. CASE bufp = <<>>
            <4>1. Len(bufp) = 0 /\ w_off = lsn.offset
                BY <3>1, LogTypes, EmptySeq
            <4>2. w_off' - (w_off' % 2) = lsn.offset
                <5>1. lsn.offset \in Nat
                    BY LogTypes
                <5>. QED
                    BY <2>1, <4>1, <5>1, EvenOffsets, EvenIs
            <4>. QED
                BY <2>1, <3>1, <4>2, LogTypes, LsnHas
        <3>2. CASE bufp # <<>>
            BY <2>1, <3>2 DEF LogInv, LogPlaced, Positions, RecLen
        <3>. QED
            BY <3>1, <3>2
    <2>4. ASSUME NEW f \in Files, NEW o \in Offsets, Before(Lsn(f, o), lsn')
          PROVE  UnitAt(f, o)' = IF f = lsn.file /\ o = lsn.offset THEN u
                                 ELSE IF f = lsn.file /\ o = lsn.offset + 1 THEN v
                                 ELSE UnitAt(f, o)
        <3>1. f \in Nat /\ o \in Nat /\ (f < lsn.file \/ (f = lsn.file /\ o < lsn.offset + 2))
            BY <1>6, <2>4, LogTypes, BeforeLsn, OffsetIs
        <3>2. UnitAt(f, o)' = IF f < lsn.file \/ o < w_off THEN file[f][o] ELSE all[o - w_off + 1]
            BY <1>6, <2>1 DEF UnitAt
        <3>3. CASE f < lsn.file \/ o < w_off
            BY <3>1, <3>2, <3>3, LogTypes DEF UnitAt
        <3>4. CASE ~(f < lsn.file \/ o < w_off)
            <4>1. f = lsn.file /\ o - w_off + 1 \in 1 .. n + 2
                BY <1>0, <3>1, <3>4
            <4>2. UnitAt(f, o) = bufp[o - w_off + 1] /\ UnitAt(f, o)' = all[o - w_off + 1]
                BY <3>2, <3>4 DEF UnitAt
            <4>3. /\ o - w_off + 1 <= n <=> o < lsn.offset
                  /\ o - w_off + 1 = n + 1 <=> o = lsn.offset
                  /\ o - w_off + 1 = n + 2 <=> o = lsn.offset + 1
                  /\ o < lsn.offset \/ o = lsn.offset \/ o = lsn.offset + 1
                <5>1. o \in Int /\ o < lsn.offset + 2
                    BY <3>1, <4>1
                <5>. QED
                    BY <1>0, <5>1
            <4>. QED
                BY <1>3, <4>1, <4>2, <4>3, LogTypes
        <3>. QED
            BY <3>3, <3>4
    <2>5. bufp' \in Seq(UnitType) /\ Len(bufp') < BufSize
        BY <1>2, <1>7, <2>1, LogTypes
    <2>6. /\ file' \in [Files -> [Offsets -> UnitType]] /\ w_off' \in Nat /\ w_off <= w_off'
          /\ \A f \in Files, o \in Offsets :
                f # lsn.file \/ o < w_off => file'[f][o] = file[f][o]
        BY <2>1, LogTypes
    <2>. QED
        BY <1>4, <1>5, <1>6, <2>1, <2>2, <2>3, <2>4, <2>5, <2>6
<1>8. CASE full
    <2>. DEFINE s == SubSeq(all, 1, BufSize)
                r == SubSeq(all, BufSize + 1, Len(all))
    <2>1. /\ Write(s) /\ bufp' = r
          /\ f_lsn' = IF bufp = <<>> \/ Len(all) > BufSize THEN lsn ELSE f_lsn
        BY <1>4, <1>8
    <2>2. n + 2 >= BufSize /\ n < BufSize /\ n \in Nat /\ BufSize \in Nat
        BY <1>2, <1>8, LogTypes
    <2>3. /\ s \in Seq(UnitType) /\ Len(s) = BufSize
          /\ \A i \in 1 .. BufSize : s[i] = all[i]
        <3>1. \A i \in 1 .. BufSize : all[i] \in UnitType
            BY <1>3, <2>2
        <3>2. /\ s \in Seq(UnitType) /\ Len(s) = (IF 1 <= BufSize THEN BufSize - 1 + 1 ELSE 0)
              /\ \A i \in 1 .. BufSize - 1 + 1 : s[i] = all[1 + i - 1]
            BY <2>2, <3>1, SubSeqProperties
        <3>. HIDE DEF s
        <3>. QED
            BY <2>2, <3>2, LogTypes
    <2>4. /\ r \in Seq(UnitType) /\ Len(r) = n + 2 - BufSize
          /\ \A i \in 1 .. n + 2 - BufSize : r[i] = all[BufSize + i]
        <3>1. \A i \in BufSize + 1 .. n + 2 : all[i] \in UnitType
            BY <1>3, <2>2
        <3>2. /\ r \in Seq(UnitType)
              /\ Len(r) = (IF BufSize + 1 <= n + 2 THEN n + 2 - (BufSize + 1) + 1 ELSE 0)
              /\ \A i \in 1 .. n + 2 - (BufSize + 1) + 1 : r[i] = all[BufSize + 1 + i - 1]
            BY <1>2, <2>2, <3>1, SubSeqProperties
        <3>. HIDE DEF r
        <3>. QED
            BY <2>2, <3>2
    <2>. HIDE DEF s, r
    <2>5. file' = Overlay(s) /\ w_off' = w_off + BufSize /\ faults' = faults
        BY <2>1, <2>3 DEF Write
    <2>6. /\ file' \in [Files -> [Offsets -> UnitType]]
          /\ \A f \in Files, o \in Offsets :
                file'[f][o] = IF f = lsn.file /\ o \in w_off .. w_off + BufSize - 1
                              THEN s[o - w_off + 1] ELSE file[f][o]
        BY <2>3, <2>5, OverlayIs
    <2>7. lsn'.offset = w_off' + Len(bufp')
        BY <1>6, <2>1, <2>2, <2>4, <2>5, LogTypes
    <2>8. bufp' # <<>> => f_lsn' = Lsn(lsn.file, w_off' - (w_off' % 2))
        <3>1. CASE bufp' = <<>>
            BY <3>1
        <3>2. CASE bufp' # <<>>
            <4>1. Len(bufp') # 0
                BY <2>1, <2>4, <3>2, EmptySeq
            <4>2. n + 2 > BufSize /\ n = BufSize - 1
                BY <2>1, <2>2, <2>4, <4>1
            <4>3. f_lsn' = lsn
                BY <1>2, <2>1, <4>2
            <4>4. w_off' = lsn.offset + 1
                BY <2>2, <2>5, <4>2, LogTypes
            <4>5. w_off' - (w_off' % 2) = lsn.offset
                <5>1. lsn.offset \in Nat
                    BY LogTypes
                <5>. QED
                    BY <4>4, <5>1, EvenOffsets, EvenIs
            <4>. QED
                BY <4>3, <4>5, LogTypes, LsnHas
        <3>. QED
            BY <3>1, <3>2
    <2>9. ASSUME NEW f \in Files, NEW o \in Offsets, Before(Lsn(f, o), lsn')
          PROVE  UnitAt(f, o)' = IF f = lsn.file /\ o = lsn.offset THEN u
                                 ELSE IF f = lsn.file /\ o = lsn.offset + 1 THEN v
                                 ELSE UnitAt(f, o)
        <3>1. f \in Nat /\ o \in Nat /\ (f < lsn.file \/ (f = lsn.file /\ o < lsn.offset + 2))
            BY <1>6, <2>9, LogTypes, BeforeLsn, OffsetIs
        <3>2. UnitAt(f, o)' = IF f < lsn.file \/ o < w_off + BufSize THEN file'[f][o]
                              ELSE r[o - (w_off + BufSize) + 1]
            BY <1>6, <2>1, <2>5 DEF UnitAt
        <3>3. CASE f < lsn.file \/ o < w_off
            <4>1. UnitAt(f, o)' = file'[f][o]
                <5>1. f < lsn.file \/ o < w_off + BufSize
                    BY <1>0, <2>2, <3>1, <3>3
                <5>. QED
                    BY <3>2, <5>1
            <4>2. file'[f][o] = file[f][o]
                <5>1. ~(f = lsn.file /\ o \in w_off .. w_off + BufSize - 1)
                    BY <1>0, <3>1, <3>3
                <5>. QED
                    BY <2>6, <5>1
            <4>. QED
                BY <3>1, <3>3, <4>1, <4>2, LogTypes DEF UnitAt
        <3>4. CASE ~(f < lsn.file \/ o < w_off)
            <4>. DEFINE i == o - w_off + 1
            <4>1. f = lsn.file /\ i \in 1 .. n + 2 /\ o \in Nat
                BY <1>0, <3>1, <3>4
            <4>2. UnitAt(f, o)' = all[i]
                <5>1. CASE o < w_off + BufSize
                    <6>1. i \in 1 .. BufSize /\ o \in w_off .. w_off + BufSize - 1
                        BY <1>0, <4>1, <5>1
                    <6>. QED
                        BY <2>3, <2>6, <3>2, <4>1, <5>1, <6>1
                <5>2. CASE ~(o < w_off + BufSize)
                    <6>1. /\ o - (w_off + BufSize) + 1 \in 1 .. n + 2 - BufSize
                          /\ BufSize + (o - (w_off + BufSize) + 1) = i
                        BY <1>0, <4>1, <5>2
                    <6>. QED
                        BY <2>4, <3>2, <3>4, <4>1, <5>2, <6>1
                <5>. QED
                    BY <5>1, <5>2
            <4>3. UnitAt(f, o) = bufp[i]
                BY <3>4 DEF UnitAt
            <4>4. /\ i <= n <=> o < lsn.offset
                  /\ i = n + 1 <=> o = lsn.offset
                  /\ i = n + 2 <=> o = lsn.offset + 1
                  /\ o < lsn.offset \/ o = lsn.offset \/ o = lsn.offset + 1
                <5>1. o \in Int /\ o < lsn.offset + 2
                    BY <3>1, <4>1
                <5>. QED
                    BY <1>0, <5>1
            <4>. HIDE DEF i
            <4>. QED
                BY <1>3, <4>1, <4>2, <4>3, <4>4, LogTypes
        <3>. QED
            BY <3>3, <3>4
    <2>10. Len(bufp') < BufSize /\ w_off' \in Nat /\ w_off <= w_off'
        <3>1. Len(bufp') = n + 2 - BufSize /\ w_off' = w_off + BufSize
            BY <2>1, <2>4, <2>5
        <3>2. w_off \in Nat /\ BufSize > 2
            BY LogTypes
        <3>. QED
            BY <2>2, <3>1, <3>2
    <2>11. \A f \in Files, o \in Offsets :
               f # lsn.file \/ o < w_off => file'[f][o] = file[f][o]
        BY <2>6, LogTypes, OffsetIs
    <2>12. bufp' \in Seq(UnitType)
        BY <2>1, <2>4
    <2>. QED
        BY <1>4, <1>5, <1>6, <2>5, <2>6, <2>7, <2>8, <2>9, <2>10, <2>11, <2>12
<1>. QED
    BY <1>7, <1>8

-----------------------------------------------------------------------------
(***************************************************************************)
(* What a step that leaves the log alone need not disturb                  *)
(***************************************************************************)
\* One task moves, and the log stands where it stood.
LEMMA PlacedFollows ==
    ASSUME LogInv, NEW t \in Task, op' \in [Task -> OpType],
           \A u \in Task \ {t} : op'[u] = op[u],
           UNCHANGED <<lsn, f_lsn, w_off, s_lsn>>,
           Len(bufp') = Len(bufp), bufp' = <<>> <=> bufp = <<>>,
           t_lsn' \in LsnType, ~Before(t_lsn', t_lsn), Before(t_lsn', lsn),
           op'[t].lsn \in {ZeroLsn, op[t].lsn},
           lsn.offset # 0 \/ At(t, "newfile")' \/ ~At(t, "newfile"),
           At(t, "sync")' => At(t, "sync") \/ region = t,
           Goal(t)', Turning(t)'
    PROVE  LogPlaced'
<1>1. Positions'
    <2>1. lsn.offset = 0 => \E u \in Task : At(u, "newfile")'
        <3>1. CASE lsn.offset = 0
            <4>1. PICK u \in Task : At(u, "newfile")
                BY <3>1 DEF LogInv, LogPlaced, Positions
            <4>. QED
                BY <3>1, <4>1 DEF At
        <3>. QED
            BY <3>1
    <2>. QED
        BY <2>1 DEF LogInv, LogPlaced, Positions
<1>2. SyncPoint' /\ Before(t_lsn, lsn)'
    BY DEF LogInv, LogPlaced, SyncPoint
<1>3. Apart'
    BY DEF LogInv, LogPlaced, Apart
<1>4. ASSUME NEW u \in Task, u # t
      PROVE  Goal(u)' /\ Turning(u)'
    <2>1. op'[u] = op[u] /\ Goal(u) /\ Turning(u)
        BY <1>4 DEF LogInv, LogPlaced
    <2>2. t_lsn \in LsnType /\ op[u].goal \in LsnType
        BY OpIs DEF LogInv, LogWell, TypeOK
    <2>3. ~Before(t_lsn, op[u].goal) => ~Before(t_lsn', op[u].goal)
        BY <2>2, BeforeIs
    <2>4. Goal(u)'
        BY <2>1, <2>3 DEF Goal, At, Asks, Commits, Flushed, Record
    <2>5. Turning(u)'
        <3>1. Turns(u) => region # t
            BY <1>4, TurnsHolds DEF LogInv
        <3>2. Turns(u) /\ (\A v \in Task \ {u} : ~At(v, "sync"))
                => \A v \in Task \ {u} : ~At(v, "sync")'
            BY <1>4, <3>1 DEF At
        <3>. QED
            BY <2>1, <3>2 DEF Turning, Turns, At, Asks, LastLsn
    <2>. QED
        BY <2>4, <2>5
<1>. QED
    BY <1>1, <1>2, <1>3, <1>4 DEF LogPlaced

\* Files, buffer and sync point stay, and no commit is new.
LEMMA KeptFollows ==
    ASSUME LogInv, NEW t \in Task,
           \A u \in Task \ {t} : op'[u] = op[u],
           UNCHANGED <<lsn, bufp, w_off, file, disk, s_lsn>>,
           Commits(t)' => Commits(t) /\ op'[t].lsn = op[t].lsn
    PROVE  LogKept'
<1>1. LogIntact' /\ DiskIsFile'
    BY DEF LogInv, LogKept, LogIntact, DiskIsFile
<1>2. ASSUME NEW u \in Task, Commits(u)'
      PROVE  Commits(u) /\ op'[u].lsn = op[u].lsn
    BY <1>2 DEF Commits
<1>3. CommitsWhole'
    BY <1>2 DEF LogInv, LogKept, CommitsWhole, UnitAt
<1>. QED
    BY <1>1, <1>3 DEF LogKept

\* The waiters and the flushes stay as they are.
LEMMA WaitsFollow ==
    ASSUME LogInv, NEW t \in Task, op' \in [Task -> OpType],
           \A u \in Task \ {t} : op'[u] = op[u],
           UNCHANGED <<in_flush, commits>>,
           ~At(t, "wait"), ~At(t, "wait")',
           At(t, "mtx") => At(t, "mtx")',
           op'[t].at \in {"sync", "synced"} <=> op[t].at \in {"sync", "synced"}
    PROVE  LogWaits'
<1>1. \A u \in Task : /\ At(u, "wait")' <=> At(u, "wait")
                      /\ At(u, "wait") => op'[u] = op[u]
    BY DEF At
<1>2. Flushing' = Flushing
    BY <1>1 DEF Flushing, At
<1>3. Listed'
    BY <1>1 DEF LogInv, LogWaits, Listed
<1>4. \A u \in Task : At(u, "mtx") => At(u, "mtx")'
    BY DEF At
<1>5. WaitersHaveFlush'
    BY <1>1, <1>2, <1>4 DEF LogInv, LogWaits, WaitersHaveFlush
<1>. QED
    BY <1>2, <1>3, <1>5 DEF LogInv, LogWaits, InFlushExact

-----------------------------------------------------------------------------
(***************************************************************************)
(* The steps that leave the log alone                                      *)
(***************************************************************************)
\* What the invariant says of the state in which task t takes a step.
LEMMA Standing ==
    ASSUME LogInv, NEW t \in Task
    PROVE  /\ LogWell /\ TypeOK /\ Shape(t) /\ Goal(t) /\ Turning(t)
           /\ t # NoTask
           /\ region = t <=> Holds(t)
           /\ mtx_flush = t <=> op[t].at = "sync"
           /\ region \in Task \cup {NoTask} /\ mtx_flush \in Task \cup {NoTask}
           /\ ~Before(t_lsn, t_lsn) /\ Before(t_lsn, lsn) /\ t_lsn \in LsnType
<1>1. t_lsn \in LsnType /\ ~Before(t_lsn, t_lsn)
    BY BeforeIs DEF LogInv, LogWell, TypeOK
<1>. QED
    BY <1>1, LogAssumption DEF LogInv, LogWell, LogPlaced, Locks, At, TypeOK

LEMMA CallPutStep ==
    ASSUME LogInv, NEW t \in Task, NEW kind \in {"commit", "update"}, CallPut(t, kind)
    PROVE  LogInv'
<1>. DEFINE full == lsn.offset + RecLen > LogSize
            r == [Idle EXCEPT
                     !.for = kind,
                     !.at = IF lsn.offset = 0 THEN "newfile" ELSE IF full THEN "flush" ELSE "put",
                     !.release = ~full,
                     !.goal = IF full THEN LastLsn ELSE ZeroLsn]
<1>1. /\ op[t].at = "out" /\ region = NoTask /\ region' = t /\ Sets(t, r)
      /\ full => lsn.file < MaxFile
      /\ UNCHANGED <<bufVars, disk, s_lsn, flushVars, mtx_flush, told, faults>>
    BY DEF CallPut, At
<1>2. /\ TypeOK /\ lsn \in LsnType /\ lsn.offset \in 0 .. LogSize /\ lsn.file \in Nat
      /\ LogSize \in Nat
    BY LogTypes
<1>3. /\ LastLsn \in LsnType /\ LastLsn.file = lsn.file /\ LastLsn.offset = lsn.offset - 2
    BY <1>2, LsnIs DEF LastLsn, RecLen
<1>4. lsn.offset # 0
    BY <1>1, LogAssumption DEF LogInv, LogPlaced, Positions, LogWell, Locks, Holds, At
<1>5. /\ r \in OpType /\ r.for = kind /\ r.at = (IF full THEN "flush" ELSE "put")
      /\ r.release = ~full /\ r.lsn = ZeroLsn /\ r.woken = "no"
      /\ r.goal = (IF full THEN LastLsn ELSE ZeroLsn)
    BY <1>3, <1>4, IdleIs, ZeroLsnIs DEF OpType, Places
<1>. HIDE DEF r
<1>6. op' \in [Task -> OpType] /\ op'[t] = r /\ \A u \in Task \ {t} : op'[u] = op[u]
    BY <1>1, <1>2, <1>5, SetsIs
<1>7. Shape(t)' /\ Holds(t)' /\ ~At(t, "sync")' /\ ~At(t, "wait")' /\ ~Commits(t)'
    BY <1>5, <1>6 DEF Shape, Holds, At, Asks, Commits, Turns
<1>8. TypeOK'
    BY <1>1, <1>2, <1>6 DEF TypeOK, OpType, bufVars, flushVars
<1>9. LogWell'
    BY <1>1, <1>6, <1>7, <1>8, Standing, LocksFollow DEF LogWell
<1>10. Goal(t)'
    <2>1. full => Before(LastLsn, lsn)
        BY <1>2, <1>3 DEF Before
    <2>2. ~full => lsn.offset + RecLen <= LogSize
        BY <1>2 DEF RecLen
    <2>. QED
        BY <1>1, <1>5, <1>6, <2>1, <2>2 DEF Goal, At, Asks, Commits, bufVars
<1>11. Turning(t)'
    <2>1. full => lsn.offset = LogSize
        BY <1>2, EvenOffsets DEF RecLen
    <2>. QED
        BY <1>1, <1>5, <1>6, <2>1 DEF Turning, Turns, At, Asks, LastLsn, bufVars
<1>12. LogPlaced'
    BY <1>1, <1>4, <1>5, <1>6, <1>7, <1>10, <1>11, Standing, PlacedFollows
    DEF bufVars, flushVars, At
<1>13. LogKept'
    BY <1>1, <1>6, <1>7, KeptFollows DEF bufVars
<1>14. LogWaits'
    BY <1>1, <1>5, <1>6, WaitsFollow DEF flushVars, At
<1>. QED
    BY <1>9, <1>12, <1>13, <1>14 DEF LogInv

LEMMA CallFlushStep ==
    ASSUME LogInv, NEW t \in Task, NEW l \in Puts, CallFlush(t, l)
    PROVE  LogInv'
<1>. DEFINE r == [Idle EXCEPT !.for = "page", !.at = "flush", !.goal = l]
<1>1. /\ op[t].at = "out" /\ region = NoTask /\ region' = t /\ Sets(t, r)
      /\ UNCHANGED <<bufVars, disk, s_lsn, flushVars, mtx_flush, told, faults>>
    BY DEF CallFlush, At
<1>2. TypeOK /\ l \in LsnType /\ Before(l, lsn)
    BY LogTypes, OffsetIs DEF Puts, LsnType
<1>3. lsn.offset # 0
    BY <1>1, LogAssumption DEF LogInv, LogPlaced, Positions, LogWell, Locks, Holds, At
<1>4. /\ r \in OpType /\ r.for = "page" /\ r.at = "flush" /\ r.goal = l
      /\ r.release = TRUE /\ r.lsn = ZeroLsn /\ r.woken = "no"
    BY <1>2, IdleIs, ZeroLsnIs DEF OpType, Places
<1>. HIDE DEF r
<1>5. op' \in [Task -> OpType] /\ op'[t] = r /\ \A u \in Task \ {t} : op'[u] = op[u]
    BY <1>1, <1>2, <1>4, SetsIs
<1>6. /\ Shape(t)' /\ Holds(t)' /\ ~At(t, "sync")' /\ ~At(t, "wait")'
      /\ ~Commits(t)' /\ ~Turns(t)'
    BY <1>4, <1>5 DEF Shape, Holds, At, Asks, Commits, Turns
<1>7. TypeOK'
    BY <1>1, <1>2, <1>5 DEF TypeOK, OpType, bufVars, flushVars
<1>8. LogWell'
    BY <1>1, <1>5, <1>6, <1>7, Standing, LocksFollow DEF LogWell
<1>9. Goal(t)' /\ Turning(t)'
    BY <1>1, <1>2, <1>4, <1>5, <1>6 DEF Goal, Turning, At, Asks, Commits, bufVars
<1>10. LogPlaced'
    BY <1>1, <1>3, <1>4, <1>5, <1>6, <1>9, Standing, PlacedFollows
    DEF bufVars, flushVars, At
<1>11. LogKept'
    BY <1>1, <1>5, <1>6, KeptFollows DEF bufVars
<1>12. LogWaits'
    BY <1>1, <1>4, <1>5, WaitsFollow DEF flushVars, At
<1>. QED
    BY <1>8, <1>10, <1>11, <1>12 DEF LogInv

\* The return of __log_flush, or the end of log_put: the task lets the region go.
LEMMA LeavesStep ==
    ASSUME LogInv, NEW t \in Task, At(t, "flushed"), Sets(t, Idle), region' = NoTask,
           UNCHANGED <<bufVars, disk, s_lsn, flushVars, mtx_flush, faults>>,
           told' \subseteq LsnType
    PROVE  LogInv'
<1>1. op[t].at = "flushed" /\ region = t
    BY Standing DEF At, Holds
<1>2. op' \in [Task -> OpType] /\ op'[t] = Idle /\ \A u \in Task \ {t} : op'[u] = op[u]
    BY IdleIs, LogTypes, SetsIs
<1>3. /\ Shape(t)' /\ ~Holds(t)' /\ ~At(t, "sync")' /\ ~At(t, "wait")'
      /\ ~Commits(t)' /\ ~Turns(t)'
    BY <1>2, IdleIs DEF Shape, Holds, At, Asks, Commits, Turns
<1>4. TypeOK'
    BY <1>2, LogTypes DEF TypeOK, OpType, bufVars, flushVars
<1>5. LogWell'
    BY <1>1, <1>2, <1>3, <1>4, Standing, LogAssumption, LocksFollow DEF LogWell
<1>6. Goal(t)' /\ Turning(t)'
    BY <1>2, <1>3, IdleIs DEF Goal, Turning, At, Asks, Commits
<1>7. LogPlaced'
    BY <1>1, <1>2, <1>3, <1>6, IdleIs, Standing, PlacedFollows DEF bufVars, flushVars, At
<1>8. LogKept'
    BY <1>2, <1>3, KeptFollows DEF bufVars
<1>9. LogWaits'
    BY <1>1, <1>2, IdleIs, WaitsFollow DEF flushVars, At
<1>. QED
    BY <1>5, <1>7, <1>8, <1>9 DEF LogInv

LEMMA ReturnsStep ==
    ASSUME LogInv, NEW t \in Task, Returns(t)
    PROVE  LogInv'
<1>1. CASE Sets(t, Idle) /\ region' = NoTask
    BY <1>1, LogTypes, LeavesStep DEF Returns, TypeOK
<1>2. CASE ForNewFile(t) /\ op[t].ok /\ Goes(t, "newfile") /\ UNCHANGED region
    <2>. DEFINE r == [op[t] EXCEPT !.at = "newfile"]
    <2>1. /\ op[t].at = "flushed" /\ region = t /\ mtx_flush # t /\ Sets(t, r)
          /\ op[t].for \in {"commit", "update"} /\ op[t].lsn = ZeroLsn /\ op[t].ok
          /\ UNCHANGED <<bufVars, disk, s_lsn, flushVars, region, mtx_flush, told, faults>>
        BY <1>2, Standing DEF Returns, At, Goes, ForNewFile, Holds
    <2>2. TypeOK /\ op[t] \in OpType /\ op[t].woken = "no" /\ Turns(t) /\ ~op[t].release
        BY <2>1, LogTypes, OpIs, Standing DEF Shape, Turns, Asks, At
    <2>3. /\ r \in OpType /\ r.for = op[t].for /\ r.at = "newfile"
          /\ r.release = op[t].release /\ r.lsn = ZeroLsn /\ r.woken = "no"
        BY <2>1, <2>2 DEF OpType, Places
    <2>. HIDE DEF r
    <2>4. op' \in [Task -> OpType] /\ op'[t] = r /\ \A u \in Task \ {t} : op'[u] = op[u]
        BY <2>1, <2>2, <2>3, SetsIs
    <2>5. Shape(t)' /\ Holds(t)' /\ ~At(t, "sync")' /\ ~Commits(t)'
        BY <2>1, <2>2, <2>3, <2>4 DEF Shape, Holds, At, Asks, Commits, Turns
    <2>6. TypeOK'
        BY <2>1, <2>2, <2>4 DEF TypeOK, OpType, bufVars, flushVars
    <2>7. LogWell'
        BY <2>1, <2>4, <2>5, <2>6, Standing, LocksFollow DEF LogWell
    <2>8. /\ lsn.file < MaxFile /\ lsn.offset = LogSize /\ bufp = <<>>
          /\ Flushed(LastLsn) /\ \A u \in Task \ {t} : ~At(u, "sync")
        BY <2>1, <2>2, Standing DEF Turning, Goal, At
    <2>9. s_lsn = lsn
        <3>1. /\ s_lsn.offset % 2 = 0 /\ s_lsn.file <= lsn.file
              /\ s_lsn.file = lsn.file => s_lsn.offset <= w_off
            BY EvenOffsets DEF LogInv, LogPlaced, SyncPoint
        <3>2. s_lsn.file = lsn.file /\ s_lsn.offset > LogSize - 2
            BY <2>8, <3>1, LogTypes, BeforeLsn DEF Flushed, LastLsn, RecLen
        <3>3. s_lsn.offset = lsn.offset
            <4>1. w_off = lsn.offset
                BY <2>8, LogTypes, EmptySeq
            <4>2. /\ s_lsn.offset \in Nat /\ lsn.offset \in Nat
                  /\ s_lsn.offset > lsn.offset - 2 /\ s_lsn.offset <= lsn.offset
                BY <2>8, <3>1, <3>2, <4>1, LogTypes
            <4>. QED
                BY <4>2, EvenOffsets, EvenNext
        <3>. QED
            BY <3>2, <3>3, LogTypes, LsnHas
    <2>10. Goal(t)'
        BY <2>1, <2>3, <2>4 DEF Goal, At, Asks, Commits
    <2>11. Turning(t)'
        BY <2>1, <2>3, <2>4, <2>8, <2>9 DEF Turning, At, bufVars
    <2>12. LogPlaced'
        BY <2>1, <2>3, <2>4, <2>5, <2>10, <2>11, Standing, PlacedFollows
        DEF bufVars, flushVars, At
    <2>13. LogKept'
        BY <2>1, <2>4, <2>5, KeptFollows DEF bufVars
    <2>14. LogWaits'
        BY <2>1, <2>3, <2>4, WaitsFollow DEF flushVars, At
    <2>. QED
        BY <2>7, <2>12, <2>13, <2>14 DEF LogInv
<1>. QED
    BY <1>1, <1>2 DEF Returns, PutFails

LEMMA TellsDoneStep ==
    ASSUME LogInv, NEW t \in Task, TellsDone(t)
    PROVE  LogInv'
<1>1. told' \subseteq LsnType
    BY LogTypes, OpIs DEF TellsDone, TypeOK
<1>. QED
    BY <1>1, LeavesStep DEF TellsDone

-----------------------------------------------------------------------------
(***************************************************************************)
(* The steps that put records                                              *)
(***************************************************************************)
\* The body of a record that is in the log lies before lsn.
LEMMA RecordIs ==
    ASSUME LogInv, NEW l \in LsnType, Record(l)
    PROVE  /\ l.file \in Files /\ l.offset \in Offsets /\ l.offset + 1 \in Offsets
           /\ l.file \in Nat /\ l.offset \in Nat /\ l.offset + 2 <= LogSize /\ l.offset % 2 = 0
           /\ l.file < lsn.file \/ (l.file = lsn.file /\ l.offset + 2 <= lsn.offset)
           /\ l # lsn /\ l # ZeroLsn
<1>1. /\ l.file \in Files /\ l.offset \in 0 .. LogSize - 2 /\ l.offset % 2 = 0
      /\ Before(l, lsn)
    BY DEF Record, RecLen
<1>2. l.file \in Nat /\ l.offset \in Nat /\ l.offset + 2 <= LogSize /\ l.offset \in Offsets
      /\ l.offset + 1 \in Offsets
    <2>1. LogSize \in Nat /\ l.offset \in 0 .. LogSize - 2 /\ l.file \in Files
        BY <1>1, LogTypes
    <2>2. l.offset \in Nat /\ l.offset + 1 \in Nat /\ l.offset + 2 <= LogSize
          /\ l.offset < LogSize /\ l.offset + 1 < LogSize
        BY <2>1
    <2>. QED
        BY <2>1, <2>2, OffsetIs
<1>3. ASSUME l.file = lsn.file, l.offset < lsn.offset
      PROVE  l.offset + 2 <= lsn.offset
    <2>1. l.offset \in Nat /\ lsn.offset \in Nat
        BY <1>2, LogTypes
    <2>2. l.offset > lsn.offset - 2 => l.offset = lsn.offset
        BY <1>1, <1>3, <2>1, EvenOffsets, EvenNext
    <2>. QED
        BY <1>3, <2>1, <2>2
<1>4. l.file < lsn.file \/ (l.file = lsn.file /\ l.offset + 2 <= lsn.offset)
    BY <1>1, <1>3 DEF Before
<1>5. l # lsn
    BY <1>1, LogTypes, BeforeIs
<1>6. l # ZeroLsn
    BY <1>1, ZeroLsnIs, LogAssumption DEF Files
<1>7. l.file \in Files /\ l.offset % 2 = 0
    BY <1>1
<1>. QED
    BY <1>2, <1>4, <1>5, <1>6, <1>7

\* A record is put by task t, which holds the region: where the log stands then.
LEMMA FillPlaced ==
    ASSUME LogInv, NEW t \in Task, region = t, ~At(t, "sync"), ~At(t, "sync")',
           NEW u \in UnitType, NEW v \in UnitType, Fill(<<u, v>>), lsn.offset + 2 <= LogSize,
           op' \in [Task -> OpType], \A w \in Task \ {t} : op'[w] = op[w],
           UNCHANGED <<t_lsn, s_lsn>>, op'[t].lsn \in {ZeroLsn, lsn},
           Goal(t)', Turning(t)'
    PROVE  LogPlaced'
<1>1. /\ w_off' \in Nat /\ w_off <= w_off' /\ lsn' = Lsn(lsn.file, lsn.offset + 2)
      /\ lsn'.offset = w_off' + Len(bufp')
      /\ bufp' # <<>> => f_lsn' = Lsn(lsn.file, w_off' - (w_off' % 2))
      /\ f_lsn'.file = lsn.file
    BY FillIs
<1>2. lsn' \in LsnType /\ lsn'.file = lsn.file /\ lsn'.offset = lsn.offset + 2
    BY FillIs
<1>3. Positions'
    <2>1. lsn'.offset % 2 = 0
        BY <1>2, LogTypes, EvenOffsets, EvenIs
    <2>2. lsn'.file \in Files /\ lsn'.offset \in 0 .. LogSize /\ lsn'.offset # 0
        BY <1>2, LogTypes
    <2>. QED
        BY <1>1, <1>2, <2>1, <2>2 DEF Positions, RecLen
<1>4. SyncPoint'
    <2>1. /\ SyncPoint /\ s_lsn' = s_lsn /\ lsn'.file = lsn.file /\ s_lsn.offset \in Int
          /\ w_off \in Int /\ w_off' \in Int /\ w_off <= w_off'
        BY <1>1, <1>2, LogTypes DEF LogInv, LogPlaced
    <2>2. s_lsn.file = lsn.file => s_lsn.offset <= w_off'
        BY <2>1 DEF SyncPoint
    <2>. QED
        BY <2>1, <2>2 DEF SyncPoint
<1>5. \A l \in LsnType : Before(l, lsn) => Before(l, lsn')
    <2>1. lsn.offset \in Int /\ \A l \in LsnType : l.offset \in Int
        BY LogTypes, LsnHas
    <2>. QED
        BY <1>2, <2>1 DEF Before
<1>6. Before(t_lsn, lsn)'
    BY <1>5, LogTypes, Standing
<1>7. ASSUME NEW w \in Task, w # t
      PROVE  Goal(w)' /\ Turning(w)' /\ (op[w].lsn = lsn => FALSE)
    <2>1. op'[w] = op[w] /\ Goal(w) /\ ~Turns(w) /\ op[w].at # "put"
        BY <1>7, Standing, TurnsHolds DEF Holds
    <2>2. op[w].lsn \in LsnType /\ op[w].goal \in LsnType /\ op[w].snap \in LsnType
        BY LogTypes, OpIs
    <2>3. op[w].lsn # ZeroLsn => Record(op[w].lsn) /\ Record(op[w].lsn)'
        BY <1>5, <2>1, <2>2 DEF Goal, Record
    <2>4. Goal(w)'
        <3>1. At(w, "sync") => op[w].snap.offset \in 0 .. w_off'
            <4>1. At(w, "sync") => op[w].snap.offset \in 0 .. w_off
                BY <2>1 DEF Goal
            <4>2. w_off \in Nat /\ w_off' \in Nat /\ w_off <= w_off'
                BY <1>1, LogTypes
            <4>. QED
                BY <4>1, <4>2
        <3>2. op[w].at # "put" /\ Goal(w)
            BY <2>1
        <3>3. Asks(w) => Before(op[w].goal, lsn')
            BY <1>5, <2>2, <3>2 DEF Goal
        <3>4. /\ Commits(w) => ~Before(op[w].goal, op[w].lsn)
              /\ At(w, "wait") => ~Before(t_lsn, op[w].goal)
              /\ op[w].woken = "done" => Flushed(op[w].goal)
              /\ op[w].at \in {"synced", "flushed"} /\ op[w].ok => Flushed(op[w].goal)
            BY <3>2 DEF Goal
        <3>5. At(w, "sync") => /\ op[w].snap.file = lsn'.file
                               /\ op[w].snap.offset % RecLen = 0
                               /\ ~Before(op[w].snap, s_lsn)
                               /\ Before(op[w].goal, op[w].snap)
            BY <1>2, <3>2 DEF Goal
        <3>. QED
            BY <2>1, <2>3, <3>1, <3>2, <3>3, <3>4, <3>5
            DEF Goal, At, Asks, Commits, Flushed
    <2>5. Turning(w)'
        BY <2>1 DEF Turning, Turns, At, Asks
    <2>6. op[w].lsn # lsn
        <3>1. lsn # ZeroLsn
            BY LogTypes, ZeroLsnIs, LogAssumption DEF Files
        <3>. QED
            BY <2>2, <2>3, <3>1, RecordIs
    <2>. QED
        BY <2>4, <2>5, <2>6
<1>8. Apart'
    BY <1>7 DEF LogInv, LogPlaced, Apart
<1>. QED
    BY <1>3, <1>4, <1>6, <1>7, <1>8 DEF LogPlaced

\* And what the log holds then.
LEMMA FillKept ==
    ASSUME LogInv, NEW t \in Task,
           NEW u \in UnitType, NEW v \in UnitType, Fill(<<u, v>>), lsn.offset + 2 <= LogSize,
           Belongs(u, lsn.file, lsn.offset), Belongs(v, lsn.file, lsn.offset + 1),
           \A w \in Task \ {t} : op'[w] = op[w], UNCHANGED <<disk, s_lsn>>,
           Commits(t)' => op'[t].lsn = lsn /\ v = Unit(lsn, "commit"),
           TypeOK', Positions'
    PROVE  LogKept'
<1>1. /\ lsn' = Lsn(lsn.file, lsn.offset + 2)
      /\ \A f \in Files, o \in Offsets :
            /\ f # lsn.file \/ o < w_off => file'[f][o] = file[f][o]
            /\ Before(Lsn(f, o), lsn') =>
                   UnitAt(f, o)' = IF f = lsn.file /\ o = lsn.offset THEN u
                                   ELSE IF f = lsn.file /\ o = lsn.offset + 1 THEN v
                                   ELSE UnitAt(f, o)
    BY FillIs
<1>2. lsn' \in LsnType /\ lsn'.file = lsn.file /\ lsn'.offset = lsn.offset + 2
    BY FillIs
<1>3. LogIntact'
    <2>1. ASSUME NEW f \in Files, NEW o \in Offsets, Before(Lsn(f, o), lsn')
          PROVE  Belongs(UnitAt(f, o)', f, o)
        <3>1. f \in Nat /\ o \in Nat /\ (f < lsn.file \/ (f = lsn.file /\ o < lsn.offset + 2))
            BY <1>2, <2>1, LogTypes, BeforeLsn, OffsetIs
        <3>2. CASE f = lsn.file /\ o \in {lsn.offset, lsn.offset + 1}
            <4>1. UnitAt(f, o)' = IF o = lsn.offset THEN u ELSE v
                BY <1>1, <2>1, <3>2
            <4>. QED
                BY <3>2, <4>1, LogTypes
        <3>3. CASE ~(f = lsn.file /\ o \in {lsn.offset, lsn.offset + 1})
            <4>1. Before(Lsn(f, o), lsn)
                <5>0. o \in Int /\ lsn.offset \in Int
                    BY <3>1, LogTypes
                <5>1. f < lsn.file \/ (f = lsn.file /\ o < lsn.offset)
                    BY <3>1, <3>3, <5>0
                <5>2. f \in Nat /\ o \in Int /\ lsn \in LsnType
                    BY <3>1, LogTypes
                <5>. QED
                    BY <5>1, <5>2, BeforeLsn
            <4>2. UnitAt(f, o)' = UnitAt(f, o)
                BY <1>1, <2>1, <3>3
            <4>. QED
                BY <4>1, <4>2, IntactIs
        <3>. QED
            BY <3>2, <3>3
    <2>. QED
        BY <2>1, IntactNext
<1>4. DiskIsFile'
    <2>1. ASSUME NEW f \in Files, NEW o \in Offsets, Before(Lsn(f, o), s_lsn)
          PROVE  disk[f][o] = file'[f][o]
        <3>1. f # lsn.file \/ o < w_off
            BY <2>1, SyncedWritten
        <3>2. disk[f][o] = file[f][o]
            BY <2>1 DEF LogInv, LogKept, DiskIsFile
        <3>. QED
            BY <1>1, <3>1, <3>2
    <2>. QED
        BY <2>1 DEF DiskIsFile
<1>5. ASSUME NEW w \in Task, Commits(w)'
      PROVE  (UnitAt(op[w].lsn.file, op[w].lsn.offset + 1) = Unit(op[w].lsn, "commit"))'
    <2>1. CASE w = t
        <3>1. op'[w].lsn = lsn /\ v = Unit(lsn, "commit")
            BY <1>5, <2>1
        <3>2. lsn.file \in Files /\ lsn.offset + 1 \in Offsets /\ lsn.offset \in Nat
            BY LogTypes, OffsetIs
        <3>3. Before(Lsn(lsn.file, lsn.offset + 1), lsn')
            BY <1>2, <3>2, BeforeLsn, OffsetIs
        <3>4. PICK f \in Files, o \in Offsets : f = lsn.file /\ o = lsn.offset + 1
            BY <3>2
        <3>5. UnitAt(f, o)' = v
            <4>1. ~(f = lsn.file /\ o = lsn.offset)
                BY <3>2, <3>4
            <4>. QED
                BY <1>1, <3>3, <3>4, <4>1
        <3>. QED
            BY <3>1, <3>4, <3>5
    <2>2. CASE w # t
        <3>. DEFINE l == op[w].lsn
        <3>1. op'[w] = op[w] /\ Commits(w) /\ l \in LsnType /\ Record(l)
            BY <1>5, <2>2, LogTypes, OpIs, Standing DEF Commits, Goal
        <3>2. /\ l.file \in Files /\ l.offset + 1 \in Offsets
              /\ l.file \in Nat /\ l.offset \in Nat
              /\ l.file < lsn.file \/ (l.file = lsn.file /\ l.offset + 2 <= lsn.offset)
            BY <3>1, RecordIs
        <3>3. /\ Before(Lsn(l.file, l.offset + 1), lsn')
              /\ ~(l.file = lsn.file /\ l.offset + 1 = lsn.offset)
              /\ ~(l.file = lsn.file /\ l.offset + 1 = lsn.offset + 1)
            <4>1. /\ l.file \in Nat /\ l.offset + 1 \in Int /\ lsn.offset \in Int
                  /\ l.file < lsn.file \/ (l.file = lsn.file /\ l.offset + 1 < lsn.offset)
                <5>1. lsn.offset \in Int
                    BY LogTypes
                <5>. HIDE DEF l
                <5>. QED
                    BY <3>2, <5>1
            <4>2. l.file < lsn.file \/ (l.file = lsn.file /\ l.offset + 1 < lsn.offset + 2)
                BY <4>1
            <4>3. Before(Lsn(l.file, l.offset + 1), lsn')
                BY <1>2, <4>1, <4>2, BeforeLsn
            <4>. QED
                BY <4>1, <4>3, LogTypes
        <3>4. UnitAt(l.file, l.offset + 1) = Unit(l, "commit")
            BY <3>1 DEF LogInv, LogKept, CommitsWhole
        <3>5. PICK f \in Files, o \in Offsets : f = l.file /\ o = l.offset + 1
            BY <3>2
        <3>6. UnitAt(f, o)' = Unit(l, "commit")
            BY <1>1, <3>3, <3>4, <3>5
        <3>. QED
            BY <3>1, <3>5, <3>6
    <2>. QED
        BY <2>1, <2>2
<1>. QED
    BY <1>3, <1>4, <1>5 DEF LogKept, CommitsWhole

\* A write that fails: the files are what they were before w_off.
LEMMA OldFileKept ==
    ASSUME LogInv, UNCHANGED <<lsn, bufp, w_off, disk, s_lsn>>,
           \A f \in Files, o \in Offsets :
               f # lsn.file \/ o < w_off => file'[f][o] = file[f][o],
           \A w \in Task : Commits(w)' => Commits(w) /\ op'[w].lsn = op[w].lsn
    PROVE  LogKept'
<1>1. LogIntact'
    <2>1. \A f \in Files, o \in Offsets :
              f < lsn.file \/ (f = lsn.file /\ o < w_off) => file'[f][o] = file[f][o]
        BY LogTypes, OffsetIs
    <2>. QED
        BY <2>1 DEF LogInv, LogKept, LogIntact
<1>2. DiskIsFile'
    <2>1. ASSUME NEW f \in Files, NEW o \in Offsets, Before(Lsn(f, o), s_lsn)
          PROVE  disk[f][o] = file'[f][o]
        <3>1. f # lsn.file \/ o < w_off
            BY <2>1, SyncedWritten
        <3>2. disk[f][o] = file[f][o]
            BY <2>1 DEF LogInv, LogKept, DiskIsFile
        <3>. QED
            BY <3>1, <3>2
    <2>. QED
        BY <2>1 DEF DiskIsFile
<1>3. CommitsWhole'
    <2>1. ASSUME NEW w \in Task, Commits(w)'
          PROVE  (UnitAt(op[w].lsn.file, op[w].lsn.offset + 1) = Unit(op[w].lsn, "commit"))'
        <3>. DEFINE l == op[w].lsn
        <3>1. op'[w].lsn = l /\ Commits(w) /\ l \in LsnType /\ Record(l)
            BY <2>1, LogTypes, OpIs, Standing DEF Commits, Goal
        <3>2. l.file \in Files /\ l.offset + 1 \in Offsets
            BY <3>1, RecordIs
        <3>3. UnitAt(l.file, l.offset + 1) = Unit(l, "commit")
            BY <3>1 DEF LogInv, LogKept, CommitsWhole
        <3>4. PICK f \in Files, o \in Offsets : f = l.file /\ o = l.offset + 1
            BY <3>2
        <3>5. f # lsn.file \/ o < w_off => file'[f][o] = file[f][o]
            OBVIOUS
        <3>6. f \in Nat /\ lsn.file \in Nat
            BY LogTypes, OffsetIs
        <3>7. UnitAt(f, o)' = UnitAt(f, o)
            BY <3>5, <3>6 DEF UnitAt
        <3>. QED
            BY <3>1, <3>3, <3>4, <3>7
    <2>. QED
        BY <2>1 DEF CommitsWhole
<1>. QED
    BY <1>1, <1>2, <1>3 DEF LogKept

\* A put that fails: the buffer is written in part, or not at all.
LEMMA PutFailsStep ==
    ASSUME LogInv, NEW t \in Task, op[t].at \in {"newfile", "put"},
           ~(At(t, "newfile") /\ lsn.offset = 0),
           NEW u \in UnitType, NEW v \in UnitType, FillFails(<<u, v>>), PutFails(t),
           UNCHANGED <<disk, s_lsn, flushVars, mtx_flush, told>>
    PROVE  LogInv'
<1>1. /\ UNCHANGED <<lsn, bufp, f_lsn>>
      /\ WriteFails(SubSeq(bufp \o <<u, v>>, 1, BufSize)) /\ Len(bufp \o <<u, v>>) >= BufSize
    BY DEF FillFails
<1>2. SubSeq(bufp \o <<u, v>>, 1, BufSize) \in Seq(UnitType)
    <2>1. <<u, v>> \in Seq(UnitType)
        OBVIOUS
    <2>2. bufp \o <<u, v>> \in Seq(UnitType)
        BY <2>1, LogTypes, ConcatProperties
    <2>3. \A i \in 1 .. BufSize : (bufp \o <<u, v>>)[i] \in UnitType
        BY <1>1, <2>2, LogTypes, LenProperties, ElementOfSeq
    <2>. DEFINE all == bufp \o <<u, v>>
    <2>. HIDE DEF all
    <2>4. \A i \in 1 .. BufSize : all[i] \in UnitType
        BY <2>3 DEF all
    <2>5. SubSeq(all, 1, BufSize) \in Seq(UnitType)
        BY <2>4, LogTypes, SubSeqProperties
    <2>. QED
        BY <2>5 DEF all
<1>3. /\ file' \in [Files -> [Offsets -> UnitType]] /\ w_off' = w_off
      /\ faults' \in 0 .. MaxFaults
      /\ \A f \in Files, o \in Offsets :
            f # lsn.file \/ o < w_off => file'[f][o] = file[f][o]
    BY <1>1, <1>2, WriteFailsIs
<1>4. region = t /\ region' = NoTask /\ mtx_flush # t /\ Sets(t, Idle)
    BY Standing DEF PutFails, Holds
<1>5. op' \in [Task -> OpType] /\ op'[t] = Idle /\ \A w \in Task \ {t} : op'[w] = op[w]
    BY <1>4, IdleIs, LogTypes, SetsIs
<1>6. /\ Shape(t)' /\ ~Holds(t)' /\ ~At(t, "sync")' /\ ~At(t, "wait")'
      /\ ~Commits(t)' /\ ~Turns(t)'
    BY <1>5, IdleIs DEF Shape, Holds, At, Asks, Commits, Turns
<1>7. TypeOK'
    BY <1>1, <1>3, <1>4, <1>5, LogTypes DEF TypeOK, OpType, flushVars
<1>8. LogWell'
    BY <1>4, <1>5, <1>6, <1>7, Standing, LogAssumption, LocksFollow DEF LogWell
<1>9. Goal(t)' /\ Turning(t)'
    BY <1>5, <1>6, IdleIs DEF Goal, Turning, At, Asks, Commits
<1>10. LogPlaced'
    BY <1>1, <1>3, <1>4, <1>5, <1>6, <1>9, IdleIs, Standing, PlacedFollows DEF flushVars, At
<1>11. LogWaits'
    BY <1>5, <1>6, IdleIs, WaitsFollow DEF flushVars, At
<1>12. LogKept'
    <2>1. \A w \in Task : Commits(w)' => Commits(w) /\ op'[w].lsn = op[w].lsn
        BY <1>5, <1>6 DEF Commits
    <2>. QED
        BY <1>1, <1>3, <2>1, OldFileKept
<1>. QED
    BY <1>8, <1>10, <1>11, <1>12 DEF LogInv

\* Header and body of a record belong where it is put.
LEMMA UnitsBelong ==
    ASSUME LogInv, NEW p \in {"persist", "update", "commit"}
    PROVE  /\ Unit(lsn, "head") \in UnitType /\ Unit(lsn, p) \in UnitType
           /\ Belongs(Unit(lsn, "head"), lsn.file, lsn.offset)
           /\ Belongs(Unit(lsn, p), lsn.file, lsn.offset + 1)
<1>1. lsn \in LsnType /\ lsn.offset \in Nat /\ lsn.offset % 2 = 0
    BY LogTypes, EvenOffsets
<1>2. /\ lsn.offset - (lsn.offset % 2) = lsn.offset
      /\ (lsn.offset + 1) - ((lsn.offset + 1) % 2) = lsn.offset
      /\ (lsn.offset + 1) % 2 # 0
    BY <1>1, EvenIs
<1>3. lsn = Lsn(lsn.file, lsn.offset)
    BY <1>1, LsnHas
<1>4. Unit(lsn, "head") \in UnitType /\ Unit(lsn, "head").lsn = lsn
      /\ Unit(lsn, "head").part = "head"
    BY <1>1, UnitIs
<1>5. Unit(lsn, p) \in UnitType /\ Unit(lsn, p).lsn = lsn /\ Unit(lsn, p).part = p
    BY <1>1, UnitIs
<1>6. Belongs(Unit(lsn, "head"), lsn.file, lsn.offset)
    BY <1>1, <1>2, <1>3, <1>4 DEF Belongs, RecLen
<1>7. Belongs(Unit(lsn, p), lsn.file, lsn.offset + 1)
    BY <1>1, <1>2, <1>3, <1>5 DEF Belongs, RecLen
<1>. QED
    BY <1>4, <1>5, <1>6, <1>7

LEMMA AdvanceFileStep ==
    ASSUME LogInv, NEW t \in Task, AdvanceFile(t)
    PROVE  LogInv'
<1>1. /\ op[t].at = "newfile" /\ lsn.offset # 0 /\ lsn' = Lsn(lsn.file + 1, 0) /\ w_off' = 0
      /\ UNCHANGED <<bufp, f_lsn, file, disk, s_lsn, flushVars, region, mtx_flush, op, told, faults>>
    BY DEF AdvanceFile, At
<1>2. /\ region = t /\ lsn.file < MaxFile /\ lsn.offset = LogSize /\ bufp = <<>> /\ s_lsn = lsn
      /\ \A u \in Task \ {t} : ~At(u, "sync")
    <2>1. Turns(t)
        BY <1>1, Standing DEF Turns, Shape, At
    <2>. QED
        BY <1>1, <2>1, Standing DEF Turning, At, Holds
<1>3. /\ lsn' \in LsnType /\ lsn'.file = lsn.file + 1 /\ lsn'.offset = 0 /\ lsn'.file \in Files
    BY <1>1, <1>2, LogTypes, LsnIs DEF Files
<1>4. Len(bufp) = 0 /\ w_off = LogSize
    BY <1>2, LogTypes, EmptySeq
<1>5. LogWell'
    <2>1. TypeOK'
        BY <1>1, <1>3, LogTypes DEF TypeOK, flushVars
    <2>2. Locks' /\ \A u \in Task : Shape(u)'
        BY <1>1 DEF LogInv, LogWell, Locks, Shape, Holds, At, Asks, Commits, Turns
    <2>. QED
        BY <2>1, <2>2 DEF LogWell
<1>6. Positions'
    BY <1>1, <1>2, <1>3, <1>4, LogTypes DEF Positions, RecLen, At
<1>7. SyncPoint'
    <2>1. /\ s_lsn.file = lsn'.file - 1 /\ s_lsn.file <= lsn'.file
          /\ s_lsn.file # lsn'.file /\ s_lsn.offset = LogSize
        <3>1. s_lsn.file = lsn.file /\ s_lsn.offset = LogSize /\ lsn.file \in Nat
            BY <1>2, LogTypes
        <3>. QED
            BY <1>3, <3>1
    <2>2. s_lsn' = s_lsn /\ s_lsn.offset \in 0 .. LogSize /\ s_lsn.offset % RecLen = 0
        BY <1>1 DEF LogInv, LogPlaced, SyncPoint
    <2>. QED
        BY <2>1, <2>2 DEF SyncPoint
<1>8. \A l \in LsnType : Before(l, lsn) => Before(l, lsn')
    BY <1>3, LogTypes, LsnHas DEF Before
<1>9. Before(t_lsn, lsn)' /\ Apart'
    BY <1>1, <1>8, Standing DEF LogInv, LogPlaced, Apart, flushVars
<1>10. ASSUME NEW u \in Task
       PROVE  Goal(u)' /\ Turning(u)'
    <2>1. Goal(u) /\ op'[u] = op[u] /\ op[u].at # "put" /\ op[u].at # "sync"
        BY <1>1, <1>2, Standing DEF Holds, At
    <2>2. op[u].lsn \in LsnType /\ op[u].goal \in LsnType
        BY LogTypes, OpIs
    <2>3. Goal(u)'
        BY <1>1, <1>8, <2>1, <2>2 DEF Goal, At, Asks, Commits, Flushed, Record, flushVars
    <2>4. Turning(u)'
        <3>1. u # t => ~Turns(u)
            BY <1>2, Standing, TurnsHolds
        <3>. QED
            BY <1>1, <1>3, <2>1, <3>1 DEF Turning, Turns, At, Asks
    <2>. QED
        BY <2>3, <2>4
<1>11. LogPlaced'
    BY <1>6, <1>7, <1>9, <1>10 DEF LogPlaced
<1>12. \A f \in Files, o \in Offsets :
           Before(Lsn(f, o), lsn) /\ f <= lsn.file => UnitAt(f, o)' = UnitAt(f, o)
    BY <1>1, <1>2, <1>3, <1>4, LogTypes, OffsetIs DEF UnitAt
<1>13. LogIntact'
    <2>1. ASSUME NEW f \in Files, NEW o \in Offsets, Before(Lsn(f, o), lsn')
          PROVE  Belongs(UnitAt(f, o)', f, o)
        <3>1. f \in Nat /\ o \in Nat /\ o < LogSize /\ f <= lsn.file
            <4>1. f \in Nat /\ o \in Nat /\ o < LogSize /\ lsn.file \in Nat
                BY LogTypes, OffsetIs
            <4>2. f < lsn.file + 1 \/ (f = lsn.file + 1 /\ o < 0)
                BY <1>3, <2>1, <4>1, BeforeLsn
            <4>. QED
                BY <4>1, <4>2
        <3>2. Before(Lsn(f, o), lsn)
            BY <1>2, <3>1, LogTypes, BeforeLsn
        <3>. QED
            BY <1>12, <3>1, <3>2, IntactIs
    <2>. QED
        BY <1>5, <1>6, <2>1, IntactNext DEF LogWell
<1>14. DiskIsFile'
    BY <1>1 DEF LogInv, LogKept, DiskIsFile
<1>15. CommitsWhole'
    <2>1. ASSUME NEW w \in Task, Commits(w)'
          PROVE  (UnitAt(op[w].lsn.file, op[w].lsn.offset + 1) = Unit(op[w].lsn, "commit"))'
        <3>. DEFINE l == op[w].lsn
        <3>1. op'[w] = op[w] /\ Commits(w) /\ l \in LsnType /\ Record(l)
            BY <1>1, <2>1, LogTypes, OpIs, Standing DEF Commits, Goal
        <3>2. /\ l.file \in Files /\ l.offset + 1 \in Offsets /\ l.file \in Nat
              /\ l.file <= lsn.file
            <4>1. /\ l.file \in Files /\ l.offset + 1 \in Offsets /\ l.file \in Nat
                  /\ l.file < lsn.file \/ l.file = lsn.file
                BY <3>1, RecordIs
            <4>2. lsn.file \in Nat
                BY LogTypes
            <4>. HIDE DEF l
            <4>. QED
                BY <4>1, <4>2
        <3>3. UnitAt(l.file, l.offset + 1) = Unit(l, "commit")
            BY <3>1 DEF LogInv, LogKept, CommitsWhole
        <3>4. PICK f \in Files, o \in Offsets : f = l.file /\ o = l.offset + 1
            BY <3>2
        <3>5. Before(Lsn(f, o), lsn)
            BY <1>2, <3>2, <3>4, LogTypes, BeforeLsn, OffsetIs
        <3>6. UnitAt(f, o)' = UnitAt(f, o)
            BY <1>12, <3>2, <3>4, <3>5
        <3>. QED
            BY <3>1, <3>3, <3>4, <3>6
    <2>. QED
        BY <2>1 DEF CommitsWhole
<1>16. LogWaits'
    BY <1>1 DEF LogInv, LogWaits, Listed, InFlushExact, WaitersHaveFlush, Flushing, At, flushVars
<1>. QED
    BY <1>5, <1>11, <1>13, <1>14, <1>15, <1>16 DEF LogInv, LogKept

LEMMA EvenGap ==
    ASSUME NEW a \in Nat, NEW b \in Nat, a % 2 = 0, b % 2 = 0, a < b
    PROVE  a + 2 <= b
OBVIOUS

LEMMA NewFileStep ==
    ASSUME LogInv, NEW t \in Task, NewFile(t)
    PROVE  LogInv'
<1>. DEFINE u == Unit(lsn, "head")
            v == Unit(lsn, "persist")
            r == [op[t] EXCEPT !.at = "put"]
<1>1. /\ op[t].at = "newfile" /\ lsn.offset = 0
      /\ UNCHANGED <<disk, s_lsn, flushVars, mtx_flush, told>>
      /\ \/ Fill(<<u, v>>) /\ Goes(t, "put") /\ UNCHANGED region
         \/ FillFails(<<u, v>>) /\ PutFails(t)
    BY DEF NewFile, At
<1>2. /\ u \in UnitType /\ v \in UnitType
      /\ Belongs(u, lsn.file, lsn.offset) /\ Belongs(v, lsn.file, lsn.offset + 1)
    BY UnitsBelong
<1>. HIDE DEF u, v
<1>3. lsn.offset + 2 <= LogSize /\ 4 <= LogSize
    <2>1. LogSize \in Nat /\ LogSize > 2
        BY LogTypes
    <2>2. 2 + 2 <= LogSize
        BY <2>1, EvenOffsets, EvenGap
    <2>. QED
        BY <1>1, <2>1, <2>2
<1>4. CASE FillFails(<<u, v>>)
    <2>1. Len(bufp) = 0 /\ Len(<<u, v>>) = 2 /\ <<u, v>> \in Seq(UnitType)
        BY <1>1, <1>2, LogTypes
    <2>2. Len(bufp \o <<u, v>>) = 2
        BY <2>1, LogTypes, ConcatProperties
    <2>3. ~(Len(bufp \o <<u, v>>) >= BufSize)
        BY <2>2, LogTypes
    <2>. QED
        BY <1>4, <2>3 DEF FillFails
<1>5. CASE Fill(<<u, v>>) /\ Goes(t, "put") /\ UNCHANGED region
    <2>1. TypeOK /\ op[t] \in OpType /\ region = t /\ mtx_flush # t /\ Sets(t, r)
        BY <1>1, <1>5, LogTypes, OpIs, Standing DEF Goes, Holds
    <2>2. /\ r \in OpType /\ r.for = op[t].for /\ r.at = "put" /\ r.lsn = op[t].lsn
          /\ r.release = op[t].release /\ r.woken = op[t].woken
        BY <2>1 DEF OpType, Places
    <2>3. op[t].for \in {"commit", "update"} /\ op[t].lsn = ZeroLsn /\ op[t].woken = "no"
        BY <1>1, Standing DEF Shape, At
    <2>. HIDE DEF r
    <2>4. op' \in [Task -> OpType] /\ op'[t] = r /\ \A w \in Task \ {t} : op'[w] = op[w]
        BY <2>1, <2>2, SetsIs
    <2>5. /\ Shape(t)' /\ Holds(t)' /\ ~At(t, "sync")' /\ ~Commits(t)' /\ ~Turns(t)'
          /\ ~Asks(t)' /\ ~At(t, "wait")'
        BY <2>2, <2>3, <2>4 DEF Shape, Holds, At, Asks, Commits, Turns
    <2>6. /\ bufp' \in Seq(UnitType) /\ Len(bufp') < BufSize
          /\ file' \in [Files -> [Offsets -> UnitType]]
          /\ w_off' \in Nat /\ faults' = faults /\ f_lsn' \in LsnType
          /\ lsn' \in LsnType /\ lsn'.offset = lsn.offset + 2
        BY <1>2, <1>3, <1>5, FillIs
    <2>7. TypeOK'
        BY <1>1, <1>5, <2>1, <2>4, <2>6 DEF TypeOK, OpType, flushVars
    <2>8. LogWell'
        BY <1>1, <1>5, <2>1, <2>4, <2>5, <2>7, Standing, LocksFollow DEF LogWell, At
    <2>9. Goal(t)'
        <3>1. lsn'.offset + RecLen <= LogSize
            BY <1>1, <1>3, <2>6 DEF RecLen
        <3>. QED
            BY <2>2, <2>3, <2>4, <2>5, <3>1 DEF Goal, At, Asks, Commits
    <2>10. Turning(t)'
        BY <2>5 DEF Turning
    <2>11. LogPlaced'
        BY <1>1, <1>2, <1>3, <1>5, <2>1, <2>2, <2>3, <2>4, <2>5, <2>9, <2>10, FillPlaced
        DEF flushVars, At
    <2>12. LogKept'
        BY <1>1, <1>2, <1>3, <1>5, <2>4, <2>5, <2>7, <2>11, FillKept DEF LogPlaced
    <2>13. LogWaits'
        BY <1>1, <2>2, <2>4, WaitsFollow DEF flushVars, At
    <2>. QED
        BY <2>8, <2>11, <2>12, <2>13 DEF LogInv
<1>. QED
    BY <1>1, <1>4, <1>5

LEMMA PutRecordStep ==
    ASSUME LogInv, NEW t \in Task, PutRecord(t)
    PROVE  LogInv'
<1>. DEFINE u == Unit(lsn, "head")
            v == Unit(lsn, op[t].for)
            c == [op[t] EXCEPT !.at = "flush", !.lsn = lsn, !.goal = lsn, !.release = TRUE]
<1>1. /\ op[t].at = "put"
      /\ UNCHANGED <<disk, s_lsn, flushVars, mtx_flush, told>>
      /\ \/ /\ Fill(<<u, v>>)
            /\ \/ op[t].for = "commit" /\ Sets(t, c) /\ UNCHANGED region
               \/ op[t].for = "update" /\ Sets(t, Idle) /\ region' = NoTask
         \/ FillFails(<<u, v>>) /\ PutFails(t)
    BY DEF PutRecord, At
<1>2. /\ op[t].for \in {"commit", "update"} /\ op[t].lsn = ZeroLsn /\ op[t].woken = "no"
      /\ region = t /\ mtx_flush # t /\ TypeOK /\ op[t] \in OpType
      /\ lsn \in LsnType
    BY <1>1, LogTypes, OpIs, Standing DEF Shape, At, Holds
<1>3. /\ u \in UnitType /\ v \in UnitType
      /\ Belongs(u, lsn.file, lsn.offset) /\ Belongs(v, lsn.file, lsn.offset + 1)
    BY <1>2, UnitsBelong
<1>4. op[t].for = "commit" => v = Unit(lsn, "commit")
    OBVIOUS
<1>5. lsn.offset + 2 <= LogSize
    BY <1>1, Standing DEF Goal, At, RecLen
<1>. HIDE DEF u, v
<1>6. CASE FillFails(<<u, v>>) /\ PutFails(t)
    BY <1>1, <1>3, <1>6, PutFailsStep DEF At
<1>7. CASE Fill(<<u, v>>)
    <2>1. /\ bufp' \in Seq(UnitType) /\ Len(bufp') < BufSize
          /\ file' \in [Files -> [Offsets -> UnitType]]
          /\ w_off' \in Nat /\ faults' = faults /\ f_lsn' \in LsnType
          /\ lsn' \in LsnType /\ lsn'.file = lsn.file /\ lsn'.offset = lsn.offset + 2
        BY <1>3, <1>5, <1>7, FillIs
    <2>2. CASE op[t].for = "commit" /\ Sets(t, c) /\ UNCHANGED region
        <3>1. /\ c \in OpType /\ c.at = "flush" /\ c.for = "commit" /\ c.lsn = lsn /\ c.goal = lsn
              /\ c.release = TRUE /\ c.woken = "no"
            BY <1>2, <2>2 DEF OpType, Places
        <3>. HIDE DEF c
        <3>2. op' \in [Task -> OpType] /\ op'[t] = c /\ \A w \in Task \ {t} : op'[w] = op[w]
            BY <1>2, <2>2, <3>1, SetsIs
        <3>3. lsn # ZeroLsn
            BY LogTypes, ZeroLsnIs, LogAssumption DEF Files
        <3>4. /\ Shape(t)' /\ Holds(t)' /\ ~At(t, "sync")' /\ ~Turns(t)' /\ ~At(t, "wait")'
            BY <3>1, <3>2, <3>3 DEF Shape, Holds, At, Asks, Commits, Turns
        <3>5. TypeOK'
            BY <1>1, <1>2, <2>1, <2>2, <3>2 DEF TypeOK, OpType, flushVars
        <3>6. LogWell'
            BY <1>1, <1>2, <2>2, <3>2, <3>4, <3>5, Standing, LocksFollow DEF LogWell, At
        <3>7. Before(lsn, lsn')
            BY <2>1, LogTypes DEF Before
        <3>8. Record(op[t].lsn)'
            <4>1. lsn.file \in Files /\ lsn.offset \in 0 .. LogSize - 2 /\ lsn.offset % 2 = 0
                <5>1. lsn.offset \in 0 .. LogSize - 2
                    BY <1>5, LogTypes
                <5>. QED
                    BY <5>1, LogTypes, EvenOffsets
            <4>2. op'[t].lsn = lsn
                BY <3>1, <3>2
            <4>. QED
                BY <3>7, <4>1, <4>2 DEF Record, RecLen
        <3>9. Goal(t)'
            <4>1. ~Before(lsn, lsn)
                BY <1>2, BeforeIs
            <4>. QED
                BY <3>1, <3>2, <3>7, <3>8, <4>1 DEF Goal, At, Asks, Commits
        <3>10. Turning(t)'
            BY <3>4 DEF Turning
        <3>11. LogPlaced'
            BY <1>1, <1>2, <1>3, <1>5, <1>7, <3>1, <3>2, <3>4, <3>9, <3>10, FillPlaced
            DEF flushVars, At
        <3>12. LogKept'
            BY <1>1, <1>3, <1>4, <1>5, <1>7, <2>2, <3>1, <3>2, <3>5, <3>11, FillKept DEF LogPlaced
        <3>13. LogWaits'
            BY <1>1, <3>1, <3>2, WaitsFollow DEF flushVars, At
        <3>. QED
            BY <3>6, <3>11, <3>12, <3>13 DEF LogInv
    <2>3. CASE op[t].for = "update" /\ Sets(t, Idle) /\ region' = NoTask
        <3>1. op' \in [Task -> OpType] /\ op'[t] = Idle /\ \A w \in Task \ {t} : op'[w] = op[w]
            BY <1>2, <2>3, IdleIs, SetsIs
        <3>2. /\ Shape(t)' /\ ~Holds(t)' /\ ~At(t, "sync")' /\ ~At(t, "wait")'
              /\ ~Commits(t)' /\ ~Turns(t)'
            BY <3>1, IdleIs DEF Shape, Holds, At, Asks, Commits, Turns
        <3>3. TypeOK'
            BY <1>1, <1>2, <2>1, <2>3, <3>1 DEF TypeOK, OpType, flushVars
        <3>4. LogWell'
            BY <1>1, <1>2, <2>3, <3>1, <3>2, <3>3, Standing, LogAssumption, LocksFollow
            DEF LogWell, At
        <3>5. Goal(t)' /\ Turning(t)'
            BY <3>1, <3>2, IdleIs DEF Goal, Turning, At, Asks, Commits
        <3>6. LogPlaced'
            BY <1>1, <1>2, <1>3, <1>5, <1>7, <3>1, <3>2, <3>5, IdleIs, FillPlaced
            DEF flushVars, At
        <3>7. LogKept'
            BY <1>1, <1>3, <1>5, <1>7, <3>1, <3>2, <3>3, <3>6, FillKept DEF LogPlaced
        <3>8. LogWaits'
            BY <1>1, <3>1, IdleIs, WaitsFollow DEF flushVars, At
        <3>. QED
            BY <3>4, <3>6, <3>7, <3>8 DEF LogInv
    <2>. QED
        BY <1>1, <1>7, <2>2, <2>3, <1>6
<1>. QED
    BY <1>1, <1>6, <1>7

-----------------------------------------------------------------------------
(***************************************************************************)
(* Asking for a flush                                                      *)
(***************************************************************************)
\* A flush is counted as long as there is one.
LEMMA CountedFlush ==
    ASSUME LogInv
    PROVE  /\ in_flush \in Nat /\ in_flush = Cardinality(Flushing) /\ IsFiniteSet(Flushing)
           /\ in_flush # 0 => Flushing # {}
BY LogTypes, FS_EmptySet DEF LogInv, LogWaits, InFlushExact, TypeOK

\* The first look: the record is past, the flush goes on under the mutex, or
\* the task waits.
LEMMA FlushIntStep ==
    ASSUME LogInv, NEW t \in Task, FlushInt(t)
    PROVE  LogInv'
<1>. DEFINE passed == ~ForNewFile(t) /\ Flushed(op[t].goal)
<1>1. /\ op[t].at = "flush"
      /\ UNCHANGED <<bufVars, disk, s_lsn, mtx_flush, told, faults>>
    BY DEF FlushInt, At
<1>2. /\ TypeOK /\ op[t] \in OpType /\ region = t /\ mtx_flush # t /\ op[t].woken = "no"
      /\ op[t].goal \in LsnType /\ op[t].for # "none" /\ Shape(t) /\ Goal(t) /\ Turning(t)
      /\ Before(op[t].goal, lsn)
    BY <1>1, LogTypes, OpIs, Standing DEF Shape, Goal, At, Asks, Holds
<1>3. CASE /\ passed
           /\ Sets(t, [op[t] EXCEPT !.at = "flushed", !.ok = TRUE])
           /\ UNCHANGED <<flushVars, region>>
    <2>. DEFINE r == [op[t] EXCEPT !.at = "flushed", !.ok = TRUE]
    <2>1. /\ r \in OpType /\ r.at = "flushed" /\ r.ok = TRUE /\ r.for = op[t].for
          /\ r.lsn = op[t].lsn /\ r.goal = op[t].goal /\ r.release = op[t].release
          /\ r.woken = op[t].woken
        BY <1>2 DEF OpType, Places
    <2>2. Sets(t, r)
        BY <1>3
    <2>. HIDE DEF r
    <2>3. op' \in [Task -> OpType] /\ op'[t] = r /\ \A w \in Task \ {t} : op'[w] = op[w]
        BY <1>2, <2>1, <2>2, SetsIs
    <2>4. /\ Shape(t)' /\ Holds(t)' /\ ~At(t, "sync")' /\ ~At(t, "wait")' /\ ~Turns(t)'
          /\ Commits(t)' <=> Commits(t)
        BY <1>1, <1>2, <1>3, <2>1, <2>3 DEF Shape, Holds, At, Asks, Commits, Turns, ForNewFile
    <2>5. TypeOK'
        BY <1>1, <1>2, <1>3, <2>3 DEF TypeOK, OpType, bufVars, flushVars
    <2>6. LogWell'
        BY <1>1, <1>2, <1>3, <2>3, <2>4, <2>5, Standing, LocksFollow DEF LogWell, At
    <2>7. Goal(t)' /\ Turning(t)'
        BY <1>1, <1>2, <1>3, <2>1, <2>3, <2>4
        DEF Goal, Turning, At, Asks, Commits, Record, Flushed, bufVars
    <2>8. LogPlaced'
        BY <1>1, <1>2, <1>3, <2>1, <2>3, <2>4, <2>7, Standing, PlacedFollows
        DEF bufVars, flushVars, At
    <2>9. LogKept'
        BY <1>1, <2>1, <2>3, <2>4, KeptFollows DEF bufVars
    <2>10. LogWaits'
        BY <1>1, <1>3, <2>1, <2>3, WaitsFollow DEF flushVars, At
    <2>. QED
        BY <2>6, <2>8, <2>9, <2>10 DEF LogInv
<1>4. CASE /\ ~passed /\ op[t].release /\ in_flush # 0
           /\ commits' = <<t>> \o commits
           /\ t_lsn' = IF Before(t_lsn, op[t].goal) THEN op[t].goal ELSE t_lsn
           /\ region' = NoTask
           /\ Goes(t, "wait")
           /\ UNCHANGED in_flush
    <2>. DEFINE r == [op[t] EXCEPT !.at = "wait"]
    <2>1. /\ r \in OpType /\ r.at = "wait" /\ r.for = op[t].for
          /\ r.lsn = op[t].lsn /\ r.goal = op[t].goal /\ r.release = op[t].release
          /\ r.woken = op[t].woken
        BY <1>2 DEF OpType, Places
    <2>2. Sets(t, r)
        BY <1>4 DEF Goes
    <2>. HIDE DEF r
    <2>3. op' \in [Task -> OpType] /\ op'[t] = r /\ \A w \in Task \ {t} : op'[w] = op[w]
        BY <1>2, <2>1, <2>2, SetsIs
    <2>4. /\ Shape(t)' /\ ~Holds(t)' /\ ~At(t, "sync")' /\ ~Turns(t)'
          /\ Commits(t)' <=> Commits(t)
        BY <1>1, <1>2, <1>4, <2>1, <2>3 DEF Shape, Holds, At, Asks, Commits, Turns
    <2>5. /\ t_lsn' \in LsnType /\ ~Before(t_lsn', t_lsn) /\ Before(t_lsn', lsn)
          /\ ~Before(t_lsn', op[t].goal)
        BY <1>2, <1>4, Standing, BeforeIs
    <2>6. /\ commits' \in List(Task) /\ ToSet(commits') = ToSet(commits) \cup {t}
          /\ commits' # <<>>
        <3>1. commits \in List(Task) /\ t \notin ToSet(commits)
            BY <1>1 DEF LogInv, LogWaits, Listed, At
        <3>. QED
            BY <1>4, <3>1, ListCons
    <2>7. TypeOK'
        BY <1>1, <1>2, <1>4, <2>3, <2>5, <2>6 DEF TypeOK, OpType, bufVars, List
    <2>8. LogWell'
        BY <1>1, <1>2, <1>4, <2>3, <2>4, <2>7, Standing, LogAssumption, LocksFollow
        DEF LogWell, At
    <2>9. Goal(t)' /\ Turning(t)'
        BY <1>1, <1>2, <2>1, <2>3, <2>4, <2>5
        DEF Goal, Turning, At, Asks, Commits, Record, bufVars
    <2>10. LogPlaced'
        BY <1>1, <2>1, <2>3, <2>4, <2>5, <2>9, Standing, PlacedFollows DEF bufVars, At
    <2>11. LogKept'
        BY <1>1, <2>1, <2>3, <2>4, KeptFollows DEF bufVars
    <2>12. Flushing' = Flushing
        BY <1>1, <1>2, <2>1, <2>3 DEF Flushing
    <2>13. Listed'
        <3>1. \A u \in Task : u # t => (At(u, "wait")' <=> At(u, "wait"))
            BY <2>3 DEF At
        <3>2. At(t, "wait")' /\ op'[t].woken = "no"
            BY <1>2, <2>1, <2>3 DEF At
        <3>. QED
            BY <2>3, <2>6, <3>1, <3>2 DEF LogInv, LogWaits, Listed
    <2>14. WaitersHaveFlush'
        BY <1>4, <2>12, <2>13, CountedFlush DEF WaitersHaveFlush, Listed
    <2>15. LogWaits'
        BY <1>4, <2>12, <2>13, <2>14, CountedFlush DEF LogWaits, InFlushExact
    <2>. QED
        BY <2>8, <2>10, <2>11, <2>15 DEF LogInv
<1>5. CASE Goes(t, "mtx") /\ UNCHANGED <<flushVars, region>>
    <2>. DEFINE r == [op[t] EXCEPT !.at = "mtx"]
    <2>1. /\ r \in OpType /\ r.at = "mtx" /\ r.for = op[t].for
          /\ r.lsn = op[t].lsn /\ r.goal = op[t].goal /\ r.release = op[t].release
          /\ r.woken = op[t].woken
        BY <1>2 DEF OpType, Places
    <2>2. Sets(t, r)
        BY <1>5 DEF Goes
    <2>. HIDE DEF r
    <2>3. op' \in [Task -> OpType] /\ op'[t] = r /\ \A w \in Task \ {t} : op'[w] = op[w]
        BY <1>2, <2>1, <2>2, SetsIs
    <2>4. /\ Shape(t)' /\ Holds(t)' /\ ~At(t, "sync")' /\ ~At(t, "wait")'
          /\ Commits(t)' <=> Commits(t)
        BY <1>1, <1>2, <2>1, <2>3 DEF Shape, Holds, At, Asks, Commits, Turns
    <2>5. TypeOK'
        BY <1>1, <1>2, <1>5, <2>3 DEF TypeOK, OpType, bufVars, flushVars
    <2>6. LogWell'
        BY <1>1, <1>2, <1>5, <2>3, <2>4, <2>5, Standing, LocksFollow DEF LogWell, At
    <2>7. Goal(t)'
        BY <1>1, <1>2, <2>1, <2>3 DEF Goal, At, Asks, Commits, Record, bufVars
    <2>8. Turning(t)'
        BY <1>1, <1>2, <2>1, <2>3 DEF Turning, Turns, At, Asks, LastLsn, bufVars
    <2>9. LogPlaced'
        BY <1>1, <1>2, <1>5, <2>1, <2>3, <2>4, <2>7, <2>8, Standing, PlacedFollows
        DEF bufVars, flushVars, At
    <2>10. LogKept'
        BY <1>1, <2>1, <2>3, <2>4, KeptFollows DEF bufVars
    <2>11. LogWaits'
        BY <1>1, <1>5, <2>1, <2>3, WaitsFollow DEF flushVars, At
    <2>. QED
        BY <2>6, <2>9, <2>10, <2>11 DEF LogInv
<1>. QED
    BY <1>3, <1>4, <1>5 DEF FlushInt

\* A waiter goes on.
LEMMA WokenStep ==
    ASSUME LogInv, NEW t \in Task, Woken(t)
    PROVE  LogInv'
<1>1. /\ op[t].at = "wait" /\ op[t].woken # "no" /\ region = NoTask /\ region' = t
      /\ UNCHANGED <<bufVars, disk, s_lsn, t_lsn, commits, mtx_flush, told, faults>>
    BY DEF Woken, At
<1>2. /\ TypeOK /\ op[t] \in OpType /\ mtx_flush # t /\ op[t].release
      /\ op[t].goal \in LsnType /\ op[t].lsn \in LsnType /\ op[t].for \notin {"none", "undo"}
      /\ ~(op[t].for \in {"commit", "update"} /\ op[t].lsn = ZeroLsn)
      /\ Shape(t) /\ Goal(t)
    BY <1>1, LogTypes, OpIs, Standing DEF Shape, Turns, At, Asks
<1>3. /\ commits \in List(Task) /\ t \notin ToSet(commits)
    BY <1>1 DEF LogInv, LogWaits, Listed
<1>4. CASE /\ op[t].woken = "flush"
           /\ in_flush' = in_flush - 1
           /\ Sets(t, [op[t] EXCEPT !.at = "mtx", !.goal = t_lsn, !.woken = "no"])
    <2>. DEFINE r == [op[t] EXCEPT !.at = "mtx", !.goal = t_lsn, !.woken = "no"]
    <2>1. /\ r \in OpType /\ r.at = "mtx" /\ r.for = op[t].for
          /\ r.lsn = op[t].lsn /\ r.goal = t_lsn /\ r.release = op[t].release
          /\ r.woken = "no"
        BY <1>2, Standing DEF OpType, Places
    <2>2. Sets(t, r)
        BY <1>4
    <2>. HIDE DEF r
    <2>3. op' \in [Task -> OpType] /\ op'[t] = r /\ \A w \in Task \ {t} : op'[w] = op[w]
        BY <1>2, <2>1, <2>2, SetsIs
    <2>4. /\ Shape(t)' /\ Holds(t)' /\ ~At(t, "sync")' /\ ~At(t, "wait")' /\ ~Turns(t)'
          /\ Commits(t)' <=> Commits(t)
        BY <1>1, <1>2, <2>1, <2>3 DEF Shape, Holds, At, Asks, Commits, Turns
    <2>5. /\ Flushing' = Flushing \ {t} /\ t \in Flushing
        BY <1>1, <1>4, <2>1, <2>3 DEF Flushing
    <2>6. /\ IsFiniteSet(Flushing') /\ in_flush' = Cardinality(Flushing') /\ in_flush' \in Nat
        <3>1. IsFiniteSet(Flushing \ {t}) /\ Cardinality(Flushing \ {t}) = Cardinality(Flushing) - 1
            BY <2>5, CountedFlush, FS_RemoveElement
        <3>2. Cardinality(Flushing \ {t}) \in Nat
            BY <3>1, FS_CardinalityType
        <3>. QED
            BY <1>4, <2>5, <3>1, <3>2, CountedFlush
    <2>7. TypeOK'
        BY <1>1, <1>2, <2>3, <2>6 DEF TypeOK, OpType, bufVars
    <2>8. LogWell'
        BY <1>1, <1>2, <2>3, <2>4, <2>7, Standing, LogAssumption, LocksFollow DEF LogWell, At
    <2>9. Goal(t)' /\ Turning(t)'
        <3>1. Commits(t) => ~Before(t_lsn, op[t].lsn)
            <4>1. Commits(t) => ~Before(t_lsn, op[t].goal) /\ ~Before(op[t].goal, op[t].lsn)
                BY <1>1, <1>2 DEF Goal, At
            <4>. QED
                BY <1>2, <4>1, Standing, BeforeIs
        <3>. QED
            BY <1>1, <1>2, <2>1, <2>3, <2>4, <3>1, Standing
            DEF Goal, Turning, At, Asks, Commits, Record, bufVars
    <2>10. LogPlaced'
        BY <1>1, <2>1, <2>3, <2>4, <2>9, Standing, PlacedFollows DEF bufVars, At
    <2>11. LogKept'
        BY <1>1, <2>1, <2>3, <2>4, KeptFollows DEF bufVars
    <2>12. Listed'
        <3>1. \A u \in Task : u # t => (At(u, "wait")' <=> At(u, "wait"))
            BY <2>3 DEF At
        <3>. QED
            BY <1>1, <1>3, <2>3, <2>4, <3>1 DEF LogInv, LogWaits, Listed
    <2>13. WaitersHaveFlush'
        BY <2>1, <2>3, <2>12 DEF WaitersHaveFlush, Listed, At
    <2>14. LogWaits'
        BY <2>6, <2>12, <2>13 DEF LogWaits, InFlushExact
    <2>. QED
        BY <2>8, <2>10, <2>11, <2>14 DEF LogInv
<1>5. CASE /\ op[t].woken = "done"
           /\ Sets(t, [op[t] EXCEPT !.at = "flushed", !.ok = TRUE, !.woken = "no"])
           /\ UNCHANGED in_flush
    <2>. DEFINE r == [op[t] EXCEPT !.at = "flushed", !.ok = TRUE, !.woken = "no"]
    <2>1. /\ r \in OpType /\ r.at = "flushed" /\ r.for = op[t].for
          /\ r.lsn = op[t].lsn /\ r.goal = op[t].goal /\ r.release = op[t].release
          /\ r.woken = "no"
        BY <1>2 DEF OpType, Places
    <2>2. Sets(t, r)
        BY <1>5
    <2>. HIDE DEF r
    <2>3. op' \in [Task -> OpType] /\ op'[t] = r /\ \A w \in Task \ {t} : op'[w] = op[w]
        BY <1>2, <2>1, <2>2, SetsIs
    <2>4. /\ Shape(t)' /\ Holds(t)' /\ ~At(t, "sync")' /\ ~At(t, "wait")' /\ ~Turns(t)'
          /\ Commits(t)' <=> Commits(t)
        BY <1>1, <1>2, <2>1, <2>3 DEF Shape, Holds, At, Asks, Commits, Turns
    <2>5. Flushing' = Flushing
        BY <1>1, <1>5, <2>1, <2>3 DEF Flushing
    <2>6. TypeOK'
        BY <1>1, <1>2, <1>5, <2>3 DEF TypeOK, OpType, bufVars
    <2>7. LogWell'
        BY <1>1, <1>2, <2>3, <2>4, <2>6, Standing, LogAssumption, LocksFollow DEF LogWell, At
    <2>8. Goal(t)' /\ Turning(t)'
        BY <1>1, <1>2, <1>5, <2>1, <2>3, <2>4
        DEF Goal, Turning, At, Asks, Commits, Record, Flushed, bufVars
    <2>9. LogPlaced'
        BY <1>1, <2>1, <2>3, <2>4, <2>8, Standing, PlacedFollows DEF bufVars, At
    <2>10. LogKept'
        BY <1>1, <2>1, <2>3, <2>4, KeptFollows DEF bufVars
    <2>11. Listed'
        <3>1. \A u \in Task : u # t => (At(u, "wait")' <=> At(u, "wait"))
            BY <2>3 DEF At
        <3>. QED
            BY <1>1, <1>3, <2>3, <2>4, <3>1 DEF LogInv, LogWaits, Listed
    <2>12. WaitersHaveFlush'
        <3>1. \A u \in Task : At(u, "mtx") => At(u, "mtx")'
            BY <1>1, <2>3 DEF At
        <3>. QED
            BY <1>1, <2>5, <2>11, <3>1 DEF LogInv, LogWaits, WaitersHaveFlush, Listed
    <2>13. LogWaits'
        BY <1>5, <2>5, <2>11, <2>12, CountedFlush DEF LogWaits, InFlushExact
    <2>. QED
        BY <2>7, <2>9, <2>10, <2>13 DEF LogInv
<1>. QED
    BY <1>4, <1>5 DEF Woken

-----------------------------------------------------------------------------
(***************************************************************************)
(* Waking those who wait                                                   *)
(***************************************************************************)
\* Who is woken, and who waits on: t has flushed, or found that it need not.
LEMMA DoneIs ==
    ASSUME LogInv, NEW t \in Task, NEW ok \in BOOLEAN, NEW n, Done(t, ok, n),
           op[t].at \in {"mtx", "synced"}, n = Cardinality(Flushing \ {t})
    PROVE  /\ op' \in [Task -> OpType]
           /\ op'[t] = [op[t] EXCEPT !.at = "flushed", !.ok = ok]
           /\ \A u \in Task \ {t} :
                 /\ op'[u].at = op[u].at /\ op'[u].for = op[u].for
                 /\ op'[u].lsn = op[u].lsn /\ op'[u].goal = op[u].goal
                 /\ op'[u].release = op[u].release /\ op'[u].snap = op[u].snap
                 /\ op'[u].ok = op[u].ok
                 /\ op'[u].woken # "no" => op[u].at = "wait"
                 /\ op'[u].woken = "done" => Flushed(op[u].goal)
           /\ t_lsn' = t_lsn
           /\ commits' \in List(Task) /\ in_flush' \in Nat
           /\ LogWaits'
<1>. DEFINE rest == NotSynced(commits)
            wakes(u) == IF rest # <<>> /\ u = Head(rest) THEN "flush"
                        ELSE IF u \in ToSet(commits) /\ Flushed(op[u].goal) THEN "done"
                        ELSE op[u].woken
<1>1. /\ commits'  = IF rest = <<>> THEN <<>> ELSE Tail(rest)
      /\ in_flush' = IF rest = <<>> THEN n ELSE n + 1
      /\ op' = [u \in Task |-> IF u = t THEN [op[t] EXCEPT !.at = "flushed", !.ok = ok]
                                        ELSE [op[u] EXCEPT !.woken = wakes(u)]]
      /\ t_lsn' = t_lsn
    BY DEF Done
<1>2. /\ commits \in List(Task)
      /\ \A u \in Task : u \in ToSet(commits) <=> op[u].at = "wait" /\ op[u].woken = "no"
    BY DEF LogInv, LogWaits, Listed, At
<1>3. /\ rest \in List(Task) /\ ToSet(rest) \in SUBSET Task
      /\ \A u : u \in ToSet(rest) <=> u \in ToSet(commits) /\ ~Flushed(op[u].goal)
      /\ rest = <<>> <=> ToSet(rest) = {}
      /\ rest # <<>> => Head(rest) \in ToSet(rest) /\ Head(rest) \in Task
    <2>1. rest \in List(Task) /\ ToSet(rest) = {u \in ToSet(commits) : ~Flushed(op[u].goal)}
        BY <1>2, NotSyncedIs
    <2>. HIDE DEF rest
    <2>. QED
        BY <2>1, ListIs
<1>4. \A u \in Task : /\ op[u] \in OpType
                      /\ op[u].woken \in {"no", "done", "flush"}
                      /\ op[u].woken # "no" => op[u].at = "wait"
                      /\ op[u].woken = "done" => Flushed(op[u].goal)
    BY LogTypes, OpIs, Standing DEF Shape, At, Goal
<1>. HIDE DEF rest
<1>5. \A u \in Task : wakes(u) \in {"no", "done", "flush"}
    BY <1>4
<1>6. \A u \in Task : /\ wakes(u) # "no" => op[u].at = "wait"
                      /\ wakes(u) = "done" => Flushed(op[u].goal)
                      /\ wakes(u) = "flush" <=> op[u].woken = "flush" \/ (rest # <<>> /\ u = Head(rest))
                      /\ op[u].at = "wait" /\ wakes(u) = "no"
                             <=> u \in ToSet(rest) /\ ~(rest # <<>> /\ u = Head(rest))
    BY <1>2, <1>3, <1>4
<1>. HIDE DEF wakes
<1>7. /\ op' \in [Task -> OpType]
      /\ op'[t] = [op[t] EXCEPT !.at = "flushed", !.ok = ok]
      /\ op'[t].at = "flushed"
    <2>1. \A u \in Task : [op[u] EXCEPT !.woken = wakes(u)] \in OpType
        BY <1>4, <1>5 DEF OpType
    <2>2. /\ [op[t] EXCEPT !.at = "flushed", !.ok = ok] \in OpType
          /\ [op[t] EXCEPT !.at = "flushed", !.ok = ok].at = "flushed"
        BY <1>4 DEF OpType, Places
    <2>. QED
        BY <1>1, <2>1, <2>2
<1>8. ASSUME NEW u \in Task \ {t}
      PROVE  /\ op'[u].at = op[u].at /\ op'[u].for = op[u].for
             /\ op'[u].lsn = op[u].lsn /\ op'[u].goal = op[u].goal
             /\ op'[u].release = op[u].release /\ op'[u].snap = op[u].snap
             /\ op'[u].ok = op[u].ok /\ op'[u].woken = wakes(u)
    <2>1. op'[u] = [op[u] EXCEPT !.woken = wakes(u)] /\ op[u] \in OpType
        BY <1>1, <1>4
    <2>. QED
        BY <2>1 DEF OpType
<1>9. IsFiniteSet(Flushing \ {t}) /\ n \in Nat
    <2>1. IsFiniteSet(Flushing)
        BY CountedFlush
    <2>2. IsFiniteSet(Flushing \ {t})
        BY <2>1, FS_Subset, Zenon
    <2>. QED
        BY <2>2, FS_CardinalityType
<1>10. CASE rest = <<>>
    <2>1. commits' = <<>> /\ in_flush' = n
        BY <1>1, <1>10
    <2>2. Flushing' = Flushing \ {t}
        <3>1. \A u \in Task : u \in Flushing' <=> u \in Flushing /\ u # t
            <4>. SUFFICES ASSUME NEW u \in Task
                          PROVE  u \in Flushing' <=> u \in Flushing /\ u # t
                OBVIOUS
            <4>1. CASE u = t
                BY <1>7, <4>1 DEF Flushing
            <4>2. CASE u # t
                BY <1>6, <1>8, <1>10, <4>2 DEF Flushing
            <4>. QED
                BY <4>1, <4>2
        <3>2. Flushing' \subseteq Task /\ Flushing \subseteq Task
            BY DEF Flushing
        <3>. QED
            BY <3>1, <3>2
    <2>3. commits' \in List(Task) /\ ToSet(commits') = {}
        BY <2>1, EmptyList
    <2>4. \A u \in Task : ~(op'[u].at = "wait" /\ op'[u].woken = "no")
        <3>. SUFFICES ASSUME NEW u \in Task
                      PROVE  ~(op'[u].at = "wait" /\ op'[u].woken = "no")
            OBVIOUS
        <3>1. CASE u = t
            BY <1>7, <3>1
        <3>2. CASE u # t
            BY <1>3, <1>6, <1>8, <1>10, <3>2
        <3>. QED
            BY <3>1, <3>2
    <2>5. LogWaits'
        BY <1>9, <2>1, <2>2, <2>3, <2>4
        DEF LogWaits, Listed, InFlushExact, WaitersHaveFlush, At
    <2>. QED
        BY <1>1, <1>6, <1>7, <1>8, <1>9, <2>1, <2>3, <2>5
<1>11. CASE rest # <<>>
    <2>. DEFINE h == Head(rest)
    <2>1. commits' = Tail(rest) /\ in_flush' = n + 1
        BY <1>1, <1>11
    <2>2. h \in Task \ {t} /\ op[h].at = "wait" /\ op[h].woken = "no"
        BY <1>2, <1>3, <1>11
    <2>3. Flushing' = (Flushing \ {t}) \cup {h} /\ h \notin Flushing \ {t}
        <3>1. \A u \in Task : u \in Flushing' <=> (u \in Flushing /\ u # t) \/ u = h
            <4>. SUFFICES ASSUME NEW u \in Task
                          PROVE  u \in Flushing' <=> (u \in Flushing /\ u # t) \/ u = h
                OBVIOUS
            <4>1. CASE u = t
                BY <1>7, <2>2, <4>1 DEF Flushing
            <4>2. CASE u # t
                BY <1>6, <1>8, <1>11, <2>2, <4>2 DEF Flushing
            <4>. QED
                BY <4>1, <4>2
        <3>2. h \notin Flushing
            BY <2>2 DEF Flushing
        <3>. HIDE DEF h
        <3>. QED
            BY <2>2, <3>1, <3>2 DEF Flushing
    <2>4. commits' \in List(Task) /\ ToSet(commits') = ToSet(rest) \ {h}
        BY <1>3, <1>11, <2>1, ListTail
    <2>5. \A u \in Task : u \in ToSet(commits') <=> op'[u].at = "wait" /\ op'[u].woken = "no"
        <3>1. ~(op'[t].at = "wait") /\ t \notin ToSet(commits')
            BY <1>2, <1>3, <1>7, <2>4
        <3>. QED
            BY <1>6, <1>8, <1>11, <2>4, <3>1
    <2>. HIDE DEF h
    <2>6. /\ IsFiniteSet(Flushing') /\ Cardinality(Flushing') = n + 1
          /\ Flushing' # {}
        <3>1. /\ IsFiniteSet((Flushing \ {t}) \cup {h})
              /\ Cardinality((Flushing \ {t}) \cup {h}) = Cardinality(Flushing \ {t}) + 1
            BY <1>9, <2>3, FS_AddElement
        <3>. QED
            BY <2>3, <3>1
    <2>7. LogWaits'
        BY <2>1, <2>4, <2>5, <2>6 DEF LogWaits, Listed, InFlushExact, WaitersHaveFlush, At
    <2>. QED
        BY <1>1, <1>6, <1>7, <1>8, <1>9, <2>1, <2>4, <2>7
<1>. QED
    BY <1>10, <1>11

\* The invariant after it, with the region held.
LEMMA DoneStep ==
    ASSUME LogInv, NEW t \in Task, NEW ok \in BOOLEAN, NEW n, Done(t, ok, n),
           op[t].at \in {"mtx", "synced"}, n = Cardinality(Flushing \ {t}),
           ok => Flushed(op[t].goal),
           Turns(t) => /\ ok => bufp = <<>>
                       /\ \A u \in Task \ {t} : ~At(u, "sync"),
           region' = t, region \in {t, NoTask},
           UNCHANGED <<lsn, bufp, f_lsn, w_off, disk, s_lsn, mtx_flush, told>>,
           file' \in [Files -> [Offsets -> UnitType]], faults' \in 0 .. MaxFaults,
           \A f \in Files, o \in Offsets :
               f # lsn.file \/ o < w_off => file'[f][o] = file[f][o]
    PROVE  LogInv'
<1>. DEFINE r == [op[t] EXCEPT !.at = "flushed", !.ok = ok]
<1>1. /\ op' \in [Task -> OpType] /\ op'[t] = r
      /\ \A u \in Task \ {t} :
            /\ op'[u].at = op[u].at /\ op'[u].for = op[u].for
            /\ op'[u].lsn = op[u].lsn /\ op'[u].goal = op[u].goal
            /\ op'[u].release = op[u].release /\ op'[u].snap = op[u].snap
            /\ op'[u].ok = op[u].ok
            /\ op'[u].woken # "no" => op[u].at = "wait"
            /\ op'[u].woken = "done" => Flushed(op[u].goal)
      /\ t_lsn' = t_lsn
      /\ commits' \in List(Task) /\ in_flush' \in Nat
      /\ LogWaits'
    BY DoneIs
<1>2. /\ TypeOK /\ op[t] \in OpType /\ op[t].woken = "no" /\ mtx_flush # t
      /\ Shape(t) /\ Goal(t) /\ Turning(t)
    BY LogTypes, OpIs, Standing DEF Shape, At
<1>3. /\ r.at = "flushed" /\ r.for = op[t].for /\ r.lsn = op[t].lsn /\ r.goal = op[t].goal
      /\ r.release = op[t].release /\ r.woken = "no" /\ r.ok = ok
    BY <1>2 DEF OpType
<1>. HIDE DEF r
<1>4. TypeOK'
    BY <1>1, <1>2 DEF TypeOK, OpType, List
<1>5. ASSUME NEW u \in Task, u # t
      PROVE  /\ Shape(u)' /\ (Holds(u)' <=> Holds(u))
             /\ Goal(u)' /\ Turning(u)'
             /\ (region = u <=> Holds(u)) /\ (At(u, "sync") <=> mtx_flush = u)
    <2>1. /\ Shape(u) /\ Goal(u) /\ Turning(u)
          /\ (region = u <=> Holds(u)) /\ (At(u, "sync") <=> mtx_flush = u)
        BY Standing DEF At
    <2>2. /\ op'[u].at = op[u].at /\ op'[u].for = op[u].for
          /\ op'[u].lsn = op[u].lsn /\ op'[u].goal = op[u].goal
          /\ op'[u].release = op[u].release /\ op'[u].snap = op[u].snap
          /\ op'[u].ok = op[u].ok
          /\ op'[u].woken # "no" => op[u].at = "wait"
          /\ op'[u].woken = "done" => Flushed(op[u].goal)
        BY <1>1, <1>5
    <2>3. Shape(u)'
        <3>1. At(u, "out") => op'[u] = op[u]
            <4>1. At(u, "out") => op'[u].woken = op[u].woken
                BY <2>1, <2>2 DEF At, Shape
            <4>2. op[u] \in OpType /\ op'[u] \in OpType
                BY <1>1, <1>2, OpIs
            <4>. QED
                BY <2>2, <4>1, <4>2 DEF OpType
        <3>. QED
            BY <2>1, <2>2, <3>1 DEF Shape, At, Asks, Commits, Turns
    <2>4. Holds(u)' <=> Holds(u)
        BY <2>2 DEF Holds
    <2>5. Goal(u)'
        BY <1>1, <2>1, <2>2 DEF Goal, At, Asks, Commits, Record, Flushed
    <2>6. Turning(u)'
        <3>1. (\A v \in Task \ {u} : ~At(v, "sync")) => \A v \in Task \ {u} : ~At(v, "sync")'
            BY <1>1, <1>3 DEF At
        <3>. QED
            BY <2>1, <2>2, <3>1 DEF Turning, Turns, At, Asks, LastLsn
    <2>. QED
        BY <2>1, <2>3, <2>4, <2>5, <2>6
<1>6. Shape(t)' /\ Goal(t)' /\ Turning(t)' /\ Holds(t)' /\ ~At(t, "sync")'
    <2>1. Turns(t)' <=> Turns(t)
        BY <1>1, <1>3 DEF Turns, Asks, At
    <2>2. Shape(t)' /\ Holds(t)' /\ ~At(t, "sync")'
        BY <1>1, <1>2, <1>3, <2>1 DEF Shape, Holds, At, Asks, Commits
    <2>3. Goal(t)'
        BY <1>1, <1>2, <1>3 DEF Goal, At, Asks, Commits, Record, Flushed
    <2>4. Turning(t)'
        <3>1. Turns(t) => \A v \in Task \ {t} : ~At(v, "sync")'
            BY <1>1 DEF At
        <3>. QED
            BY <1>1, <1>2, <1>3, <2>1, <3>1 DEF Turning, At, LastLsn
    <2>. QED
        BY <2>2, <2>3, <2>4
<1>7. LogWell'
    <2>1. \A u \in Task : At(u, "sync")' <=> mtx_flush = u
        BY <1>1, <1>2, <1>5, <1>6 DEF At
    <2>2. \A u \in Task : region' = u <=> Holds(u)'
        BY <1>5, <1>6, LogAssumption
    <2>. QED
        BY <1>4, <1>5, <1>6, <2>1, <2>2 DEF LogWell, Locks
<1>8. LogPlaced'
    <2>1. Positions'
        <3>1. lsn.offset = 0 => \E u \in Task : At(u, "newfile")'
            <4>1. lsn.offset = 0 => \E u \in Task : op[u].at = "newfile"
                BY DEF LogInv, LogPlaced, Positions, At
            <4>. QED
                BY <1>1, <4>1 DEF At
        <3>. QED
            BY <3>1 DEF LogInv, LogPlaced, Positions
    <2>2. SyncPoint' /\ Before(t_lsn, lsn)'
        BY <1>1 DEF LogInv, LogPlaced, SyncPoint
    <2>3. Apart'
        <3>1. \A u \in Task : op'[u].lsn = op[u].lsn
            BY <1>1, <1>3
        <3>. QED
            BY <3>1 DEF LogInv, LogPlaced, Apart
    <2>. QED
        BY <1>5, <1>6, <2>1, <2>2, <2>3 DEF LogPlaced
<1>9. LogKept'
    <2>1. \A w \in Task : Commits(w)' => Commits(w) /\ op'[w].lsn = op[w].lsn
        BY <1>1, <1>3 DEF Commits
    <2>. QED
        BY <2>1, OldFileKept
<1>. QED
    BY <1>1, <1>7, <1>8, <1>9 DEF LogInv

LEMMA RelockStep ==
    ASSUME LogInv, NEW t \in Task, Relock(t)
    PROVE  LogInv'
<1>1. /\ op[t].at = "synced" /\ region = (IF op[t].release THEN NoTask ELSE t) /\ region' = t
      /\ Done(t, op[t].ok, in_flush - 1)
      /\ UNCHANGED <<bufVars, disk, s_lsn, mtx_flush, told, faults>>
    BY DEF Relock, At
<1>2. /\ TypeOK /\ op[t].ok \in BOOLEAN /\ Goal(t) /\ Turning(t)
    BY LogTypes, OpIs, Standing
<1>3. in_flush - 1 = Cardinality(Flushing \ {t})
    <2>1. t \in Flushing
        BY <1>1 DEF Flushing
    <2>. QED
        BY <2>1, CountedFlush, FS_RemoveElement
<1>4. op[t].ok => Flushed(op[t].goal)
    BY <1>1, <1>2 DEF Goal
<1>5. Turns(t) => bufp = <<>> /\ \A u \in Task \ {t} : ~At(u, "sync")
    BY <1>1, <1>2 DEF Turning, At
<1>6. file' = file /\ faults' \in 0 .. MaxFaults /\ file' \in [Files -> [Offsets -> UnitType]]
    BY <1>1, <1>2, LogTypes DEF TypeOK, bufVars
<1>. QED
    BY <1>1, <1>2, <1>3, <1>4, <1>5, <1>6, DoneStep DEF bufVars

-----------------------------------------------------------------------------
(***************************************************************************)
(* Flushing                                                                *)
(***************************************************************************)
\* Writing the buffer moves units of the log from it to the file.
LEMMA UnitsKept ==
    ASSUME LogInv, UNCHANGED <<lsn, disk, s_lsn>>, TypeOK', Positions',
           \A f \in Files, o \in Offsets :
               /\ f # lsn.file \/ o < w_off => file'[f][o] = file[f][o]
               /\ Before(Lsn(f, o), lsn) => UnitAt(f, o)' = UnitAt(f, o),
           \A w \in Task : Commits(w)' => Commits(w) /\ op'[w].lsn = op[w].lsn
    PROVE  LogKept'
<1>1. LogIntact'
    BY IntactIs, IntactNext
<1>2. DiskIsFile'
    <2>1. ASSUME NEW f \in Files, NEW o \in Offsets, Before(Lsn(f, o), s_lsn)
          PROVE  disk[f][o] = file'[f][o]
        <3>1. f # lsn.file \/ o < w_off
            BY <2>1, SyncedWritten
        <3>2. disk[f][o] = file[f][o]
            BY <2>1 DEF LogInv, LogKept, DiskIsFile
        <3>. QED
            BY <3>1, <3>2
    <2>. QED
        BY <2>1 DEF DiskIsFile
<1>3. CommitsWhole'
    <2>1. ASSUME NEW w \in Task, Commits(w)'
          PROVE  (UnitAt(op[w].lsn.file, op[w].lsn.offset + 1) = Unit(op[w].lsn, "commit"))'
        <3>. DEFINE l == op[w].lsn
        <3>1. op'[w].lsn = l /\ Commits(w) /\ l \in LsnType /\ Record(l)
            BY <2>1, LogTypes, OpIs, Standing DEF Commits, Goal
        <3>2. /\ l.file \in Files /\ l.offset + 1 \in Offsets /\ l.file \in Nat
              /\ l.offset \in Nat
              /\ l.file < lsn.file \/ (l.file = lsn.file /\ l.offset + 2 <= lsn.offset)
            BY <3>1, RecordIs
        <3>3. Before(Lsn(l.file, l.offset + 1), lsn)
            <4>1. lsn \in LsnType /\ lsn.offset \in Int
                BY LogTypes
            <4>2. /\ l.offset + 1 \in Int
                  /\ l.file < lsn.file \/ (l.file = lsn.file /\ l.offset + 1 < lsn.offset)
                <5>. HIDE DEF l
                <5>. QED
                    BY <3>2, <4>1
            <4>. QED
                BY <3>2, <4>1, <4>2, BeforeLsn
        <3>4. UnitAt(l.file, l.offset + 1) = Unit(l, "commit")
            BY <3>1 DEF LogInv, LogKept, CommitsWhole
        <3>5. PICK f \in Files, o \in Offsets : f = l.file /\ o = l.offset + 1
            BY <3>2
        <3>6. UnitAt(f, o)' = UnitAt(f, o)
            BY <3>3, <3>5
        <3>. QED
            BY <3>1, <3>4, <3>5, <3>6
    <2>. QED
        BY <2>1 DEF CommitsWhole
<1>. QED
    BY <1>1, <1>2, <1>3 DEF LogKept

\* The region let go, or kept, for an fsync up to snap.
LEMMA SyncsStep ==
    ASSUME LogInv, NEW t \in Task, op[t].at = "mtx", mtx_flush = NoTask,
           NEW snap \in LsnType,
           snap.file = lsn.file, snap.offset \in 0 .. w_off', snap.offset % RecLen = 0,
           ~Before(snap, s_lsn), Before(op[t].goal, snap),
           in_flush' = in_flush + 1, mtx_flush' = t,
           region' = IF op[t].release THEN NoTask ELSE region,
           Sets(t, [op[t] EXCEPT !.at = "sync", !.snap = snap]),
           UNCHANGED <<lsn, f_lsn, disk, s_lsn, t_lsn, commits, told, faults>>,
           bufp' \in Seq(UnitType), Len(bufp') < BufSize, w_off' \in Nat, w_off <= w_off',
           file' \in [Files -> [Offsets -> UnitType]],
           lsn.offset = w_off' + Len(bufp'), bufp' # <<>> => bufp' = bufp /\ w_off' = w_off,
           Turns(t) => bufp' = <<>>,
           \A f \in Files, o \in Offsets :
               /\ f # lsn.file \/ o < w_off => file'[f][o] = file[f][o]
               /\ Before(Lsn(f, o), lsn) => UnitAt(f, o)' = UnitAt(f, o)
    PROVE  LogInv'
<1>. DEFINE r == [op[t] EXCEPT !.at = "sync", !.snap = snap]
<1>1. /\ TypeOK /\ op[t] \in OpType /\ op[t].woken = "no" /\ region = t
      /\ Shape(t) /\ Goal(t) /\ Turning(t)
    BY LogTypes, OpIs, Standing DEF Shape, At, Holds
<1>2. /\ r \in OpType /\ r.at = "sync" /\ r.for = op[t].for /\ r.lsn = op[t].lsn
      /\ r.goal = op[t].goal /\ r.release = op[t].release /\ r.woken = "no" /\ r.snap = snap
    BY <1>1 DEF OpType, Places
<1>. HIDE DEF r
<1>3. op' \in [Task -> OpType] /\ op'[t] = r /\ \A w \in Task \ {t} : op'[w] = op[w]
    BY <1>1, <1>2, SetsIs DEF r
<1>4. /\ Shape(t)' /\ (Holds(t)' <=> ~op[t].release) /\ At(t, "sync")' /\ ~At(t, "wait")'
      /\ Commits(t)' <=> Commits(t)
      /\ Turns(t)' <=> Turns(t)
    BY <1>1, <1>2, <1>3 DEF Shape, Holds, At, Asks, Commits, Turns
<1>5. in_flush' \in Nat
    BY CountedFlush
<1>6. TypeOK'
    BY <1>1, <1>3, <1>5, LogAssumption DEF TypeOK, OpType
<1>7. LogWell'
    BY <1>1, <1>3, <1>4, <1>6, Standing, LogAssumption, LocksFollow DEF LogWell
<1>8. \A u \in Task : ~At(u, "sync")
    BY LogAssumption, Standing DEF At
<1>9. Goal(t)' /\ Turning(t)'
    <2>1. Goal(t)'
        BY <1>1, <1>2, <1>3, <1>4 DEF Goal, At, Asks, Commits, Record
    <2>2. Turning(t)'
        <3>1. \A u \in Task \ {t} : ~At(u, "sync")'
            BY <1>3, <1>8 DEF At
        <3>. QED
            BY <1>1, <1>2, <1>3, <1>4, <3>1 DEF Turning, At, LastLsn
    <2>. QED
        BY <2>1, <2>2
<1>10. Positions'
    <2>1. \A u \in Task : ~At(u, "newfile")
        BY <1>1, Standing DEF At, Holds
    <2>2. lsn.offset # 0
        BY <2>1 DEF LogInv, LogPlaced, Positions
    <2>. QED
        BY <2>2 DEF LogInv, LogPlaced, Positions
<1>11. LogPlaced'
    <2>1. SyncPoint' /\ Before(t_lsn, lsn)'
        BY LogTypes DEF LogInv, LogPlaced, SyncPoint
    <2>2. Apart'
        BY <1>2, <1>3 DEF LogInv, LogPlaced, Apart
    <2>3. ASSUME NEW u \in Task, u # t
          PROVE  Goal(u)' /\ Turning(u)'
        <3>1. op'[u] = op[u] /\ Goal(u) /\ ~Turns(u) /\ op[u].at # "sync"
            BY <1>1, <1>3, <1>8, <2>3, Standing, TurnsHolds DEF At
        <3>2. Goal(u)'
            BY <3>1 DEF Goal, At, Asks, Commits, Record, Flushed
        <3>3. Turning(u)'
            BY <3>1 DEF Turning, Turns, At, Asks
        <3>. QED
            BY <3>2, <3>3
    <2>. QED
        BY <1>9, <1>10, <2>1, <2>2, <2>3 DEF LogPlaced
<1>12. LogKept'
    <2>1. \A w \in Task : Commits(w)' => Commits(w) /\ op'[w].lsn = op[w].lsn
        BY <1>2, <1>3, <1>4 DEF Commits
    <2>. QED
        BY <1>6, <1>10, <2>1, UnitsKept
<1>13. LogWaits'
    <2>1. Flushing' = Flushing \cup {t} /\ t \notin Flushing
        BY <1>2, <1>3 DEF Flushing
    <2>2. /\ IsFiniteSet(Flushing') /\ in_flush' = Cardinality(Flushing') /\ Flushing' # {}
        BY <2>1, CountedFlush, FS_AddElement
    <2>3. Listed'
        <3>1. \A u \in Task : At(u, "wait")' /\ op'[u].woken = "no"
                                  <=> At(u, "wait") /\ op[u].woken = "no"
            BY <1>2, <1>3 DEF At
        <3>. QED
            BY <3>1 DEF LogInv, LogWaits, Listed
    <2>4. WaitersHaveFlush'
        BY <2>2, <2>3 DEF WaitersHaveFlush, Listed
    <2>. QED
        BY <2>2, <2>3, <2>4 DEF LogWaits, InFlushExact
<1>. QED
    BY <1>7, <1>11, <1>12, <1>13 DEF LogInv

LEMMA EvenPart ==
    ASSUME NEW b \in Nat
    PROVE  b - (b % 2) \in Nat /\ b - (b % 2) \in 0 .. b /\ (b - (b % 2)) % 2 = 0
OBVIOUS

LEMMA EvenBelow ==
    ASSUME NEW a \in Nat, NEW b \in Nat, a % 2 = 0, a <= b
    PROVE  a <= b - (b % 2)
OBVIOUS

\* When the last record of a full file is synced, all of the file is.
LEMMA FullSynced ==
    ASSUME LogInv, lsn.offset = LogSize, Flushed(LastLsn)
    PROVE  bufp = <<>> /\ s_lsn = lsn
<1>1. /\ s_lsn.file <= lsn.file
      /\ s_lsn.file = lsn.file => s_lsn.offset <= w_off
      /\ lsn \in LsnType /\ s_lsn \in LsnType
    BY LogTypes DEF LogInv, LogPlaced, SyncPoint
<1>2. s_lsn.file = lsn.file /\ s_lsn.offset > LogSize - 2
    <2>1. lsn.file \in Nat /\ LogSize - 2 \in Int /\ s_lsn.file \in Nat
        BY LogTypes
    <2>2. Before(Lsn(lsn.file, LogSize - 2), s_lsn)
        BY DEF Flushed, LastLsn, RecLen
    <2>3. lsn.file < s_lsn.file \/ (lsn.file = s_lsn.file /\ LogSize - 2 < s_lsn.offset)
        BY <1>1, <2>1, <2>2, BeforeLsn
    <2>4. s_lsn.file <= lsn.file /\ s_lsn.offset \in Int /\ LogSize \in Int
        BY <1>1, LogTypes
    <2>. QED
        BY <2>1, <2>3, <2>4
<1>3. s_lsn.offset = LogSize
    <2>1. /\ s_lsn.offset \in Nat /\ LogSize \in Nat
          /\ s_lsn.offset > LogSize - 2 /\ s_lsn.offset <= LogSize
        BY <1>2, LogTypes
    <2>. QED
        BY <2>1, EvenOffsets, EvenNext
<1>4. Len(bufp) = 0
    BY <1>1, <1>2, <1>3, LogTypes
<1>. QED
    BY <1>1, <1>2, <1>3, <1>4, LogTypes, LsnHas, EmptySeq

\* The flush itself: the record is past by now; or the buffer is written, or
\* that fails; or the record was written earlier.
LEMMA FlushWriteStep ==
    ASSUME LogInv, NEW t \in Task, FlushWrite(t)
    PROVE  LogInv'
<1>. DEFINE inBuffer == bufp # <<>> /\ ~Before(op[t].goal, f_lsn)
            Snap(empty, off) == IF empty THEN Lsn(f_lsn.file, off) ELSE f_lsn
            Syncs(snap) == /\ in_flush' = in_flush + 1
                           /\ mtx_flush' = t
                           /\ region' = IF op[t].release THEN NoTask ELSE region
                           /\ Sets(t, [op[t] EXCEPT !.at = "sync", !.snap = snap])
                           /\ UNCHANGED <<t_lsn, commits>>
<1>1. /\ op[t].at = "mtx" /\ mtx_flush = NoTask
      /\ UNCHANGED <<lsn, f_lsn, disk, s_lsn, told>>
    BY DEF FlushWrite, At
<1>2. /\ TypeOK /\ op[t] \in OpType /\ op[t].goal \in LsnType /\ region = t
      /\ Goal(t) /\ Turning(t) /\ Before(op[t].goal, lsn)
      /\ lsn \in LsnType /\ s_lsn \in LsnType
      /\ \A u \in Task : ~At(u, "sync")
    BY <1>1, LogTypes, OpIs, Standing, LogAssumption DEF Goal, At, Asks, Holds
<1>3. in_flush = Cardinality(Flushing \ {t})
    <2>1. Flushing \ {t} = Flushing
        BY <1>1 DEF Flushing
    <2>. QED
        BY <2>1, CountedFlush
<1>4. lsn.offset # 0 /\ f_lsn.file = lsn.file
    <2>1. \A u \in Task : ~At(u, "newfile")
        BY <1>1, <1>2, Standing DEF At, Holds
    <2>. QED
        BY <2>1 DEF LogInv, LogPlaced, Positions
<1>5. Turns(t) => lsn.offset = LogSize /\ op[t].goal = LastLsn
    BY <1>1, <1>2 DEF Turning, At
<1>6. ~Before(lsn, s_lsn)
    <2>1. s_lsn.file <= lsn.file /\ (s_lsn.file = lsn.file => s_lsn.offset <= w_off)
        BY DEF LogInv, LogPlaced, SyncPoint
    <2>. QED
        BY <2>1, LogTypes DEF Before
<1>7. CASE /\ Flushed(op[t].goal)
           /\ Done(t, TRUE, in_flush)
           /\ UNCHANGED <<bufp, file, w_off, region, mtx_flush, faults>>
    <2>1. Turns(t) => bufp = <<>>
        BY <1>5, <1>7, FullSynced
    <2>2. file' \in [Files -> [Offsets -> UnitType]] /\ faults' \in 0 .. MaxFaults
        BY <1>2, <1>7, LogTypes DEF TypeOK
    <2>. QED
        BY <1>1, <1>2, <1>3, <1>7, <2>1, <2>2, DoneStep
<1>8. CASE /\ ~Flushed(op[t].goal) /\ inBuffer
           /\ Write(bufp) /\ bufp' = <<>>
           /\ Syncs(Snap(TRUE, w_off'))
    <2>1. /\ file' = Overlay(bufp) /\ w_off' = w_off + Len(bufp) /\ faults' = faults
          /\ bufp' = <<>>
        BY <1>8 DEF Write
    <2>2. /\ file' \in [Files -> [Offsets -> UnitType]]
          /\ \A f \in Files, o \in Offsets :
                file'[f][o] = IF f = lsn.file /\ o \in w_off .. w_off + Len(bufp) - 1
                              THEN bufp[o - w_off + 1] ELSE file[f][o]
        BY <2>1, LogTypes, OverlayIs
    <2>3. w_off' = lsn.offset /\ w_off' \in Nat /\ w_off <= w_off'
        BY <2>1, LogTypes
    <2>4. Len(<<>>) = 0 /\ <<>> \in Seq(UnitType)
        BY EmptySeq
    <2>5. Snap(TRUE, w_off') = lsn
        BY <1>2, <1>4, <2>3, LsnHas
    <2>6. ASSUME NEW f \in Files, NEW o \in Offsets
          PROVE  /\ f # lsn.file \/ o < w_off => file'[f][o] = file[f][o]
                 /\ Before(Lsn(f, o), lsn) => UnitAt(f, o)' = UnitAt(f, o)
        <3>1. f \in Nat /\ o \in Nat /\ w_off \in Nat /\ lsn.file \in Nat
            BY LogTypes, OffsetIs
        <3>2. f # lsn.file \/ o < w_off => file'[f][o] = file[f][o]
            BY <2>2, <3>1
        <3>3. ASSUME Before(Lsn(f, o), lsn)
              PROVE  UnitAt(f, o)' = UnitAt(f, o)
            <4>1. f < lsn.file \/ (f = lsn.file /\ o < lsn.offset)
                BY <1>2, <3>1, <3>3, BeforeLsn
            <4>2. UnitAt(f, o)' = file'[f][o]
                BY <1>1, <2>3, <4>1 DEF UnitAt
            <4>3. CASE f < lsn.file \/ o < w_off
                BY <3>1, <3>2, <4>1, <4>2, <4>3 DEF UnitAt
            <4>4. CASE ~(f < lsn.file \/ o < w_off)
                <5>1. f = lsn.file /\ o \in w_off .. w_off + Len(bufp) - 1
                    BY <3>1, <4>1, <4>4, LogTypes
                <5>. QED
                    BY <2>2, <4>2, <4>4, <5>1 DEF UnitAt
            <4>. QED
                BY <4>3, <4>4
        <3>. QED
            BY <3>2, <3>3
    <2>7. /\ lsn.offset \in 0 .. w_off' /\ lsn.offset % RecLen = 0 /\ Len(bufp') < BufSize
          /\ lsn.offset = w_off' + Len(bufp')
        <3>1. Len(bufp') = 0
            BY <2>1, <2>4
        <3>2. lsn.offset % RecLen = 0
            BY EvenOffsets DEF RecLen
        <3>. QED
            BY <2>3, <3>1, <3>2, LogTypes
    <2>8. /\ in_flush' = in_flush + 1 /\ mtx_flush' = t
          /\ region' = IF op[t].release THEN NoTask ELSE region
          /\ Sets(t, [op[t] EXCEPT !.at = "sync", !.snap = lsn])
          /\ UNCHANGED <<t_lsn, commits>>
        BY <1>8, <2>5
    <2>. QED
        BY <1>1, <1>2, <1>6, <2>1, <2>2, <2>3, <2>4, <2>6, <2>7, <2>8, SyncsStep
<1>9. CASE /\ ~Flushed(op[t].goal) /\ inBuffer
           /\ WriteFails(bufp) /\ Done(t, FALSE, in_flush)
           /\ UNCHANGED <<bufp, region, mtx_flush>>
    <2>1. /\ file' \in [Files -> [Offsets -> UnitType]] /\ w_off' = w_off
          /\ faults' \in 0 .. MaxFaults
          /\ \A f \in Files, o \in Offsets :
                f # lsn.file \/ o < w_off => file'[f][o] = file[f][o]
        BY <1>9, LogTypes, WriteFailsIs
    <2>. QED
        BY <1>1, <1>2, <1>3, <1>9, <2>1, DoneStep
<1>10. CASE /\ ~Flushed(op[t].goal) /\ ~inBuffer
            /\ Syncs(Snap(bufp = <<>>, w_off))
            /\ UNCHANGED <<bufp, file, w_off, faults>>
    <2>. DEFINE snap == Snap(bufp = <<>>, w_off)
    <2>1. /\ snap \in LsnType /\ snap.file = lsn.file /\ snap.offset \in 0 .. w_off
          /\ snap.offset % RecLen = 0 /\ ~Before(snap, s_lsn) /\ Before(op[t].goal, snap)
          /\ Turns(t) => bufp = <<>>
        <3>1. CASE bufp = <<>>
            <4>1. w_off = lsn.offset
                BY <3>1, LogTypes, EmptySeq
            <4>2. snap = lsn
                BY <1>2, <1>4, <3>1, <4>1, LsnHas
            <4>. HIDE DEF snap
            <4>. QED
                BY <1>2, <1>6, <3>1, <4>1, <4>2, LogTypes, EvenOffsets DEF RecLen
        <3>2. CASE bufp # <<>>
            <4>1. snap = f_lsn /\ Before(op[t].goal, f_lsn)
                BY <1>10, <3>2
            <4>2. f_lsn = Lsn(lsn.file, w_off - (w_off % 2))
                BY <3>2 DEF LogInv, LogPlaced, Positions, RecLen
            <4>3. PICK o \in Nat : o = w_off - (w_off % 2)
                BY LogTypes, EvenPart
            <4>4. o \in 0 .. w_off /\ o % 2 = 0
                BY <4>3, LogTypes, EvenPart
            <4>5. f_lsn = Lsn(lsn.file, o) /\ f_lsn \in LsnType /\ f_lsn.file = lsn.file
                  /\ f_lsn.offset = o
                BY <4>2, <4>3, LogTypes, LsnIs
            <4>6. s_lsn.file = lsn.file => s_lsn.offset <= o
                <5>1. s_lsn.file = lsn.file => s_lsn.offset <= w_off
                    BY DEF LogInv, LogPlaced, SyncPoint
                <5>2. s_lsn.offset \in Nat /\ w_off \in Nat
                    BY LogTypes
                <5>. QED
                    BY <4>3, <5>1, <5>2, EvenOffsets, EvenBelow
            <4>7. ~Before(f_lsn, s_lsn)
                <5>1. s_lsn.file <= lsn.file
                    BY DEF LogInv, LogPlaced, SyncPoint
                <5>. QED
                    BY <4>5, <4>6, <5>1, LogTypes DEF Before
            <4>8. ~Turns(t)
                <5>. SUFFICES ASSUME Turns(t) PROVE FALSE
                    OBVIOUS
                <5>1. lsn.offset = LogSize /\ Before(LastLsn, f_lsn)
                    BY <1>5, <4>1
                <5>2. LogSize - 2 < o
                    BY <4>5, <5>1, LogTypes, BeforeLsn DEF LastLsn, RecLen
                <5>3. o < LogSize
                    <6>1. Len(bufp) # 0
                        BY <3>2, LogTypes, EmptySeq
                    <6>2. /\ w_off \in Nat /\ Len(bufp) \in Nat /\ LogSize = w_off + Len(bufp)
                          /\ o <= w_off
                        BY <4>4, <5>1, LogTypes
                    <6>. QED
                        BY <6>1, <6>2
                <5>4. o = LogSize
                    <6>1. LogSize \in Nat
                        BY LogTypes
                    <6>. QED
                        BY <4>4, <5>2, <5>3, <6>1, EvenOffsets, EvenNext
                <5>. QED
                    BY <5>3, <5>4, LogTypes
            <4>. HIDE DEF snap
            <4>. QED
                BY <4>1, <4>4, <4>5, <4>7, <4>8 DEF RecLen
        <3>. QED
            BY <3>1, <3>2
    <2>2. /\ in_flush' = in_flush + 1 /\ mtx_flush' = t
          /\ region' = IF op[t].release THEN NoTask ELSE region
          /\ Sets(t, [op[t] EXCEPT !.at = "sync", !.snap = snap])
          /\ UNCHANGED <<t_lsn, commits, bufp, file, w_off, faults>>
        BY <1>10
    <2>. HIDE DEF snap
    <2>3. \A f \in Files, o \in Offsets :
              /\ file'[f][o] = file[f][o]
              /\ UnitAt(f, o)' = UnitAt(f, o)
        BY <1>1, <2>2 DEF UnitAt
    <2>4. w_off' = w_off /\ bufp' = bufp /\ w_off <= w_off'
        BY <2>2, LogTypes
    <2>. QED
        BY <1>1, <1>2, <2>1, <2>2, <2>3, <2>4, LogTypes, SyncsStep
<1>. QED
    BY <1>7, <1>8, <1>9, <1>10 DEF FlushWrite

\* The fsync: what lay before snap is on disk, and so are all older files.
LEMMA SyncStep ==
    ASSUME LogInv, NEW t \in Task, Sync(t)
    PROVE  LogInv' /\ ~Before(s_lsn', s_lsn)
<1>1. /\ op[t].at = "sync" /\ mtx_flush' = NoTask /\ mtx_flush = t
      /\ UNCHANGED <<bufVars, flushVars, region, told>>
    BY Standing DEF Sync, At
<1>2. /\ TypeOK /\ op[t] \in OpType /\ op[t].goal \in LsnType /\ op[t].snap \in LsnType
      /\ op[t].woken = "no" /\ Shape(t) /\ Goal(t) /\ Turning(t) /\ (region = t <=> Holds(t))
      /\ s_lsn \in LsnType
      /\ \A u \in Task \ {t} : ~At(u, "sync")
    BY <1>1, LogTypes, OpIs, Standing DEF Shape, At
<1>. DEFINE r(ok) == [op[t] EXCEPT !.at = "synced", !.ok = ok]
<1>3. ASSUME NEW ok \in BOOLEAN, Sets(t, r(ok)), TypeOK'
      PROVE  /\ op' \in [Task -> OpType] /\ \A w \in Task \ {t} : op'[w] = op[w]
             /\ op'[t].at = "synced" /\ op'[t].for = op[t].for /\ op'[t].lsn = op[t].lsn
             /\ op'[t].goal = op[t].goal /\ op'[t].release = op[t].release
             /\ op'[t].woken = "no" /\ op'[t].ok = ok
             /\ LogWell' /\ LogWaits'
             /\ Turns(t)' <=> Turns(t)
             /\ Commits(t)' <=> Commits(t)
    <2>1. /\ r(ok) \in OpType /\ r(ok).at = "synced" /\ r(ok).for = op[t].for
          /\ r(ok).lsn = op[t].lsn /\ r(ok).goal = op[t].goal
          /\ r(ok).release = op[t].release /\ r(ok).woken = "no" /\ r(ok).ok = ok
        BY <1>2 DEF OpType, Places
    <2>. HIDE DEF r
    <2>2. op' \in [Task -> OpType] /\ op'[t] = r(ok) /\ \A w \in Task \ {t} : op'[w] = op[w]
        BY <1>2, <1>3, <2>1, SetsIs
    <2>3. /\ Shape(t)' /\ (Holds(t)' <=> Holds(t)) /\ ~At(t, "sync")' /\ ~At(t, "wait")'
          /\ Turns(t)' <=> Turns(t)
          /\ Commits(t)' <=> Commits(t)
        BY <1>1, <1>2, <2>1, <2>2 DEF Shape, Holds, At, Asks, Commits, Turns
    <2>4. LogWell'
        BY <1>1, <1>2, <1>3, <2>2, <2>3, Standing, LogAssumption, LocksFollow DEF LogWell
    <2>5. LogWaits'
        BY <1>1, <2>1, <2>2, WaitsFollow DEF flushVars, At
    <2>. QED
        BY <2>1, <2>2, <2>3, <2>4, <2>5
<1>4. ASSUME NEW ok \in BOOLEAN, Sets(t, r(ok)) PROVE op' \in [Task -> OpType]
    <2>1. r(ok) \in OpType
        BY <1>2 DEF OpType, Places
    <2>. QED
        BY <1>2, <1>4, <2>1, SetsIs
<1>5. CASE /\ faults < MaxFaults /\ faults' = faults + 1
           /\ Sets(t, r(FALSE))
           /\ UNCHANGED <<disk, s_lsn>>
    <2>0. faults' \in 0 .. MaxFaults /\ op' \in [Task -> OpType]
        <3>1. faults \in 0 .. MaxFaults /\ MaxFaults \in Nat
            BY <1>2, LogAssumption DEF TypeOK
        <3>2. op' \in [Task -> OpType]
            BY <1>4, <1>5
        <3>3. faults < MaxFaults /\ faults' = faults + 1
            BY <1>5
        <3>. QED
            BY <3>1, <3>2, <3>3
    <2>1. TypeOK'
        BY <1>1, <1>2, <1>5, <2>0, LogAssumption DEF TypeOK, OpType, bufVars, flushVars
    <2>2. /\ op' \in [Task -> OpType] /\ \A w \in Task \ {t} : op'[w] = op[w]
          /\ op'[t].at = "synced" /\ op'[t].for = op[t].for /\ op'[t].lsn = op[t].lsn
          /\ op'[t].goal = op[t].goal /\ op'[t].release = op[t].release
          /\ op'[t].woken = "no" /\ op'[t].ok = FALSE
          /\ LogWell' /\ LogWaits'
          /\ Turns(t)' <=> Turns(t)
          /\ Commits(t)' <=> Commits(t)
        BY <1>3, <1>5, <2>1
    <2>3. Goal(t)' /\ Turning(t)'
        BY <1>1, <1>2, <1>5, <2>2
        DEF Goal, Turning, At, Asks, Commits, Record, LastLsn, bufVars
    <2>4. LogPlaced'
        BY <1>1, <1>5, <2>2, <2>3, Standing, PlacedFollows DEF bufVars, flushVars, At
    <2>5. LogKept'
        BY <1>1, <1>5, <2>2, KeptFollows DEF bufVars
    <2>6. ~Before(s_lsn', s_lsn)
        BY <1>2, <1>5, BeforeIs
    <2>. QED
        BY <2>2, <2>4, <2>5, <2>6 DEF LogInv
<1>6. CASE /\ disk' = [disk EXCEPT ![lsn.file] = file[lsn.file]]
           /\ s_lsn' = op[t].snap
           /\ Sets(t, r(TRUE))
           /\ UNCHANGED faults
    <2>. DEFINE snap == op[t].snap
    <2>1. /\ snap \in LsnType /\ snap.file = lsn.file /\ snap.offset \in 0 .. w_off
          /\ snap.offset % RecLen = 0 /\ ~Before(snap, s_lsn) /\ Before(op[t].goal, snap)
        BY <1>1, <1>2 DEF Goal, At
    <2>2. disk' \in [Files -> [Offsets -> UnitType]] /\ lsn.file \in Files
        BY <1>6, LogTypes
    <2>3. TypeOK'
        BY <1>1, <1>2, <1>4, <1>6, <2>1, <2>2 DEF TypeOK, OpType, bufVars, flushVars
    <2>4. /\ op' \in [Task -> OpType] /\ \A w \in Task \ {t} : op'[w] = op[w]
          /\ op'[t].at = "synced" /\ op'[t].for = op[t].for /\ op'[t].lsn = op[t].lsn
          /\ op'[t].goal = op[t].goal /\ op'[t].release = op[t].release
          /\ op'[t].woken = "no" /\ op'[t].ok = TRUE
          /\ LogWell' /\ LogWaits'
          /\ Turns(t)' <=> Turns(t)
          /\ Commits(t)' <=> Commits(t)
        BY <1>3, <1>6, <2>3
    <2>5. \A l \in LsnType : Before(l, s_lsn) => Before(l, snap)
        BY <1>2, <2>1, BeforeIs
    <2>6. Positions'
        <3>1. lsn.offset = 0 => \E u \in Task : At(u, "newfile")'
            <4>1. lsn.offset = 0 => \E u \in Task : At(u, "newfile")
                BY DEF LogInv, LogPlaced, Positions
            <4>. QED
                BY <1>1, <2>4, <4>1 DEF At
        <3>. QED
            BY <1>1, <3>1 DEF LogInv, LogPlaced, Positions, bufVars
    <2>7. SyncPoint'
        <3>1. snap.offset \in 0 .. LogSize /\ snap.offset <= w_off
            BY <2>1, LogTypes
        <3>2. lsn.file <= lsn.file /\ ~(lsn.file < lsn.file)
            BY LogTypes
        <3>3. s_lsn' = snap /\ lsn' = lsn /\ w_off' = w_off
            BY <1>1, <1>6 DEF bufVars
        <3>. HIDE DEF snap
        <3>. QED
            BY <2>1, <3>1, <3>2, <3>3 DEF SyncPoint
    <2>8. Before(t_lsn, lsn)' /\ Apart'
        BY <1>1, <2>4 DEF LogInv, LogPlaced, Apart, bufVars, flushVars
    <2>9. Goal(t)' /\ Turning(t)'
        <3>1. Goal(t)'
            BY <1>1, <1>2, <1>6, <2>1, <2>4
            DEF Goal, At, Asks, Commits, Record, Flushed, bufVars
        <3>2. Turning(t)'
            <4>1. \A u \in Task \ {t} : ~At(u, "sync")'
                BY <1>2, <2>4 DEF At
            <4>. QED
                BY <1>1, <1>2, <2>4, <4>1 DEF Turning, At, LastLsn, bufVars
        <3>. QED
            BY <3>1, <3>2
    <2>10. ASSUME NEW u \in Task, u # t
           PROVE  Goal(u)' /\ Turning(u)'
        <3>1. /\ op'[u] = op[u] /\ Goal(u) /\ Turning(u) /\ ~At(u, "sync")
              /\ op[u].goal \in LsnType
            BY <1>2, <2>4, <2>10, LogTypes, OpIs, Standing
        <3>2. Goal(u)'
            BY <1>1, <1>6, <2>5, <3>1 DEF Goal, At, Asks, Commits, Record, Flushed, bufVars, flushVars
        <3>3. Turns(u) /\ ~(At(u, "newfile") /\ lsn.offset = 0)
                  => op[u].at \notin {"sync", "synced", "flushed", "newfile"}
            BY <1>1, <2>10, <3>1 DEF Turning, At
        <3>4. Turning(u)'
            BY <1>1, <3>1, <3>3 DEF Turning, Turns, At, Asks, LastLsn, bufVars
        <3>. QED
            BY <3>2, <3>4
    <2>11. LogPlaced'
        BY <2>6, <2>7, <2>8, <2>9, <2>10 DEF LogPlaced
    <2>12. LogIntact'
        BY <1>1 DEF LogInv, LogKept, LogIntact, bufVars
    <2>13. DiskIsFile'
        <3>1. ASSUME NEW f \in Files, NEW o \in Offsets, Before(Lsn(f, o), snap)
              PROVE  disk'[f][o] = file[f][o]
            <4>1. f \in Nat /\ o \in Nat /\ o < LogSize /\ f >= 1
                BY LogTypes, OffsetIs DEF Files
            <4>2. f < lsn.file \/ f = lsn.file
                BY <2>1, <3>1, <4>1, BeforeLsn
            <4>3. CASE f = lsn.file
                BY <1>6, <4>3, LogTypes
            <4>4. CASE f < lsn.file
                <5>1. Before(Lsn(f, o), s_lsn)
                    <6>1. /\ s_lsn.file \in Nat /\ lsn.file \in Nat
                          /\ \/ s_lsn.file = lsn.file
                             \/ s_lsn.file = lsn.file - 1 /\ (s_lsn.file # 0 => s_lsn.offset = LogSize)
                        BY LogTypes DEF LogInv, LogPlaced, SyncPoint
                    <6>2. f < s_lsn.file \/ (f = s_lsn.file /\ s_lsn.offset = LogSize)
                        BY <4>1, <4>4, <6>1
                    <6>. QED
                        BY <1>2, <4>1, <6>2, BeforeLsn
                <5>2. disk'[f][o] = disk[f][o]
                    BY <1>6, <4>1, <4>4, LogTypes
                <5>. QED
                    BY <5>1, <5>2 DEF LogInv, LogKept, DiskIsFile
            <4>. QED
                BY <4>2, <4>3, <4>4
        <3>. QED
            BY <1>1, <1>6, <3>1 DEF DiskIsFile, bufVars
    <2>14. CommitsWhole'
        <3>1. \A w \in Task : /\ Commits(w)' => Commits(w)
                              /\ op'[w].lsn = op[w].lsn
            BY <2>4 DEF Commits
        <3>. QED
            BY <1>1, <3>1 DEF LogInv, LogKept, CommitsWhole, UnitAt, bufVars
    <2>. QED
        BY <1>6, <2>1, <2>4, <2>11, <2>12, <2>13, <2>14 DEF LogInv, LogKept
<1>. QED
    BY <1>5, <1>6 DEF Sync

\* The commit record that is made an abort record is nobody else's, and lies
\* behind the sync point.
LEMMA ForceAbortStep ==
    ASSUME LogInv, NEW t \in Task, ForceAbort(t)
    PROVE  LogInv'
<1>. DEFINE l == op[t].lsn
            body == Unit(l, "abort")
            r == [op[t] EXCEPT !.at = "flush", !.for = "undo", !.goal = l, !.release = FALSE]
<1>1. /\ op[t].at = "flushed" /\ op[t].for = "commit" /\ l # ZeroLsn
      /\ l.file = s_lsn.file /\ l.offset >= s_lsn.offset
      /\ IF l.offset > w_off
         THEN /\ bufp' = [bufp EXCEPT ![l.offset - w_off + 2] = body]
              /\ UNCHANGED file
         ELSE /\ file' = IF file[l.file][l.offset] = Zero THEN file
                         ELSE [file EXCEPT ![l.file][l.offset + 1] = body]
              /\ UNCHANGED bufp
      /\ Sets(t, r)
      /\ UNCHANGED <<lsn, f_lsn, w_off, disk, s_lsn, flushVars, region, mtx_flush, told, faults>>
    BY DEF ForceAbort, At
<1>2. /\ TypeOK /\ op[t] \in OpType /\ l \in LsnType /\ region = t /\ mtx_flush # t
      /\ op[t].woken = "no" /\ Record(l)
    BY <1>1, LogTypes, OpIs, Standing DEF Shape, Goal, At, Holds
<1>3. /\ l.file \in Files /\ l.offset \in Offsets /\ l.offset + 1 \in Offsets
      /\ l.file \in Nat /\ l.offset \in Nat /\ l.offset + 2 <= LogSize /\ l.offset % 2 = 0
      /\ l.file < lsn.file \/ (l.file = lsn.file /\ l.offset + 2 <= lsn.offset)
    BY <1>2, RecordIs
<1>4. body \in UnitType /\ body.lsn = l /\ body.part = "abort"
    BY <1>2, UnitIs
<1>5. /\ r \in OpType /\ r.at = "flush" /\ r.for = "undo" /\ r.lsn = l /\ r.goal = l
      /\ r.release = FALSE /\ r.woken = "no"
    BY <1>2 DEF OpType, Places
<1>6. op' \in [Task -> OpType] /\ op'[t] = r /\ \A w \in Task \ {t} : op'[w] = op[w]
    <2>. HIDE DEF r
    <2>. QED
        BY <1>1, <1>2, <1>5, SetsIs
<1>. HIDE DEF r, body
<1>7. l.file = lsn.file /\ l.offset + 2 <= lsn.offset
    <2>. SUFFICES ASSUME l.file < lsn.file PROVE FALSE
        BY <1>3
    <2>1. s_lsn.file # 0 /\ s_lsn.file < lsn.file
        <3>1. l.file # 0
            BY <1>3 DEF Files
        <3>. QED
            BY <1>1, <3>1
    <2>2. s_lsn.offset = LogSize
        BY <2>1 DEF LogInv, LogPlaced, SyncPoint
    <2>3. l.offset >= LogSize /\ LogSize \in Nat /\ l.offset \in Nat /\ l.offset + 2 <= LogSize
        BY <1>1, <1>3, <2>2, LogTypes
    <2>. QED
        BY <2>3
<1>8. PICK f0 \in Files, o0 \in Offsets : f0 = l.file /\ o0 = l.offset + 1
    BY <1>3
<1>9. /\ bufp' \in Seq(UnitType) /\ Len(bufp') = Len(bufp)
      /\ bufp' = <<>> <=> bufp = <<>>
      /\ file' \in [Files -> [Offsets -> UnitType]]
      /\ \A f \in Files, o \in Offsets :
            /\ ~(f = f0 /\ o = o0) => file'[f][o] = file[f][o]
            /\ Before(Lsn(f, o), lsn) =>
                   \/ UnitAt(f, o)' = UnitAt(f, o)
                   \/ f = f0 /\ o = o0 /\ UnitAt(f, o)' = body
    <2>0. /\ w_off \in Nat /\ Len(bufp) \in Nat /\ lsn.offset = w_off + Len(bufp)
          /\ lsn.file \in Nat /\ bufp \in Seq(UnitType)
        BY LogTypes
    <2>1. CASE l.offset > w_off
        <3>. DEFINE i0 == l.offset - w_off + 2
        <3>1. i0 \in 1 .. Len(bufp) /\ i0 = o0 - w_off + 1
            <4>1. l.offset \in Nat /\ l.offset + 2 <= w_off + Len(bufp) /\ o0 = l.offset + 1
                BY <1>3, <1>7, <1>8, <2>0
            <4>. HIDE DEF l
            <4>. QED
                BY <2>0, <2>1, <4>1
        <3>2. bufp' = [bufp EXCEPT ![i0] = body] /\ file' = file
            BY <1>1, <2>1
        <3>. HIDE DEF i0
        <3>3. /\ bufp' \in Seq(UnitType) /\ Len(bufp') = Len(bufp)
              /\ \A j \in 1 .. Len(bufp) : bufp'[j] = IF j = i0 THEN body ELSE bufp[j]
            BY <1>4, <2>0, <3>1, <3>2, ExceptSeq
        <3>4. ASSUME NEW f \in Files, NEW o \in Offsets, Before(Lsn(f, o), lsn)
              PROVE  \/ UnitAt(f, o)' = UnitAt(f, o)
                     \/ f = f0 /\ o = o0 /\ UnitAt(f, o)' = body
            <4>1. f \in Nat /\ o \in Nat /\ (f < lsn.file \/ (f = lsn.file /\ o < lsn.offset))
                BY <3>4, LogTypes, BeforeLsn, OffsetIs
            <4>2. CASE f < lsn.file \/ o < w_off
                BY <1>1, <3>2, <4>2 DEF UnitAt
            <4>3. CASE ~(f < lsn.file \/ o < w_off)
                <5>1. UnitAt(f, o) = bufp[o - w_off + 1] /\ UnitAt(f, o)' = bufp'[o - w_off + 1]
                    BY <1>1, <4>3 DEF UnitAt
                <5>2. f = lsn.file /\ o - w_off + 1 \in 1 .. Len(bufp)
                    BY <2>0, <4>1, <4>3
                <5>3. o - w_off + 1 = i0 => o = o0
                    <6>1. o \in Int /\ o0 \in Int /\ w_off \in Int
                        BY <2>0, OffsetIs
                    <6>. QED
                        BY <3>1, <6>1
                <5>. QED
                    BY <1>7, <1>8, <3>3, <5>1, <5>2, <5>3
            <4>. QED
                BY <4>2, <4>3
        <3>5. bufp' = <<>> <=> bufp = <<>>
            BY <2>0, <3>3, EmptySeq
        <3>. QED
            BY <3>2, <3>3, <3>4, <3>5, LogTypes
    <2>2. CASE ~(l.offset > w_off)
        <3>1. bufp' = bufp /\ (file' = file \/ file' = [file EXCEPT ![f0][o0] = body])
            BY <1>1, <1>8, <2>2
        <3>2. /\ file' \in [Files -> [Offsets -> UnitType]]
              /\ \A f \in Files, o \in Offsets :
                    /\ ~(f = f0 /\ o = o0) => file'[f][o] = file[f][o]
                    /\ file'[f0][o0] \in {body, file[f0][o0]}
            <4>1. file \in [Files -> [Offsets -> UnitType]]
                BY LogTypes
            <4>2. CASE file' = file
                BY <4>1, <4>2
            <4>3. CASE file' = [file EXCEPT ![f0][o0] = body]
                BY <1>4, <4>1, <4>3
            <4>. QED
                BY <3>1, <4>2, <4>3
        <3>3. ASSUME NEW f \in Files, NEW o \in Offsets
              PROVE  \/ UnitAt(f, o)' = UnitAt(f, o)
                     \/ f = f0 /\ o = o0 /\ UnitAt(f, o)' = body
            <4>1. CASE f < lsn.file \/ o < w_off
                <5>1. UnitAt(f, o) = file[f][o] /\ UnitAt(f, o)' = file'[f][o]
                    BY <1>1, <4>1 DEF UnitAt
                <5>. QED
                    BY <3>2, <5>1
            <4>2. CASE ~(f < lsn.file \/ o < w_off)
                BY <1>1, <3>1, <4>2 DEF UnitAt
            <4>. QED
                BY <4>1, <4>2
        <3>. QED
            BY <2>0, <3>1, <3>2, <3>3
    <2>. QED
        BY <2>1, <2>2
<1>10. /\ Shape(t)' /\ Holds(t)' /\ ~At(t, "sync")' /\ ~At(t, "wait")'
       /\ ~Commits(t)' /\ ~Turns(t)'
    BY <1>1, <1>5, <1>6 DEF Shape, Holds, At, Asks, Commits, Turns
<1>11. TypeOK'
    BY <1>1, <1>2, <1>6, <1>9 DEF TypeOK, OpType, flushVars
<1>12. LogWell'
    BY <1>1, <1>2, <1>6, <1>10, <1>11, Standing, LocksFollow DEF LogWell, At
<1>13. Goal(t)' /\ Turning(t)'
    <2>1. Before(l, lsn)
        BY <1>2 DEF Record
    <2>. HIDE DEF l
    <2>2. Record(op[t].lsn)'
        <3>1. op'[t].lsn = l /\ lsn' = lsn
            BY <1>1, <1>5, <1>6
        <3>. QED
            BY <1>2, <3>1 DEF Record
    <2>. QED
        BY <1>1, <1>5, <1>6, <1>10, <2>1, <2>2 DEF Goal, Turning, At, Asks, Commits
<1>14. LogPlaced'
    BY <1>1, <1>2, <1>5, <1>6, <1>9, <1>10, <1>13, Standing, PlacedFollows DEF flushVars, At
<1>15. LogIntact'
    <2>1. Belongs(body, f0, o0)
        <3>1. (l.offset + 1) - ((l.offset + 1) % 2) = l.offset /\ (l.offset + 1) % 2 # 0
            BY <1>3, EvenIs
        <3>2. o0 - (o0 % 2) = l.offset /\ o0 % 2 # 0
            BY <1>8, <3>1
        <3>3. Lsn(l.file, l.offset) = l
            BY <1>2, LsnHas
        <3>. HIDE DEF l
        <3>. QED
            BY <1>4, <1>8, <3>2, <3>3 DEF Belongs, RecLen
    <2>2. ASSUME NEW f \in Files, NEW o \in Offsets, Before(Lsn(f, o), lsn)
          PROVE  Belongs(UnitAt(f, o)', f, o)
        BY <1>9, <2>1, <2>2, IntactIs
    <2>. QED
        BY <1>1, <1>11, <1>14, <2>2, IntactNext DEF LogPlaced
<1>16. DiskIsFile'
    <2>1. ASSUME NEW f \in Files, NEW o \in Offsets, Before(Lsn(f, o), s_lsn)
          PROVE  disk[f][o] = file'[f][o]
        <3>1. ~(f = f0 /\ o = o0)
            <4>. SUFFICES ASSUME f = f0, o = o0 PROVE FALSE
                OBVIOUS
            <4>1. f \in Nat /\ o \in Nat /\ s_lsn \in LsnType
                BY LogTypes, OffsetIs
            <4>2. f < s_lsn.file \/ (f = s_lsn.file /\ o < s_lsn.offset)
                BY <2>1, <4>1, BeforeLsn
            <4>3. f = s_lsn.file /\ s_lsn.offset <= l.offset /\ o = l.offset + 1
                BY <1>1, <1>3, <1>8, LogTypes
            <4>4. s_lsn.offset \in Nat /\ l.offset \in Nat
                BY <1>3, LogTypes
            <4>. HIDE DEF l
            <4>. QED
                BY <4>1, <4>2, <4>3, <4>4
        <3>2. disk[f][o] = file[f][o]
            BY <2>1 DEF LogInv, LogKept, DiskIsFile
        <3>. QED
            BY <1>9, <3>1, <3>2
    <2>. QED
        BY <1>1, <2>1 DEF DiskIsFile
<1>17. CommitsWhole'
    <2>1. ASSUME NEW w \in Task, Commits(w)'
          PROVE  (UnitAt(op[w].lsn.file, op[w].lsn.offset + 1) = Unit(op[w].lsn, "commit"))'
        <3>. DEFINE k == op[w].lsn
        <3>1. op'[w] = op[w] /\ Commits(w) /\ k \in LsnType /\ Record(k) /\ w # t
            BY <1>6, <1>10, <2>1, LogTypes, OpIs, Standing DEF Commits, Goal
        <3>2. /\ k.file \in Files /\ k.offset + 1 \in Offsets /\ k.file \in Nat /\ k.offset \in Nat
              /\ k.file < lsn.file \/ (k.file = lsn.file /\ k.offset + 2 <= lsn.offset)
            BY <3>1, RecordIs
        <3>3. k # l
            BY <1>1, <3>1 DEF LogInv, LogPlaced, Apart
        <3>4. UnitAt(k.file, k.offset + 1) = Unit(k, "commit")
            BY <3>1 DEF LogInv, LogKept, CommitsWhole
        <3>5. PICK f \in Files, o \in Offsets : f = k.file /\ o = k.offset + 1
            BY <3>2
        <3>6. ~(f = f0 /\ o = o0)
            <4>1. k.file # l.file \/ k.offset # l.offset
                BY <1>2, <3>1, <3>3, LsnHas
            <4>. HIDE DEF k, l
            <4>. QED
                BY <1>3, <1>8, <3>2, <3>5, <4>1
        <3>7. Before(Lsn(f, o), lsn)
            <4>1. lsn \in LsnType /\ lsn.offset \in Int /\ f \in Nat /\ o \in Int
                BY LogTypes, OffsetIs
            <4>2. f < lsn.file \/ (f = lsn.file /\ o < lsn.offset)
                <5>. HIDE DEF k
                <5>. QED
                    BY <3>2, <3>5, <4>1
            <4>. QED
                BY <4>1, <4>2, BeforeLsn
        <3>8. UnitAt(f, o)' = UnitAt(f, o)
            BY <1>9, <3>6, <3>7
        <3>. QED
            BY <3>1, <3>4, <3>5, <3>8
    <2>. QED
        BY <2>1 DEF CommitsWhole
<1>18. LogWaits'
    BY <1>1, <1>5, <1>6, WaitsFollow DEF flushVars, At
<1>. QED
    BY <1>12, <1>14, <1>15, <1>16, <1>17, <1>18 DEF LogInv, LogKept

-----------------------------------------------------------------------------
(***************************************************************************)
(* The invariant                                                           *)
(***************************************************************************)
LEMMA LogInit == Init => LogInv
<1>. SUFFICES ASSUME Init PROVE LogInv
    OBVIOUS
<1>1. /\ lsn = Lsn(1, RecLen) /\ s_lsn = ZeroLsn
      /\ f_lsn = Lsn(1, 0) /\ t_lsn = Lsn(1, 0)
      /\ bufp = <<Unit(f_lsn, "head"), Unit(f_lsn, "persist")>> /\ w_off = 0
      /\ file = [f \in Files |-> [o \in Offsets |-> Zero]]
      /\ disk = file
      /\ in_flush = 0 /\ commits = <<>>
      /\ region = NoTask /\ mtx_flush = NoTask
      /\ op = [t \in Task |-> Idle]
      /\ told = {} /\ faults = 0
    BY DEF Init
<1>2. /\ lsn \in LsnType /\ lsn.file = 1 /\ lsn.offset = 2
      /\ f_lsn \in LsnType /\ f_lsn.file = 1 /\ f_lsn.offset = 0 /\ t_lsn \in LsnType
      /\ t_lsn.file = 1 /\ t_lsn.offset = 0
      /\ s_lsn \in LsnType /\ s_lsn.file = 0 /\ s_lsn.offset = 0
    BY <1>1, LsnIs, ZeroLsnIs DEF RecLen
<1>. DEFINE h == Unit(f_lsn, "head")
            p == Unit(f_lsn, "persist")
<1>3. /\ h \in UnitType /\ p \in UnitType /\ h.lsn = f_lsn /\ h.part = "head"
      /\ p.lsn = f_lsn /\ p.part = "persist" /\ Zero \in UnitType
    BY <1>2, UnitIs
<1>4. bufp = <<h, p>>
    BY <1>1
<1>. HIDE DEF h, p
<1>5. /\ bufp \in Seq(UnitType) /\ Len(bufp) = 2 /\ bufp[1] = h /\ bufp[2] = p
    BY <1>3, <1>4
<1>6. \A t \in Task : op[t] = Idle
    BY <1>1
<1>7. TypeOK
    <2>1. op \in [Task -> OpType]
        BY <1>1, IdleIs
    <2>2. file \in [Files -> [Offsets -> UnitType]]
        BY <1>1, <1>3
    <2>3. <<>> \in Seq(Task)
        BY EmptySeq
    <2>. QED
        BY <1>1, <1>2, <1>5, <2>1, <2>2, <2>3, LogAssumption DEF TypeOK, OpType, RecLen
<1>8. LogWell
    <2>1. \A t \in Task : ~Holds(t) /\ ~At(t, "sync") /\ Shape(t)
        BY <1>6, IdleIs DEF Holds, At, Shape, Asks, Commits, Turns
    <2>. QED
        BY <1>1, <1>7, <2>1, LogAssumption DEF LogWell, Locks
<1>9. LogPlaced
    <2>1. Positions
        <3>1. w_off - (w_off % RecLen) = 0 /\ lsn.offset % RecLen = 0
            BY <1>1, <1>2 DEF RecLen
        <3>. QED
            BY <1>1, <1>2, <1>5, <3>1, LogAssumption DEF Positions, RecLen, Files
    <2>2. SyncPoint
        <3>1. s_lsn.offset % RecLen = 0
            BY <1>2 DEF RecLen
        <3>. QED
            BY <1>2, <3>1, LogAssumption DEF SyncPoint
    <2>3. Before(t_lsn, lsn)
        BY <1>2 DEF Before
    <2>4. Apart
        BY <1>6, IdleIs DEF Apart
    <2>5. \A t \in Task : Goal(t) /\ Turning(t)
        BY <1>6, IdleIs DEF Goal, Turning, Turns, At, Asks, Commits
    <2>. QED
        BY <2>1, <2>2, <2>3, <2>4, <2>5 DEF LogPlaced
<1>10. LogKept
    <2>1. LogIntact
        <3>1. \A f \in Files, o \in Offsets : ~(f < lsn.file \/ (f = lsn.file /\ o < w_off))
            BY <1>1, <1>2, LogAssumption DEF Files, Offsets
        <3>2. lsn.offset = w_off + Len(bufp)
            BY <1>1, <1>2, <1>5
        <3>3. /\ 0 - (0 % 2) = 0 /\ 1 - (1 % 2) = 0 /\ 0 % 2 = 0 /\ 1 % 2 # 0
            OBVIOUS
        <3>4. Belongs(h, 1, 0) /\ Belongs(p, 1, 1)
            BY <1>1, <1>3, <3>3 DEF Belongs, RecLen
        <3>5. ASSUME NEW i \in 1 .. Len(bufp)
              PROVE  Belongs(bufp[i], lsn.file, w_off + i - 1)
            <4>1. i = 1 \/ i = 2
                BY <1>5
            <4>2. w_off + 1 - 1 = 0 /\ w_off + 2 - 1 = 1
                BY <1>1
            <4>. QED
                BY <1>2, <1>5, <3>4, <4>1, <4>2
        <3>. QED
            BY <3>1, <3>2, <3>5 DEF LogIntact
    <2>2. DiskIsFile
        BY <1>1 DEF DiskIsFile
    <2>3. CommitsWhole
        BY <1>6, IdleIs DEF CommitsWhole, Commits
    <2>. QED
        BY <2>1, <2>2, <2>3 DEF LogKept
<1>11. LogWaits
    <2>1. Flushing = {}
        BY <1>6, IdleIs DEF Flushing
    <2>2. commits \in List(Task) /\ ToSet(commits) = {}
        BY <1>1, EmptyList
    <2>3. IsFiniteSet(Flushing) /\ Cardinality(Flushing) = 0
        BY <2>1, FS_EmptySet
    <2>. QED
        BY <1>1, <1>6, <2>2, <2>3, IdleIs
        DEF LogWaits, Listed, InFlushExact, WaitersHaveFlush, At
<1>. QED
    BY <1>8, <1>9, <1>10, <1>11 DEF LogInv

LEMMA LogStutters == LogInv /\ UNCHANGED vars => LogInv'
<1>. SUFFICES ASSUME LogInv, UNCHANGED vars PROVE LogInv'
    OBVIOUS
<1>1. /\ UNCHANGED <<lsn, bufp, f_lsn, w_off, file, disk, s_lsn, t_lsn, in_flush, commits>>
      /\ UNCHANGED <<region, mtx_flush, op, told, faults>>
    BY DEF vars, bufVars, flushVars
<1>2. LogWell'
    BY <1>1 DEF LogInv, LogWell, TypeOK, Locks, Holds, Shape, Asks, Commits, Turns, At
<1>3. LogPlaced'
    <2>1. Positions' /\ SyncPoint' /\ Before(t_lsn, lsn)' /\ Apart'
        BY <1>1 DEF LogInv, LogPlaced, Positions, SyncPoint, Apart, At
    <2>2. \A t \in Task : Goal(t)' /\ Turning(t)'
        BY <1>1 DEF LogInv, LogPlaced, Goal, Turning, Turns, Commits, Asks, At, Record,
                    Flushed, LastLsn
    <2>. QED
        BY <2>1, <2>2 DEF LogPlaced
<1>4. LogKept'
    BY <1>1 DEF LogInv, LogKept, LogIntact, DiskIsFile, CommitsWhole, Commits, UnitAt
<1>5. LogWaits'
    BY <1>1 DEF LogInv, LogWaits, Listed, Flushing, InFlushExact, WaitersHaveFlush, At
<1>. QED
    BY <1>2, <1>3, <1>4, <1>5 DEF LogInv

LEMMA LogSteps == LogInv /\ [Next]_vars => LogInv'
<1>. SUFFICES ASSUME LogInv, [Next]_vars PROVE LogInv'
    OBVIOUS
<1>1. ASSUME NEW t \in Task, Calls(t) PROVE LogInv'
    <2>1. CASE CallPut(t, "commit")
        BY <2>1, CallPutStep
    <2>2. CASE CallPut(t, "update")
        BY <2>2, CallPutStep
    <2>3. CASE \E l \in Puts : CallFlush(t, l)
        BY <2>3, CallFlushStep
    <2>. QED
        BY <1>1, <2>1, <2>2, <2>3 DEF Calls
<1>2. ASSUME NEW t \in Task, Continues(t) PROVE LogInv'
    <2>1. CASE AdvanceFile(t)
        BY <2>1, AdvanceFileStep
    <2>2. CASE NewFile(t)
        BY <2>2, NewFileStep
    <2>3. CASE PutRecord(t)
        BY <2>3, PutRecordStep
    <2>4. CASE FlushInt(t)
        BY <2>4, FlushIntStep
    <2>5. CASE Woken(t)
        BY <2>5, WokenStep
    <2>6. CASE FlushWrite(t)
        BY <2>6, FlushWriteStep
    <2>7. CASE Sync(t)
        BY <2>7, SyncStep
    <2>8. CASE Relock(t)
        BY <2>8, RelockStep
    <2>9. CASE Returns(t)
        BY <2>9, ReturnsStep
    <2>10. CASE TellsDone(t)
        BY <2>10, TellsDoneStep
    <2>11. CASE ForceAbort(t)
        BY <2>11, ForceAbortStep
    <2>. QED
        BY <1>2, <2>1, <2>2, <2>3, <2>4, <2>5, <2>6, <2>7, <2>8, <2>9, <2>10, <2>11
        DEF Continues
<1>3. CASE UNCHANGED vars
    BY <1>3, LogStutters
<1>. QED
    BY <1>1, <1>2, <1>3 DEF Next, Full

\* The invariant holds throughout.
LEMMA LogInvariant == Spec => []LogInv
<1>. QED
    BY LogInit, LogSteps, PTL DEF Spec

-----------------------------------------------------------------------------
(***************************************************************************)
(* What follows from it                                                    *)
(***************************************************************************)
\* The region, the buffer, the files and what every task is doing keep their
\* types; the buffer is never left full by __log_fill.
THEOREM LogTyped == Spec => []TypeOK
<1>1. LogInv => TypeOK
    BY DEF LogInv, LogWell
<1>. QED
    BY <1>1, LogInvariant, PTL

\* What __log_put has put into the log is in the files and the buffer, unit by
\* unit, whatever writes have failed: no offset is lost or used twice.
THEOREM LogStaysIntact == Spec => []LogIntact
<1>1. LogInv => LogIntact
    BY DEF LogInv, LogKept
<1>. QED
    BY <1>1, LogInvariant, PTL

\* An LSN before s_lsn is before what the file has.
LEMMA BelongsOnDisk ==
    ASSUME LogInv, NEW f \in Files, NEW o \in Offsets, Before(Lsn(f, o), s_lsn)
    PROVE  /\ disk[f][o] = UnitAt(f, o) /\ UnitAt(f, o) \in UnitType
           /\ Belongs(UnitAt(f, o), f, o)
<1>1. f \in Nat /\ o \in Nat /\ lsn \in LsnType /\ s_lsn \in LsnType
    BY LogTypes, OffsetIs
<1>2. f < s_lsn.file \/ (f = s_lsn.file /\ o < s_lsn.offset)
    BY <1>1, BeforeLsn
<1>3. /\ s_lsn.file <= lsn.file
      /\ s_lsn.file = lsn.file => s_lsn.offset <= w_off
      /\ w_off <= lsn.offset
    BY LogTypes DEF LogInv, LogPlaced, SyncPoint
<1>4. f < lsn.file \/ (f = lsn.file /\ o < w_off)
    BY <1>1, <1>2, <1>3, LogTypes
<1>5. Before(Lsn(f, o), lsn)
    BY <1>1, <1>3, <1>4, LogTypes, BeforeLsn
<1>6. UnitAt(f, o) = file[f][o]
    BY <1>4 DEF UnitAt
<1>. QED
    BY <1>5, <1>6, IntactIs DEF LogInv, LogKept, DiskIsFile

\* s_lsn never claims what the disk has not got: every unit before it survives
\* a crash, although it is set without the region's lock and writes and fsyncs
\* fail.
THEOREM SyncedStaysOnDisk == Spec => []SyncedOnDisk
<1>1. LogInv => SyncedOnDisk
    BY BelongsOnDisk DEF SyncedOnDisk
<1>. QED
    BY <1>1, LogInvariant, PTL

\* in_flush counts the fsyncs under way and the waiters that have been told to
\* make the next one, so that a commit waits if and only if there is one.
THEOREM FlushesCounted == Spec => []InFlushExact
<1>1. LogInv => InFlushExact
    BY DEF LogInv, LogWaits
<1>. QED
    BY <1>1, LogInvariant, PTL

\* No commit waits in the list with nobody left to wake it, and none is taken
\* off the list without being woken.
THEOREM WaitersWoken == Spec => []WaitersHaveFlush
<1>1. LogInv => WaitersHaveFlush
    BY DEF LogInv, LogWaits
<1>. QED
    BY <1>1, LogInvariant, PTL

\* When __log_flush returns success for a commit, header and body of the
\* record are on disk as they were put, also for a commit whose flush another
\* task made.
THEOREM FlushedIsOnDisk == Spec => []FlushedOnDisk
<1>1. LogInv => FlushedOnDisk
    <2>. SUFFICES ASSUME LogInv, NEW t \in Task, At(t, "flushed"), op[t].ok,
                         op[t].lsn # ZeroLsn, op[t].for = "commit"
                  PROVE  /\ disk[op[t].lsn.file][op[t].lsn.offset] = Unit(op[t].lsn, "head")
                         /\ disk[op[t].lsn.file][op[t].lsn.offset + 1] = Unit(op[t].lsn, "commit")
        BY DEF FlushedOnDisk
    <2>. DEFINE l == op[t].lsn
    <2>1. /\ l \in LsnType /\ op[t].goal \in LsnType /\ s_lsn \in LsnType
          /\ Record(l) /\ Commits(t) /\ ~Before(op[t].goal, l) /\ Before(op[t].goal, s_lsn)
        BY LogTypes, OpIs, Standing DEF Goal, At, Commits, Flushed
    <2>2. Before(l, s_lsn)
        BY <2>1, BeforeIs
    <2>3. /\ l.file \in Files /\ l.offset \in Offsets /\ l.offset + 1 \in Offsets
          /\ l.file \in Nat /\ l.offset \in Nat /\ l.offset % 2 = 0
        BY <2>1, RecordIs
    <2>4. PICK f \in Files, o \in Offsets, b \in Offsets :
              f = l.file /\ o = l.offset /\ b = l.offset + 1
        BY <2>3
    <2>5. o \in Nat /\ b = o + 1 /\ o % 2 = 0 /\ f \in Nat /\ l = Lsn(f, o)
        BY <2>1, <2>3, <2>4, LsnHas
    <2>6. f < s_lsn.file \/ (f = s_lsn.file /\ o < s_lsn.offset)
        BY <2>1, <2>2, <2>5, BeforeLsn
    <2>7. o < s_lsn.offset => o + 2 <= s_lsn.offset
        <3>1. s_lsn.offset \in Nat /\ s_lsn.offset % 2 = 0
            BY LogTypes, EvenOffsets
        <3>. QED
            BY <2>5, <3>1, EvenGap
    <2>8. Before(Lsn(f, o), s_lsn) /\ Before(Lsn(f, b), s_lsn)
        <3>1. s_lsn.offset \in Nat /\ b \in Nat
            BY <2>5, LogTypes
        <3>2. f < s_lsn.file \/ (f = s_lsn.file /\ b < s_lsn.offset)
            BY <2>5, <2>6, <2>7, <3>1
        <3>. QED
            BY <2>1, <2>5, <2>6, <3>1, <3>2, BeforeLsn
    <2>9. disk[f][b] = Unit(l, "commit")
        <3>1. disk[f][b] = UnitAt(f, b)
            BY <2>8, BelongsOnDisk
        <3>2. UnitAt(l.file, l.offset + 1) = Unit(l, "commit")
            BY <2>1 DEF LogInv, LogKept, CommitsWhole
        <3>. QED
            BY <2>4, <3>1, <3>2
    <2>10. disk[f][o] = Unit(l, "head")
        <3>1. /\ disk[f][o] \in UnitType /\ Belongs(disk[f][o], f, o)
            BY <2>8, BelongsOnDisk
        <3>2. o - (o % 2) = o
            BY <2>5, EvenIs
        <3>3. disk[f][o].lsn = l /\ disk[f][o].part = "head"
            BY <2>5, <3>1, <3>2 DEF Belongs, RecLen
        <3>. QED
            BY <3>1, <3>3, UnitIs
    <2>. QED
        BY <2>4, <2>9, <2>10
<1>. QED
    BY <1>1, LogInvariant, PTL

\* The sync point can only move forward, which __log_flush relies on when it
\* reads s_lsn without a lock.
THEOREM SyncPointMovesForward == Spec => SyncPointForward
<1>1. ASSUME LogInv, [Next]_vars PROVE [~Before(s_lsn', s_lsn)]_vars
    <2>1. s_lsn \in LsnType /\ ~Before(s_lsn, s_lsn)
        BY <1>1, LogTypes, BeforeIs
    <2>2. CASE \E t \in Task : Sync(t)
        BY <1>1, <2>2, SyncStep
    <2>3. CASE UNCHANGED vars \/ UNCHANGED s_lsn
        BY <2>1, <2>3
    <2>4. ASSUME NEW t \in Task, Calls(t) PROVE UNCHANGED s_lsn
        BY <2>4 DEF Calls, CallPut, CallFlush
    <2>5. ASSUME NEW t \in Task, Continues(t) PROVE Sync(t) \/ UNCHANGED s_lsn
        BY <2>5 DEF Continues, AdvanceFile, NewFile, PutRecord, FlushInt, Woken, FlushWrite,
                    Relock, Returns, TellsDone, ForceAbort
    <2>. QED
        BY <1>1, <2>2, <2>3, <2>4, <2>5 DEF Next, Full
<1>. QED
    BY <1>1, LogInvariant, PTL DEF Spec, SyncPointForward
=============================================================================
