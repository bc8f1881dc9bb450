--------------------------- MODULE DbLockTheorems ---------------------------
(***************************************************************************)
(* The lock manager grants no two locks that conflict, leaves nobody       *)
(* waiting for what could be granted, wakes exactly those whose request    *)
(* has been settled, and keeps the list of contested objects exact: for    *)
(* any number of lockers, objects and locks, with or without the deadlock  *)
(* detector.                                                               *)
(***************************************************************************)
EXTENDS DbLock, SequenceTheorems, NaturalsInduction, WellFoundedInduction, TLAPS

-----------------------------------------------------------------------------
(***************************************************************************)
(* Lists without duplicates                                                *)
(***************************************************************************)
List(S) == {s \in Seq(S) : IsInjective(s)}

LEMMA ListIs ==
    ASSUME NEW S, NEW s \in List(S)
    PROVE  /\ s \in Seq(S) /\ Len(s) \in Nat /\ DOMAIN s = 1 .. Len(s)
           /\ \A i \in 1 .. Len(s) : s[i] \in S /\ s[i] \in ToSet(s)
           /\ \A i, j \in 1 .. Len(s) : s[i] = s[j] => i = j
           /\ \A x : x \in ToSet(s) <=> \E i \in 1 .. Len(s) : s[i] = x
           /\ ToSet(s) \in SUBSET S
           /\ s = <<>> <=> Len(s) = 0
           /\ s = <<>> <=> ToSet(s) = {}
           /\ s # <<>> => Head(s) = s[1] /\ Head(s) \in ToSet(s) /\ 1 \in 1 .. Len(s)
<1>1. s \in Seq(S) /\ \A i, j \in DOMAIN s : s[i] = s[j] => i = j
    BY DEF List, IsInjective
<1>2. Len(s) \in Nat /\ DOMAIN s = 1 .. Len(s) /\ s \in [1 .. Len(s) -> S]
    BY <1>1, LenProperties
<1>3. \A x : x \in ToSet(s) <=> \E i \in 1 .. Len(s) : s[i] = x
    BY <1>2 DEF ToSet
<1>4. s = <<>> <=> Len(s) = 0
    BY <1>1
<1>5. s # <<>> => 1 \in 1 .. Len(s) /\ Head(s) = s[1]
    BY <1>1, <1>2, <1>4
<1>6. \A i \in 1 .. Len(s) : s[i] \in S /\ s[i] \in ToSet(s)
    BY <1>2, <1>3
<1>7. s = <<>> <=> ToSet(s) = {}
    <2>1. CASE s = <<>>
        BY <1>2, <1>3, <1>4, <2>1
    <2>2. CASE s # <<>>
        BY <1>5, <1>6, <2>2
    <2>. QED
        BY <2>1, <2>2
<1>. QED
    BY <1>1, <1>2, <1>3, <1>4, <1>5, <1>6, <1>7

LEMMA ListBuilt ==
    ASSUME NEW S, NEW s \in Seq(S),
           \A i, j \in 1 .. Len(s) : s[i] = s[j] => i = j
    PROVE  s \in List(S)
<1>1. DOMAIN s = 1 .. Len(s)
    BY LenProperties
<1>. QED
    BY <1>1 DEF List, IsInjective

LEMMA EmptyList ==
    ASSUME NEW S
    PROVE  <<>> \in List(S) /\ ToSet(<<>>) = {}
<1>1. <<>> \in Seq(S) /\ Len(<<>>) = 0
    BY EmptySeq
<1>2. DOMAIN <<>> = {}
    BY <1>1, LenProperties
<1>3. <<>> \in List(S)
    BY <1>1, <1>2 DEF List, IsInjective
<1>. QED
    BY <1>3, ListIs

\* An element in front of a list, or behind it.
LEMMA ListCons ==
    ASSUME NEW S, NEW s \in List(S), NEW x \in S, x \notin ToSet(s)
    PROVE  /\ <<x>> \o s \in List(S)
           /\ ToSet(<<x>> \o s) = ToSet(s) \cup {x}
           /\ <<x>> \o s # <<>> /\ Head(<<x>> \o s) = x
<1>. DEFINE r == <<x>> \o s
<1>1. s \in Seq(S) /\ <<x>> \in Seq(S) /\ Len(<<x>>) = 1 /\ <<x>>[1] = x /\ Len(s) \in Nat
    BY ListIs
<1>2. /\ r \in Seq(S) /\ Len(r) = 1 + Len(s)
      /\ \A i \in 1 .. 1 + Len(s) : r[i] = IF i <= 1 THEN <<x>>[i] ELSE s[i - 1]
    BY <1>1, ConcatProperties
<1>. HIDE DEF r
<1>3. r[1] = x /\ 1 \in 1 .. Len(r)
    BY <1>1, <1>2
<1>4. \A i \in 1 .. Len(r) : i # 1 => i - 1 \in 1 .. Len(s) /\ r[i] = s[i - 1] /\ r[i] # x
    <2>. SUFFICES ASSUME NEW i \in 1 .. Len(r), i # 1
                  PROVE  i - 1 \in 1 .. Len(s) /\ r[i] = s[i - 1] /\ r[i] # x
        OBVIOUS
    <2>1. i - 1 \in 1 .. Len(s) /\ r[i] = s[i - 1]
        BY <1>1, <1>2
    <2>. QED
        BY <2>1, ListIs
<1>5. \A i, j \in 1 .. Len(r) : r[i] = r[j] => i = j
    <2>. SUFFICES ASSUME NEW i \in 1 .. Len(r), NEW j \in 1 .. Len(r), r[i] = r[j]
                  PROVE  i = j
        OBVIOUS
    <2>1. CASE i = 1 \/ j = 1
        BY <1>3, <1>4, <2>1
    <2>2. CASE i # 1 /\ j # 1
        <3>1. i - 1 = j - 1
            BY <1>4, <2>2, ListIs
        <3>. QED
            BY <1>1, <1>2, <3>1
    <2>. QED
        BY <2>1, <2>2
<1>6. r \in List(S)
    BY <1>2, <1>5, ListBuilt
<1>7. \A y : y \in ToSet(r) <=> y \in ToSet(s) \/ y = x
    <2>1. \A y : y \in ToSet(r) <=> \E i \in 1 .. Len(r) : r[i] = y
        BY <1>6, ListIs
    <2>2. \A y : y \in ToSet(s) <=> \E i \in 1 .. Len(s) : s[i] = y
        BY ListIs
    <2>3. \A i \in 1 .. Len(s) : i + 1 \in 1 .. Len(r) /\ r[i + 1] = s[i]
        BY <1>1, <1>2
    <2>4. ASSUME NEW y, y \in ToSet(r)
          PROVE  y \in ToSet(s) \/ y = x
        <3>1. PICK i \in 1 .. Len(r) : r[i] = y
            BY <2>1, <2>4
        <3>2. i = 1 \/ \E j \in 1 .. Len(s) : r[i] = s[j]
            BY <1>4
        <3>. QED
            BY <1>3, <2>2, <3>1, <3>2
    <2>5. ASSUME NEW y, y \in ToSet(s) \/ y = x
          PROVE  y \in ToSet(r)
        <3>1. CASE y \in ToSet(s)
            <4>1. PICK i \in 1 .. Len(s) : s[i] = y
                BY <2>2, <3>1
            <4>. QED
                BY <2>1, <2>3, <4>1
        <3>2. CASE y = x
            BY <1>3, <2>1, <3>2
        <3>. QED
            BY <2>5, <3>1, <3>2
    <2>. QED
        BY <2>4, <2>5
<1>8. r # <<>> /\ Head(r) = x
    BY <1>3, <1>6, <1>7, ListIs
<1>. QED
    BY <1>6, <1>7, <1>8 DEF r

LEMMA ListAppend ==
    ASSUME NEW S, NEW s \in List(S), NEW x \in S, x \notin ToSet(s)
    PROVE  /\ Append(s, x) \in List(S)
           /\ ToSet(Append(s, x)) = ToSet(s) \cup {x}
           /\ Append(s, x) # <<>>
           /\ Head(Append(s, x)) = IF s = <<>> THEN x ELSE Head(s)
<1>. DEFINE r == Append(s, x)
<1>1. s \in Seq(S) /\ Len(s) \in Nat
    BY ListIs
<1>2. /\ r \in Seq(S) /\ Len(r) = Len(s) + 1 /\ r # <<>>
      /\ \A i \in 1 .. Len(s) : r[i] = s[i]
      /\ r[Len(s) + 1] = x
    BY <1>1, AppendProperties
<1>3. Head(r) = IF s = <<>> THEN x ELSE Head(s)
    BY <1>1, HeadTailAppend
<1>. HIDE DEF r
<1>4. \A i \in 1 .. Len(r) : i \in 1 .. Len(s) \/ i = Len(s) + 1
    BY <1>1, <1>2
<1>5. \A i \in 1 .. Len(s) : r[i] # x
    BY <1>2, ListIs
<1>6. \A i, j \in 1 .. Len(r) : r[i] = r[j] => i = j
    BY <1>2, <1>4, <1>5, ListIs
<1>7. r \in List(S)
    BY <1>2, <1>6, ListBuilt
<1>8. \A y : y \in ToSet(r) <=> y \in ToSet(s) \/ y = x
    <2>1. \A y : y \in ToSet(r) <=> \E i \in 1 .. Len(r) : r[i] = y
        BY <1>7, ListIs
    <2>2. \A y : y \in ToSet(s) <=> \E i \in 1 .. Len(s) : s[i] = y
        BY ListIs
    <2>3. Len(s) + 1 \in 1 .. Len(r) /\ \A i \in 1 .. Len(s) : i \in 1 .. Len(r)
        BY <1>1, <1>2
    <2>. QED
        BY <1>2, <1>4, <2>1, <2>2, <2>3
<1>. QED
    BY <1>2, <1>3, <1>7, <1>8 DEF r

LEMMA ListTail ==
    ASSUME NEW S, NEW s \in List(S), s # <<>>
    PROVE  Tail(s) \in List(S) /\ ToSet(Tail(s)) = ToSet(s) \ {Head(s)}
<1>. DEFINE r == Tail(s)
<1>1. s \in Seq(S) /\ Len(s) \in Nat /\ Len(s) # 0 /\ Head(s) = s[1]
    BY ListIs
<1>2. /\ r \in Seq(S) /\ Len(r) = Len(s) - 1
      /\ \A i \in 1 .. Len(r) : r[i] = s[i + 1]
    BY <1>1, HeadTailProperties
<1>. HIDE DEF r
<1>3. \A i \in 1 .. Len(r) : i + 1 \in 1 .. Len(s) /\ i + 1 # 1
    BY <1>1, <1>2
<1>4. \A i, j \in 1 .. Len(r) : r[i] = r[j] => i = j
    <2>. SUFFICES ASSUME NEW i \in 1 .. Len(r), NEW j \in 1 .. Len(r), r[i] = r[j]
                  PROVE  i = j
        OBVIOUS
    <2>1. i + 1 = j + 1
        BY <1>2, <1>3, ListIs
    <2>. QED
        BY <2>1
<1>5. r \in List(S)
    BY <1>2, <1>4, ListBuilt
<1>6. \A y : y \in ToSet(r) <=> y \in ToSet(s) /\ y # s[1]
    <2>1. \A y : y \in ToSet(r) <=> \E i \in 1 .. Len(r) : r[i] = y
        BY <1>5, ListIs
    <2>2. \A y : y \in ToSet(s) <=> \E i \in 1 .. Len(s) : s[i] = y
        BY ListIs
    <2>3. \A i \in 1 .. Len(s) : i # 1 => i - 1 \in 1 .. Len(r) /\ r[i - 1] = s[i]
        BY <1>1, <1>2
    <2>4. \A i \in 1 .. Len(s) : s[i] = s[1] => i = 1
        <3>1. 1 \in 1 .. Len(s)
            BY <1>1
        <3>. QED
            BY <3>1, ListIs
    <2>. QED
        BY <1>2, <1>3, <2>1, <2>2, <2>3, <2>4
<1>. QED
    BY <1>1, <1>5, <1>6 DEF r

\* The first n elements of a list, and the rest.
LEMMA ListSplit ==
    ASSUME NEW S, NEW s \in List(S), NEW n \in 0 .. Len(s)
    PROVE  /\ SubSeq(s, 1, n) \in List(S)
           /\ ToSet(SubSeq(s, 1, n)) = {s[j] : j \in 1 .. n}
           /\ SubSeq(s, n + 1, Len(s)) \in List(S)
           /\ ToSet(SubSeq(s, n + 1, Len(s))) = ToSet(s) \ {s[j] : j \in 1 .. n}
           /\ n < Len(s) => Head(SubSeq(s, n + 1, Len(s))) = s[n + 1]
<1>. DEFINE p == SubSeq(s, 1, n)
            q == SubSeq(s, n + 1, Len(s))
            N == Len(s)
<1>1. s \in Seq(S) /\ N \in Nat /\ n \in Nat /\ n <= N
    BY ListIs
<1>a. \A i \in 1 .. N : s[i] \in S
    BY ListIs
<1>b. \A i, j \in 1 .. N : s[i] = s[j] => i = j
    BY ListIs
<1>c. \A y : y \in ToSet(s) <=> \E i \in 1 .. N : s[i] = y
    BY ListIs
<1>2. /\ p \in Seq(S) /\ Len(p) = n
      /\ \A i \in 1 .. n : p[i] = s[i]
    <2>1. \A i \in 1 .. n : s[i] \in S
        BY <1>1, <1>a
    <2>2. /\ p \in Seq(S) /\ Len(p) = IF 1 <= n THEN n - 1 + 1 ELSE 0
          /\ \A i \in 1 .. n - 1 + 1 : p[i] = s[1 + i - 1]
        BY <1>1, <2>1, SubSeqProperties
    <2>. HIDE DEF p
    <2>3. Len(p) = n /\ \A i \in 1 .. n : i \in 1 .. n - 1 + 1 /\ 1 + i - 1 = i
        BY <1>1, <2>2
    <2>. QED
        BY <2>2, <2>3
<1>3. /\ q \in Seq(S) /\ Len(q) = N - n
      /\ \A i \in 1 .. N - n : n + i \in 1 .. N /\ q[i] = s[n + i]
    <2>1. \A i \in n + 1 .. N : s[i] \in S
        BY <1>1, <1>a
    <2>2. /\ q \in Seq(S) /\ Len(q) = IF n + 1 <= N THEN N - (n + 1) + 1 ELSE 0
          /\ \A i \in 1 .. N - (n + 1) + 1 : q[i] = s[n + 1 + i - 1]
        BY <1>1, <2>1, SubSeqProperties
    <2>. HIDE DEF q, N
    <2>3. Len(q) = N - n
          /\ \A i \in 1 .. N - n : /\ i \in 1 .. N - (n + 1) + 1 /\ n + 1 + i - 1 = n + i
                                  /\ n + i \in 1 .. N
        BY <1>1, <2>2
    <2>. QED
        BY <2>2, <2>3
<1>. HIDE DEF p, q, N
<1>4. p \in List(S)
    <2>1. \A i, j \in 1 .. Len(p) : p[i] = p[j] => i = j
        BY <1>1, <1>2, <1>b
    <2>. QED
        BY <1>2, <2>1, ListBuilt
<1>5. q \in List(S)
    <2>1. \A i, j \in 1 .. Len(q) : q[i] = q[j] => i = j
        <3>. SUFFICES ASSUME NEW i \in 1 .. Len(q), NEW j \in 1 .. Len(q), q[i] = q[j]
                      PROVE  i = j
            OBVIOUS
        <3>1. n + i = n + j
            BY <1>3, <1>b
        <3>. QED
            BY <1>1, <3>1
    <2>. QED
        BY <1>3, <2>1, ListBuilt
<1>6. \A y : y \in ToSet(p) <=> y \in {s[j] : j \in 1 .. n}
    <2>1. \A y : y \in ToSet(p) <=> \E i \in 1 .. Len(p) : p[i] = y
        BY <1>4, ListIs
    <2>. QED
        BY <1>2, <2>1
<1>7. \A y : y \in ToSet(q) <=> y \in ToSet(s) /\ y \notin {s[j] : j \in 1 .. n}
    <2>1. \A y : y \in ToSet(q) <=> \E i \in 1 .. Len(q) : q[i] = y
        BY <1>5, ListIs
    <2>2. ASSUME NEW y, y \in ToSet(q)
          PROVE  y \in ToSet(s) /\ y \notin {s[j] : j \in 1 .. n}
        <3>1. PICK i \in 1 .. N - n : q[i] = y
            BY <1>3, <2>1, <2>2
        <3>2. n + i \in 1 .. N /\ y = s[n + i]
            BY <1>3, <3>1
        <3>3. \A j \in 1 .. n : j \in 1 .. N /\ j # n + i
            BY <1>1
        <3>. QED
            BY <1>b, <1>c, <3>2, <3>3
    <2>3. ASSUME NEW y, y \in ToSet(s), y \notin {s[j] : j \in 1 .. n}
          PROVE  y \in ToSet(q)
        <3>1. PICK i \in 1 .. N : s[i] = y /\ ~(i \in 1 .. n)
            BY <1>c, <2>3
        <3>2. i - n \in 1 .. N - n /\ n + (i - n) = i
            BY <1>1, <3>1
        <3>3. q[i - n] = y
            BY <1>3, <3>1, <3>2
        <3>. QED
            BY <1>3, <2>1, <3>2, <3>3
    <2>. QED
        BY <2>2, <2>3
<1>8. n < N => Head(q) = s[n + 1]
    <2>. SUFFICES ASSUME n < N PROVE Head(q) = s[n + 1]
        OBVIOUS
    <2>1. 1 \in 1 .. N - n /\ Len(q) # 0
        BY <1>1, <1>3
    <2>2. Head(q) = q[1]
        BY <1>5, <2>1, ListIs
    <2>. QED
        BY <1>3, <2>1, <2>2
<1>. QED
    BY <1>4, <1>5, <1>6, <1>7, <1>8 DEF p, q, N

LEMMA ListConcat ==
    ASSUME NEW S, NEW s \in List(S), NEW t \in List(S), ToSet(s) \cap ToSet(t) = {}
    PROVE  s \o t \in List(S) /\ ToSet(s \o t) = ToSet(s) \cup ToSet(t)
<1>. DEFINE r == s \o t
            M == Len(s)
            N == Len(t)
<1>1. s \in Seq(S) /\ t \in Seq(S) /\ M \in Nat /\ N \in Nat
    BY ListIs
<1>2. /\ r \in Seq(S) /\ Len(r) = M + N
      /\ \A i \in 1 .. M + N : r[i] = IF i <= M THEN s[i] ELSE t[i - M]
    BY <1>1, ConcatProperties
<1>a. /\ \A i, j \in 1 .. M : s[i] = s[j] => i = j
      /\ \A y : y \in ToSet(s) <=> \E i \in 1 .. M : s[i] = y
    BY ListIs
<1>b. /\ \A i, j \in 1 .. N : t[i] = t[j] => i = j
      /\ \A y : y \in ToSet(t) <=> \E i \in 1 .. N : t[i] = y
    BY ListIs
<1>. HIDE DEF r, M, N
<1>3. \A i \in 1 .. Len(r) :
          \/ i \in 1 .. M /\ r[i] = s[i] /\ r[i] \in ToSet(s)
          \/ i - M \in 1 .. N /\ r[i] = t[i - M] /\ r[i] \in ToSet(t)
    <2>. SUFFICES ASSUME NEW i \in 1 .. Len(r)
                  PROVE  \/ i \in 1 .. M /\ r[i] = s[i] /\ r[i] \in ToSet(s)
                         \/ i - M \in 1 .. N /\ r[i] = t[i - M] /\ r[i] \in ToSet(t)
        OBVIOUS
    <2>1. CASE i <= M
        <3>1. i \in 1 .. M /\ r[i] = s[i]
            BY <1>1, <1>2, <2>1
        <3>. QED
            BY <1>a, <3>1
    <2>2. CASE ~(i <= M)
        <3>1. i - M \in 1 .. N /\ r[i] = t[i - M]
            BY <1>1, <1>2, <2>2
        <3>. QED
            BY <1>b, <3>1
    <2>. QED
        BY <2>1, <2>2
<1>4. \A i, j \in 1 .. Len(r) : r[i] = r[j] => i = j
    <2>. SUFFICES ASSUME NEW i \in 1 .. Len(r), NEW j \in 1 .. Len(r), r[i] = r[j]
                  PROVE  i = j
        OBVIOUS
    <2>1. CASE r[i] \in ToSet(s)
        BY <1>3, <1>a, <2>1
    <2>2. CASE r[i] \notin ToSet(s)
        <3>1. i - M = j - M
            BY <1>3, <1>b, <2>2
        <3>. QED
            BY <1>1, <1>2, <3>1
    <2>. QED
        BY <2>1, <2>2
<1>5. r \in List(S)
    BY <1>2, <1>4, ListBuilt
<1>6. \A y : y \in ToSet(r) <=> y \in ToSet(s) \/ y \in ToSet(t)
    <2>1. \A y : y \in ToSet(r) <=> \E i \in 1 .. Len(r) : r[i] = y
        BY <1>5, ListIs
    <2>2. \A i \in 1 .. M : i \in 1 .. Len(r) /\ r[i] = s[i]
        BY <1>1, <1>2
    <2>3. \A i \in 1 .. N : i + M \in 1 .. Len(r) /\ r[i + M] = t[i]
        BY <1>1, <1>2
    <2>. QED
        BY <1>3, <1>a, <1>b, <2>1, <2>2, <2>3
<1>. QED
    BY <1>5, <1>6 DEF r

\* SH_TAILQ_REMOVE.
LEMMA ListRemove ==
    ASSUME NEW S, NEW s \in List(S), NEW x
    PROVE  /\ RemoveFirst(s, x) \in List(S)
           /\ ToSet(RemoveFirst(s, x)) = ToSet(s) \ {x}
<1>. DEFINE N == Len(s)
<1>1. s \in Seq(S) /\ N \in Nat
    BY ListIs
<1>a. /\ \A i, j \in 1 .. N : s[i] = s[j] => i = j
      /\ \A y : y \in ToSet(s) <=> \E i \in 1 .. N : s[i] = y
    BY ListIs
<1>2. CASE x \notin ToSet(s)
    <2>1. ~ \E i \in 1 .. Len(s) : s[i] = x
        BY <1>2, <1>a
    <2>2. RemoveFirst(s, x) = s
        BY <2>1 DEF RemoveFirst
    <2>. QED
        BY <1>2, <2>2
<1>3. CASE x \in ToSet(s)
    <2>1. PICK k \in 1 .. N : s[k] = x
        BY <1>3, <1>a
    <2>2. {i \in 1 .. Len(s) : s[i] = x} = {k}
        BY <1>a, <2>1
    <2>3. Min({k}) = k
        BY <1>1, <2>1 DEF Min
    <2>4. SelectInSeq(s, LAMBDA v : v = x) = k
        BY <2>2, <2>3 DEF SelectInSeq
    <2>5. RemoveFirst(s, x) = SubSeq(s, 1, k - 1) \o SubSeq(s, k + 1, Len(s))
        BY <2>1, <2>4 DEF RemoveFirst, RemoveAt
    <2>6. k - 1 \in 0 .. Len(s) /\ k \in 0 .. Len(s)
        BY <1>1, <2>1
    <2>. DEFINE p == SubSeq(s, 1, k - 1)
                q == SubSeq(s, k + 1, Len(s))
    <2>7. p \in List(S) /\ ToSet(p) = {s[j] : j \in 1 .. k - 1}
        <3>1. PICK n \in 0 .. Len(s) : n = k - 1
            BY <2>6
        <3>2. SubSeq(s, 1, n) \in List(S) /\ ToSet(SubSeq(s, 1, n)) = {s[j] : j \in 1 .. n}
            BY ListSplit
        <3>. QED
            BY <3>1, <3>2
    <2>8. q \in List(S) /\ ToSet(q) = ToSet(s) \ {s[j] : j \in 1 .. k}
        BY <2>6, ListSplit
    <2>. HIDE DEF p, q
    <2>9. \A j : j \in 1 .. k <=> j \in 1 .. k - 1 \/ j = k
        BY <1>1, <2>1
    <2>10. \A j \in 1 .. k - 1 : j \in 1 .. N /\ j # k
        BY <1>1, <2>1
    <2>11. {s[j] : j \in 1 .. k - 1} \subseteq ToSet(s) \ {x}
        BY <1>a, <2>1, <2>10
    <2>12. ToSet(q) = (ToSet(s) \ {x}) \ {s[j] : j \in 1 .. k - 1}
        BY <2>1, <2>8, <2>9
    <2>13. p \o q \in List(S) /\ ToSet(p \o q) = ToSet(p) \cup ToSet(q)
        BY <2>7, <2>8, <2>12, ListConcat
    <2>. QED
        BY <2>5, <2>7, <2>11, <2>12, <2>13 DEF p, q
<1>. QED
    BY <1>2, <1>3

-----------------------------------------------------------------------------
(***************************************************************************)
(* The inductive invariant                                                 *)
(***************************************************************************)
LockTypes ==
    /\ lock \in [LockId -> Lock]
    /\ holders \in [Object -> List(LockId)]
    /\ waiters \in [Object -> List(LockId)]
    /\ heldby  \in [Locker -> List(LockId)]
    /\ woken   \in [Locker -> BOOLEAN]
    /\ pc      \in [Locker -> Places]

Granted == {"HELD", "PENDING"}              \* among the holders
Settled == {"PENDING", "ABORTED"}           \* its locker must be woken
Open    == {"WAITING", "PENDING", "ABORTED"}

\* The object and the status of a lock say which list of the object it is on;
\* its status says whether its locker has it.
HoldersTell ==
    \A o \in Object, i \in LockId :
        i \in ToSet(holders[o]) <=> lock[i].obj = o /\ lock[i].status \in Granted
WaitersTell ==
    \A o \in Object, i \in LockId :
        i \in ToSet(waiters[o]) <=> lock[i].obj = o /\ lock[i].status = "WAITING"
HeldTell ==
    \A i \in LockId :
        /\ lock[i].status # "FREE" => lock[i].obj \in Object
        /\ \A l \in Locker :
              i \in ToSet(heldby[l]) <=> Holder(i) = l /\ lock[i].status # "FREE"

\* A locker has one request open at most, its latest, and does nothing but
\* look for deadlocks before it sleeps.
Latest ==
    \A i \in LockId : lock[i].status \in Open =>
        /\ i = Head(heldby[Holder(i)])
        /\ pc[Holder(i)] \in {"sleep", "detect", "build", "kill"}

\* Blocks, for locks as they are in k.
Clash(k, h, i) == Holder(h) # Holder(i) /\ Conflicts(k[h].mode, k[i].mode)

Compatible ==
    \A o \in Object : \A g, h \in ToSet(holders[o]) : ~Clash(lock, g, h)

InTheWay ==
    \A o \in Object : waiters[o] # <<>> =>
        \E h \in ToSet(holders[o]) : Clash(lock, h, Head(waiters[o]))

WokenTells ==
    \A l \in Locker : woken[l] <=>
        \E i \in LockId : Holder(i) = l /\ lock[i].status \in Settled

\* What lists and locks say of each other.
ListsTell == HoldersTell /\ WaitersTell /\ HeldTell

LockInv == LockTypes /\ ListsTell /\ Latest /\ Compatible /\ InTheWay /\ WokenTells

-----------------------------------------------------------------------------
LEMMA LockIdIs == \A i \in LockId : Holder(i) \in Locker
BY DEF LockId, Holder

LEMMA Unused ==
    Free \in Lock /\ Free.status = "FREE" /\ Free.mode = "READ" /\ Free.obj = NoObject
BY DEF Free, Lock, Mode, Status

LEMMA GoesIs ==
    ASSUME LockTypes, NEW l \in Locker, NEW place \in Places, Goes(l, place)
    PROVE  /\ pc' \in [Locker -> Places]
           /\ \A u \in Locker : pc'[u] = IF u = l THEN place ELSE pc[u]
BY DEF LockTypes, Goes

LEMMA ClashSym ==
    ASSUME NEW k, NEW g, NEW h PROVE Clash(k, g, h) <=> Clash(k, h, g)
BY DEF Clash, Conflicts

\* A locker that is not waiting has no request open.
LEMMA NoneOpen ==
    ASSUME LockInv, NEW l \in Locker, pc[l] \in {"run", "abort", "putall"}
    PROVE  /\ ~woken[l]
           /\ \A i \in LockId : Holder(i) = l => lock[i].status \notin Open
           /\ \A i \in ToSet(heldby[l]) : i \in LockId /\ lock[i].status = "HELD"
<1>1. \A i \in LockId : Holder(i) = l => lock[i].status \notin Open
    BY DEF LockInv, Latest
<1>2. ~woken[l]
    BY <1>1 DEF LockInv, WokenTells, Settled, Open
<1>3. heldby[l] \in List(LockId)
    BY DEF LockInv, LockTypes
<1>4. \A i \in ToSet(heldby[l]) : i \in LockId /\ Holder(i) = l /\ lock[i].status # "FREE"
    BY <1>3, ListIs DEF LockInv, ListsTell, HeldTell
<1>5. \A i \in LockId : lock[i].status \in Status
    BY DEF LockInv, LockTypes, Lock
<1>. QED
    BY <1>1, <1>2, <1>4, <1>5 DEF Status, Open

-----------------------------------------------------------------------------
\* What __lock_promote leaves: G are the locks it grants.
Promoted(o, k, H, W, extra, G) ==
    /\ G \subseteq ToSet(W)
    /\ holders' \in [Object -> List(LockId)] /\ ToSet(holders'[o]) = ToSet(H) \cup G
    /\ waiters' \in [Object -> List(LockId)] /\ ToSet(waiters'[o]) = ToSet(W) \ G
    /\ \A x \in Object : x # o => holders'[x] = holders[x] /\ waiters'[x] = waiters[x]
    /\ lock' \in [LockId -> Lock]
    /\ \A i \in LockId :
          lock'[i] = IF i \in G THEN [k[i] EXCEPT !.status = "PENDING"] ELSE k[i]
    /\ woken' \in [Locker -> BOOLEAN]
    /\ \A l \in Locker :
          woken'[l] <=> woken[l] \/ l \in extra \/ \E i \in G : Holder(i) = l
    /\ \A g \in G, h \in ToSet(H) \cup G : ~Clash(k, h, g)
    /\ waiters'[o] # <<>> =>
          \E h \in ToSet(H) \cup G : Clash(k, h, Head(waiters'[o]))

LEMMA PromoteIs ==
    ASSUME LockTypes, NEW o \in Object, NEW k \in [LockId -> Lock],
           NEW H \in List(LockId), NEW W \in List(LockId), ToSet(H) \cap ToSet(W) = {},
           NEW extra, Promote(o, k, H, W, extra)
    PROVE  \E G \in SUBSET LockId : Promoted(o, k, H, W, extra, G)
<1>. DEFINE Before(n) == ToSet(H) \cup {W[j] : j \in 1 .. (n - 1)}
            N == Len(W)
<1>1. PICK n \in 0 .. N :
          /\ \A j \in 1 .. n : \A h \in Before(j) :
                Holder(h) = Holder(W[j]) \/ ~Conflicts(k[h].mode, k[W[j]].mode)
          /\ n < N => ~ \A h \in Before(n + 1) :
                \/ Holder(h) = Holder(W[n + 1])
                \/ ~Conflicts(k[h].mode, k[W[n + 1]].mode)
          /\ holders' = [holders EXCEPT ![o] = H \o SubSeq(W, 1, n)]
          /\ waiters' = [waiters EXCEPT ![o] = SubSeq(W, n + 1, Len(W))]
          /\ lock' = [i \in LockId |-> IF \E j \in 1 .. n : i = W[j]
                                       THEN [k[i] EXCEPT !.status = "PENDING"]
                                       ELSE k[i]]
          /\ woken' = [l \in Locker |-> \/ woken[l] \/ l \in extra
                                        \/ \E j \in 1 .. n : l = Holder(W[j])]
    BY DEF Promote
<1>. DEFINE G == {W[j] : j \in 1 .. n}
<1>2. N \in Nat /\ n \in Nat /\ n <= N
    BY ListIs
<1>3. \A j \in 1 .. n : j \in 1 .. N /\ W[j] \in ToSet(W) /\ W[j] \in LockId
    BY <1>2, ListIs
<1>4. /\ SubSeq(W, 1, n) \in List(LockId) /\ ToSet(SubSeq(W, 1, n)) = G
      /\ SubSeq(W, n + 1, Len(W)) \in List(LockId)
      /\ ToSet(SubSeq(W, n + 1, Len(W))) = ToSet(W) \ G
      /\ n < Len(W) => Head(SubSeq(W, n + 1, Len(W))) = W[n + 1]
    BY ListSplit
<1>5. G \in SUBSET LockId /\ G \subseteq ToSet(W)
    BY <1>3
<1>6. /\ H \o SubSeq(W, 1, n) \in List(LockId)
      /\ ToSet(H \o SubSeq(W, 1, n)) = ToSet(H) \cup G
    BY <1>4, <1>5, ListConcat
<1>7. /\ holders' \in [Object -> List(LockId)] /\ holders'[o] = H \o SubSeq(W, 1, n)
      /\ waiters' \in [Object -> List(LockId)] /\ waiters'[o] = SubSeq(W, n + 1, Len(W))
      /\ \A x \in Object : x # o => holders'[x] = holders[x] /\ waiters'[x] = waiters[x]
    BY <1>1, <1>4, <1>6 DEF LockTypes
<1>8. \A j \in 1 .. n : \A h \in Before(j) : ~Clash(k, h, W[j])
    BY <1>1 DEF Clash
<1>9. n < N => \E h \in Before(n + 1) : Clash(k, h, W[n + 1])
    BY <1>1 DEF Clash
<1>10. Before(n + 1) = ToSet(H) \cup G
    <2>1. (n + 1) - 1 = n
        BY <1>2
    <2>. QED
        BY <2>1
<1>11. \A g \in G, h \in ToSet(H) \cup G : ~Clash(k, h, g)
    <2>. SUFFICES ASSUME NEW a \in 1 .. n, NEW h \in ToSet(H) \cup G
                  PROVE  ~Clash(k, h, W[a])
        OBVIOUS
    <2>1. CASE h \in ToSet(H)
        <3>1. h \in Before(a)
            BY <2>1
        <3>. QED
            BY <1>8, <3>1
    <2>2. CASE h \in G
        <3>1. PICK b \in 1 .. n : h = W[b]
            BY <2>2
        <3>2. CASE b < a
            <4>1. b \in 1 .. (a - 1)
                BY <1>2, <3>2
            <4>2. h \in Before(a)
                BY <3>1, <4>1
            <4>. QED
                BY <1>8, <4>2
        <3>3. CASE a < b
            <4>1. a \in 1 .. (b - 1)
                BY <1>2, <3>3
            <4>2. W[a] \in Before(b)
                BY <4>1
            <4>3. ~Clash(k, W[a], W[b])
                BY <1>8, <4>2
            <4>. QED
                BY <3>1, <4>3, ClashSym
        <3>4. CASE a = b
            BY <3>1, <3>4 DEF Clash
        <3>. QED
            BY <1>2, <3>2, <3>3, <3>4
    <2>. QED
        BY <2>1, <2>2
<1>12. waiters'[o] # <<>> => \E h \in ToSet(H) \cup G : Clash(k, h, Head(waiters'[o]))
    <2>. SUFFICES ASSUME waiters'[o] # <<>>
                  PROVE  \E h \in ToSet(H) \cup G : Clash(k, h, Head(waiters'[o]))
        OBVIOUS
    <2>1. ToSet(W) # G
        <3>1. PICK q \in List(LockId) : q = waiters'[o] /\ ToSet(q) = ToSet(W) \ G /\ q # <<>>
            BY <1>4, <1>7
        <3>2. ToSet(q) # {}
            BY <3>1, ListIs
        <3>. QED
            BY <3>1, <3>2
    <2>2. n # N
        <3>1. \A y : y \in ToSet(W) <=> \E i \in 1 .. N : W[i] = y
            BY ListIs
        <3>. QED
            BY <2>1, <3>1
    <2>3. n < N /\ Head(waiters'[o]) = W[n + 1]
        BY <1>2, <1>4, <1>7, <2>2
    <2>. QED
        BY <1>9, <1>10, <2>3
<1>13. /\ lock' \in [LockId -> Lock]
       /\ \A i \in LockId :
             lock'[i] = IF i \in G THEN [k[i] EXCEPT !.status = "PENDING"] ELSE k[i]
    BY <1>1 DEF Lock, Status
<1>14. /\ woken' \in [Locker -> BOOLEAN]
       /\ \A l \in Locker :
             woken'[l] <=> woken[l] \/ l \in extra \/ \E i \in G : Holder(i) = l
    <2>1. woken' = [l \in Locker |-> \/ woken[l] \/ l \in extra
                                     \/ \E j \in 1 .. n : l = Holder(W[j])]
        BY <1>1
    <2>2. \A l \in Locker : woken[l] \in BOOLEAN
        BY DEF LockTypes
    <2>3. \A l \in Locker :
              woken'[l] <=> woken[l] \/ l \in extra \/ \E j \in 1 .. n : l = Holder(W[j])
        BY <2>1, Zenon
    <2>4. woken' \in [Locker -> BOOLEAN]
        BY <2>1, <2>2, Zenon
    <2>. QED
        BY <2>3, <2>4
<1>. HIDE DEF G
<1>15. Promoted(o, k, H, W, extra, G)
    BY <1>4, <1>5, <1>6, <1>7, <1>11, <1>12, <1>13, <1>14 DEF Promoted
<1>. QED
    BY <1>5, <1>15

-----------------------------------------------------------------------------
(***************************************************************************)
(* One lock changes, its object's waiters are promoted                     *)
(***************************************************************************)

\* What a release, a downgrade or an abort makes of lock i of object o before
\* __lock_promote: k are the locks, H and W what they say are o's lists.
Ready(i, o, k, H, W) ==
    /\ i \in LockId /\ o \in Object /\ lock[i].obj = o
    /\ k \in [LockId -> Lock]
    /\ \A j \in LockId : j # i => k[j] = lock[j]
    /\ k[i].mode \in {lock[i].mode, "READ"}
    /\ k[i].status # "FREE" => k[i].obj = o
    /\ H \in List(LockId) /\ W \in List(LockId)
    /\ ToSet(H) \subseteq ToSet(holders[o])
    /\ \A j \in LockId : j \in ToSet(H) <=> k[j].obj = o /\ k[j].status \in Granted
    /\ \A j \in LockId : j \in ToSet(W) <=> k[j].obj = o /\ k[j].status = "WAITING"

\* Granting more makes nobody lose what he has, and weaker modes clash less.
LEMMA ClashWeaker ==
    ASSUME LockTypes, NEW i, NEW o, NEW k, NEW H, NEW W, Ready(i, o, k, H, W),
           NEW g \in LockId, NEW h \in LockId, Clash(k, g, h)
    PROVE  Clash(lock, g, h)
BY DEF Ready, Clash, Conflicts, LockTypes, Lock, Mode

LEMMA PromoteStep ==
    ASSUME LockTypes, HoldersTell, WaitersTell, Compatible, InTheWay,
           NEW i, NEW o, NEW k, NEW H, NEW W, Ready(i, o, k, H, W), NEW extra,
           NEW G \in SUBSET LockId, Promoted(o, k, H, W, extra, G)
    PROVE  /\ HoldersTell' /\ WaitersTell' /\ Compatible' /\ InTheWay'
           /\ \A j \in LockId : lock'[j].obj = k[j].obj /\ lock'[j].mode = k[j].mode
           /\ \A j \in G : k[j].status = "WAITING" /\ lock'[j].status = "PENDING"
           /\ \A j \in LockId \ G : lock'[j] = k[j]
<1>a. /\ i \in LockId /\ o \in Object /\ lock[i].obj = o
      /\ \A j \in LockId : j # i => k[j] = lock[j]
      /\ k[i].status # "FREE" => k[i].obj = o
      /\ ToSet(H) \subseteq ToSet(holders[o])
      /\ \A j \in LockId : j \in ToSet(H) <=> k[j].obj = o /\ k[j].status \in Granted
      /\ \A j \in LockId : j \in ToSet(W) <=> k[j].obj = o /\ k[j].status = "WAITING"
      /\ k \in [LockId -> Lock]
    BY DEF Ready
<1>b. /\ G \subseteq ToSet(W)
      /\ ToSet(holders'[o]) = ToSet(H) \cup G
      /\ ToSet(waiters'[o]) = ToSet(W) \ G
      /\ \A x \in Object : x # o => holders'[x] = holders[x] /\ waiters'[x] = waiters[x]
      /\ \A j \in LockId :
            lock'[j] = IF j \in G THEN [k[j] EXCEPT !.status = "PENDING"] ELSE k[j]
      /\ \A g \in G, h \in ToSet(H) \cup G : ~Clash(k, h, g)
      /\ waiters'[o] # <<>> =>
            \E h \in ToSet(H) \cup G : Clash(k, h, Head(waiters'[o]))
    BY DEF Promoted
<1>1. \A j \in G : k[j].status = "WAITING" /\ k[j].obj = o
    BY <1>a, <1>b
<1>2. \A j \in LockId : /\ lock'[j].obj = k[j].obj /\ lock'[j].mode = k[j].mode
                        /\ lock'[j].status = IF j \in G THEN "PENDING" ELSE k[j].status
                        /\ j \notin G => lock'[j] = k[j]
    <2>. SUFFICES ASSUME NEW j \in LockId
                  PROVE  /\ lock'[j].obj = k[j].obj /\ lock'[j].mode = k[j].mode
                         /\ lock'[j].status = IF j \in G THEN "PENDING" ELSE k[j].status
                         /\ j \notin G => lock'[j] = k[j]
        OBVIOUS
    <2>1. k[j] \in Lock
        BY <1>a
    <2>2. CASE j \in G
        <3>1. lock'[j] = [k[j] EXCEPT !.status = "PENDING"]
            BY <1>b, <2>2
        <3>. QED
            BY <2>1, <2>2, <3>1 DEF Lock
    <2>3. CASE j \notin G
        BY <1>b, <2>3
    <2>. QED
        BY <2>2, <2>3
<1>4. \A g, h \in LockId : Clash(lock', g, h) <=> Clash(k, g, h)
    BY <1>2 DEF Clash
<1>5. HoldersTell'
    <2>. SUFFICES ASSUME NEW x \in Object, NEW j \in LockId
                  PROVE  j \in ToSet(holders'[x])
                            <=> lock'[j].obj = x /\ lock'[j].status \in Granted
        BY DEF HoldersTell
    <2>1. CASE x = o
        BY <1>a, <1>b, <1>1, <1>2, <2>1 DEF Granted
    <2>2. CASE x # o
        <3>1. j \in ToSet(holders[x]) <=> lock[j].obj = x /\ lock[j].status \in Granted
            BY DEF HoldersTell
        <3>2. CASE j = i
            BY <1>a, <1>b, <1>1, <1>2, <2>2, <3>1, <3>2 DEF Granted
        <3>3. CASE j # i
            BY <1>a, <1>b, <1>1, <1>2, <2>2, <3>1, <3>3 DEF Granted
        <3>. QED
            BY <3>2, <3>3
    <2>. QED
        BY <2>1, <2>2
<1>6. WaitersTell'
    <2>. SUFFICES ASSUME NEW x \in Object, NEW j \in LockId
                  PROVE  j \in ToSet(waiters'[x])
                            <=> lock'[j].obj = x /\ lock'[j].status = "WAITING"
        BY DEF WaitersTell
    <2>1. CASE x = o
        BY <1>a, <1>b, <1>1, <1>2, <2>1
    <2>2. CASE x # o
        <3>1. j \in ToSet(waiters[x]) <=> lock[j].obj = x /\ lock[j].status = "WAITING"
            BY DEF WaitersTell
        <3>2. CASE j = i
            BY <1>a, <1>b, <1>1, <1>2, <2>2, <3>1, <3>2
        <3>3. CASE j # i
            BY <1>a, <1>b, <1>1, <1>2, <2>2, <3>1, <3>3
        <3>. QED
            BY <3>2, <3>3
    <2>. QED
        BY <2>1, <2>2
<1>c. \A x \in Object : /\ holders[x] \in List(LockId) /\ waiters[x] \in List(LockId)
                        /\ ToSet(holders[x]) \in SUBSET LockId
    BY ListIs DEF LockTypes
\* The locks on the lists of other objects are as they were.
<1>7. \A x \in Object : x # o =>
          /\ \A j \in ToSet(holders[x]) : j \in LockId /\ lock'[j].mode = lock[j].mode
          /\ waiters[x] # <<>> => /\ Head(waiters[x]) \in LockId
                                  /\ lock'[Head(waiters[x])].mode = lock[Head(waiters[x])].mode
    <2>. SUFFICES ASSUME NEW x \in Object, x # o
                  PROVE  /\ \A j \in ToSet(holders[x]) : j \in LockId /\ lock'[j].mode = lock[j].mode
                         /\ waiters[x] # <<>> =>
                               /\ Head(waiters[x]) \in LockId
                               /\ lock'[Head(waiters[x])].mode = lock[Head(waiters[x])].mode
        OBVIOUS
    <2>1. \A j \in ToSet(holders[x]) : j \in LockId /\ lock[j].obj = x
        BY <1>c DEF HoldersTell
    <2>2. waiters[x] # <<>> => /\ Head(waiters[x]) \in LockId
                               /\ lock[Head(waiters[x])].obj = x
        <3>1. waiters[x] # <<>> => Head(waiters[x]) \in ToSet(waiters[x])
                                   /\ Head(waiters[x]) \in LockId
            BY <1>c, ListIs
        <3>. QED
            BY <3>1 DEF WaitersTell
    <2>3. \A j \in LockId : lock[j].obj = x => j # i /\ lock'[j].mode = lock[j].mode
        BY <1>a, <1>2
    <2>. QED
        BY <2>1, <2>2, <2>3
<1>8. Compatible'
    <2>. SUFFICES ASSUME NEW x \in Object, NEW g \in ToSet(holders'[x]), NEW h \in ToSet(holders'[x]),
                         Clash(lock', g, h)
                  PROVE  FALSE
        BY DEF Compatible
    <2>1. CASE x = o
        <3>1. g \in ToSet(H) \cup G /\ h \in ToSet(H) \cup G /\ g \in LockId /\ h \in LockId
            BY <1>a, <1>b, <1>c, <2>1
        <3>2. Clash(k, g, h) /\ Clash(k, h, g)
            BY <1>4, <3>1, ClashSym
        <3>3. g \notin G /\ h \notin G
            BY <1>b, <3>1, <3>2
        <3>4. Clash(lock, g, h)
            BY <3>1, <3>2, ClashWeaker
        <3>. QED
            BY <1>a, <3>1, <3>3, <3>4 DEF Compatible
    <2>2. CASE x # o
        <3>1. g \in ToSet(holders[x]) /\ h \in ToSet(holders[x])
            BY <1>b, <2>2
        <3>2. Clash(lock, g, h)
            BY <1>7, <2>2, <3>1 DEF Clash
        <3>. QED
            BY <3>1, <3>2 DEF Compatible
    <2>. QED
        BY <2>1, <2>2
<1>9. InTheWay'
    <2>. SUFFICES ASSUME NEW x \in Object, waiters'[x] # <<>>
                  PROVE  \E h \in ToSet(holders'[x]) : Clash(lock', h, Head(waiters'[x]))
        BY DEF InTheWay
    <2>1. CASE x = o
        <3>1. PICK h \in ToSet(H) \cup G : Clash(k, h, Head(waiters'[o]))
            BY <1>b, <2>1
        <3>2. h \in LockId
            BY <1>a, <1>c, <3>1
        <3>3. Head(waiters'[o]) \in LockId
            <4>1. waiters'[o] \in List(LockId)
                BY <1>a DEF Promoted
            <4>. QED
                BY <2>1, <4>1, ListIs
        <3>. QED
            BY <1>4, <1>b, <2>1, <3>1, <3>2, <3>3
    <2>2. CASE x # o
        <3>1. waiters'[x] = waiters[x] /\ holders'[x] = holders[x]
            BY <1>b, <2>2
        <3>2. PICK h \in ToSet(holders[x]) : Clash(lock, h, Head(waiters[x]))
            BY <3>1 DEF InTheWay
        <3>3. Clash(lock', h, Head(waiters[x]))
            BY <1>7, <2>2, <3>1, <3>2 DEF Clash
        <3>. QED
            BY <3>1, <3>3
    <2>. QED
        BY <2>1, <2>2
<1>. QED
    BY <1>1, <1>2, <1>5, <1>6, <1>8, <1>9

\* What is left to show of such a step.
LEMMA Onward ==
    ASSUME LockInv,
           NEW i, NEW o, NEW k, NEW H, NEW W, Ready(i, o, k, H, W), NEW extra,
           NEW G \in SUBSET LockId, Promoted(o, k, H, W, extra, G),
           lock[i].status \notin Settled, k[i].status # "PENDING",
           \A u \in Locker : u \in extra <=> u = Holder(i) /\ k[i].status = "ABORTED",
           heldby' \in [Locker -> List(LockId)], pc' \in [Locker -> Places],
           \A u \in Locker, j \in LockId :
               j \in ToSet(heldby'[u]) <=> Holder(j) = u /\ k[j].status # "FREE",
           \A j \in LockId : k[j].status \in Open =>
               /\ j = Head(heldby'[Holder(j)])
               /\ pc'[Holder(j)] \in {"sleep", "detect", "build", "kill"}
    PROVE  LockInv'
<1>a. /\ LockTypes /\ HoldersTell /\ WaitersTell /\ HeldTell /\ Latest
      /\ Compatible /\ InTheWay /\ WokenTells
    BY DEF LockInv, ListsTell
<1>b. /\ HoldersTell' /\ WaitersTell' /\ Compatible' /\ InTheWay'
      /\ \A j \in LockId : lock'[j].obj = k[j].obj
      /\ \A j \in G : k[j].status = "WAITING" /\ lock'[j].status = "PENDING"
      /\ \A j \in LockId \ G : lock'[j] = k[j]
    BY <1>a, PromoteStep
<1>c. /\ i \in LockId /\ o \in Object
      /\ \A j \in LockId : j # i => k[j] = lock[j]
      /\ k[i].status # "FREE" => k[i].obj = o
    BY DEF Ready
<1>1. LockTypes'
    BY DEF Promoted, LockTypes
<1>2. \A j \in LockId : lock'[j].status = IF j \in G THEN "PENDING" ELSE k[j].status
    BY <1>b
<1>3. HeldTell'
    <2>1. \A j \in LockId : lock'[j].status # "FREE" <=> k[j].status # "FREE"
        BY <1>b, <1>2
    <2>2. \A j \in LockId : k[j].status # "FREE" => k[j].obj \in Object
        BY <1>a, <1>c DEF HeldTell
    <2>. QED
        BY <1>b, <2>1, <2>2 DEF HeldTell
<1>4. Latest'
    <2>1. \A j \in LockId : lock'[j].status \in Open => k[j].status \in Open
        BY <1>b, <1>2 DEF Open
    <2>. QED
        BY <2>1 DEF Latest
<1>5. WokenTells'
    <2>. SUFFICES ASSUME NEW u \in Locker
                  PROVE  woken'[u] <=>
                             \E j \in LockId : Holder(j) = u /\ lock'[j].status \in Settled
        BY DEF WokenTells
    <2>1. woken'[u] <=> \/ \E j \in LockId : Holder(j) = u /\ lock[j].status \in Settled
                        \/ u = Holder(i) /\ k[i].status = "ABORTED"
                        \/ \E j \in G : Holder(j) = u
        BY <1>a DEF Promoted, WokenTells
    <2>2. \A j \in LockId : lock'[j].status \in Settled <=>
              \/ lock[j].status \in Settled
              \/ j = i /\ k[i].status = "ABORTED"
              \/ j \in G
        <3>. SUFFICES ASSUME NEW j \in LockId
                      PROVE  lock'[j].status \in Settled <=>
                                 \/ lock[j].status \in Settled
                                 \/ j = i /\ k[i].status = "ABORTED"
                                 \/ j \in G
            OBVIOUS
        <3>1. CASE j \in G
            BY <1>2, <3>1 DEF Settled
        <3>2. CASE j \notin G /\ j = i
            BY <1>2, <3>2 DEF Settled
        <3>3. CASE j \notin G /\ j # i
            BY <1>2, <1>c, <3>3
        <3>. QED
            BY <3>1, <3>2, <3>3
    <2>. QED
        BY <1>c, <2>1, <2>2
<1>. QED
    BY <1>1, <1>3, <1>4, <1>5, <1>b DEF LockInv, ListsTell

-----------------------------------------------------------------------------
(***************************************************************************)
(* The steps                                                               *)
(***************************************************************************)

\* Steps that grant, release and settle nothing.
LEMMA SameLocks ==
    ASSUME LockInv, lock' \in [LockId -> Lock], pc' \in [Locker -> Places],
           \A j \in LockId : /\ lock'[j].obj = lock[j].obj /\ lock'[j].mode = lock[j].mode
                             /\ lock'[j].status = lock[j].status,
           UNCHANGED <<holders, waiters, heldby, woken>>,
           \A j \in LockId : lock[j].status \in Open =>
               pc'[Holder(j)] \in {"sleep", "detect", "build", "kill"}
    PROVE  LockInv'
<1>a. /\ LockTypes /\ HoldersTell /\ WaitersTell /\ HeldTell /\ Latest
      /\ Compatible /\ InTheWay /\ WokenTells
    BY DEF LockInv, ListsTell
<1>1. LockTypes'
    BY <1>a DEF LockTypes
<1>2. HoldersTell' /\ WaitersTell' /\ HeldTell'
    BY <1>a DEF HoldersTell, WaitersTell, HeldTell
<1>3. Latest' /\ WokenTells'
    BY <1>a DEF Latest, WokenTells
<1>4. \A g, h \in LockId : Clash(lock', g, h) <=> Clash(lock, g, h)
    BY DEF Clash
<1>5. \A x \in Object : /\ ToSet(holders[x]) \in SUBSET LockId
                        /\ waiters[x] # <<>> => Head(waiters[x]) \in LockId
    <2>1. \A x \in Object : holders[x] \in List(LockId) /\ waiters[x] \in List(LockId)
        BY <1>a DEF LockTypes
    <2>. QED
        BY <2>1, ListIs
<1>6. Compatible'
    BY <1>a, <1>4, <1>5 DEF Compatible
<1>7. InTheWay'
    BY <1>a, <1>4, <1>5 DEF InTheWay
<1>. QED
    BY <1>1, <1>2, <1>3, <1>6, <1>7 DEF LockInv, ListsTell

\* Where the detector leaves its locker.
LEMMA DetectorGoes ==
    ASSUME LockInv, NEW l \in Locker, NEW place,
           place \in {"build", "kill"} \/ place = Resume(l), Goes(l, place)
    PROVE  /\ pc' \in [Locker -> Places]
           /\ \A j \in LockId : lock[j].status \in Open =>
                  pc'[Holder(j)] \in {"sleep", "detect", "build", "kill"}
<1>1. LockTypes /\ Latest /\ HeldTell
    BY DEF LockInv, ListsTell
<1>2. place \in Places
    BY DEF Resume, Places
<1>3. /\ pc' \in [Locker -> Places]
      /\ \A u \in Locker : pc'[u] = IF u = l THEN place ELSE pc[u]
    BY <1>1, <1>2, GoesIs
<1>. SUFFICES ASSUME NEW j \in LockId, lock[j].status \in Open
              PROVE  pc'[Holder(j)] \in {"sleep", "detect", "build", "kill"}
    BY <1>3
<1>4. CASE Holder(j) = l
    <2>1. j = Head(heldby[l]) /\ lock[j].status # "HELD"
        BY <1>1, <1>4 DEF Latest, Open
    <2>2. heldby[l] # <<>>
        <3>1. j \in ToSet(heldby[l]) /\ heldby[l] \in List(LockId)
            BY <1>1, <1>4 DEF HeldTell, Open, LockTypes
        <3>. QED
            BY <3>1, ListIs
    <2>3. Resume(l) = "sleep"
        BY <2>1, <2>2 DEF Resume
    <2>. QED
        BY <1>3, <1>4, <2>3
<1>5. CASE Holder(j) # l
    BY <1>1, <1>3, <1>5, LockIdIs DEF Latest
<1>. QED
    BY <1>4, <1>5

\* ... and where a step leaves a locker that has no request open.
LEMMA RunnerGoes ==
    ASSUME LockInv, NEW l \in Locker, pc[l] \in {"run", "abort", "putall"},
           NEW place \in Places, Goes(l, place)
    PROVE  /\ pc' \in [Locker -> Places]
           /\ \A u \in Locker : u # l => pc'[u] = pc[u]
           /\ \A j \in LockId : lock[j].status \in Open =>
                  /\ Holder(j) # l
                  /\ pc'[Holder(j)] \in {"sleep", "detect", "build", "kill"}
<1>1. LockTypes /\ Latest
    BY DEF LockInv
<1>2. /\ pc' \in [Locker -> Places]
      /\ \A u \in Locker : pc'[u] = IF u = l THEN place ELSE pc[u]
    BY <1>1, GoesIs
<1>3. \A j \in LockId : lock[j].status \in Open => Holder(j) # l
    BY NoneOpen
<1>. QED
    BY <1>1, <1>2, <1>3, LockIdIs DEF Latest

LEMMA AfterPutIs == AfterPut \in {"detect", "run"}
BY DEF AfterPut

LEMMA QuietStep ==
    ASSUME LockInv, NEW l \in Locker,
           \/ DetectStart(l) \/ BuildStart(l) \/ BuildAgain(l) \/ BuildObject(l)
           \/ BuildEnd(l) \/ AlreadyAborted(l) \/ PutNone(l) \/ UNCHANGED vars
    PROVE  LockInv'
<1>a. LockTypes /\ Latest
    BY DEF LockInv
<1>1. UNCHANGED <<lock, holders, waiters, heldby, woken>>
    BY DEF DetectStart, BuildStart, BuildAgain, BuildObject, BuildEnd, AlreadyAborted, PutNone,
           lists, vars
<1>2. lock' \in [LockId -> Lock]
    BY <1>a, <1>1 DEF LockTypes
<1>3. /\ pc' \in [Locker -> Places]
      /\ \A j \in LockId : lock[j].status \in Open =>
             pc'[Holder(j)] \in {"sleep", "detect", "build", "kill"}
    <2>1. CASE BuildStart(l) \/ BuildAgain(l) \/ BuildObject(l) \/ UNCHANGED vars
        <3>1. pc' = pc
            BY <2>1 DEF BuildStart, BuildAgain, BuildObject, vars
        <3>. QED
            BY <1>a, <3>1 DEF LockTypes, Latest
    <2>2. CASE DetectStart(l)
        <3>1. PICK place : /\ place \in {"build", "kill"} \/ place = Resume(l)
                           /\ Goes(l, place)
            BY <2>2 DEF DetectStart
        <3>. QED
            BY <3>1, DetectorGoes
    <2>3. CASE BuildEnd(l)
        <3>1. PICK place : /\ place \in {"build", "kill"} \/ place = Resume(l)
                           /\ Goes(l, place)
            BY <2>3 DEF BuildEnd
        <3>. QED
            BY <3>1, DetectorGoes
    <2>4. CASE AlreadyAborted(l)
        <3>1. PICK place : /\ place \in {"build", "kill"} \/ place = Resume(l)
                           /\ Goes(l, place)
            BY <2>4 DEF AlreadyAborted, AfterKill
        <3>. QED
            BY <3>1, DetectorGoes
    <2>5. CASE PutNone(l)
        <3>1. pc[l] = "abort" /\ Goes(l, AfterPut) /\ AfterPut \in Places
            BY <2>5, AfterPutIs DEF PutNone, Places
        <3>. QED
            BY <3>1, RunnerGoes
    <2>. QED
        BY <2>1, <2>2, <2>3, <2>4, <2>5
<1>. QED
    BY <1>1, <1>2, <1>3, SameLocks

LEMMA ReferenceStep ==
    ASSUME LockInv, NEW l \in Locker,
           \/ \E o \in Object, m \in Mode : GetAgain(l, o, m)
           \/ \E i \in LockId : PutReference(l, i)
    PROVE  LockInv'
<1>a. LockTypes /\ Latest
    BY DEF LockInv
<1>1. CASE \E o \in Object, m \in Mode : GetAgain(l, o, m)
    <2>1. PICK o \in Object, m \in Mode : GetAgain(l, o, m)
        BY <1>1
    <2>2. PICK i \in Same(l, o, m) : lock' = [lock EXCEPT ![i].ref = @ + 1]
        BY <2>1 DEF GetAgain
    <2>3. lock' \in [LockId -> Lock]
          /\ \A j \in LockId : /\ lock'[j].obj = lock[j].obj /\ lock'[j].mode = lock[j].mode
                               /\ lock'[j].status = lock[j].status
        <3>0. lock \in [LockId -> Lock]
            BY <1>a DEF LockTypes
        <3>1. CASE i \notin LockId
            <4>1. lock' = lock
                BY <2>2, <3>0, <3>1
            <4>. QED
                BY <3>0, <4>1
        <3>2. CASE i \in LockId
            <4>1. lock[i] \in Lock /\ lock[i].ref + 1 \in Nat
                BY <3>0, <3>2 DEF Lock
            <4>2. PICK r : r = [lock[i] EXCEPT !.ref = lock[i].ref + 1]
                OBVIOUS
            <4>3. /\ r \in Lock
                  /\ r.obj = lock[i].obj /\ r.mode = lock[i].mode /\ r.status = lock[i].status
                BY <4>1, <4>2 DEF Lock
            <4>4. lock' = [lock EXCEPT ![i] = r]
                BY <2>2, <4>2
            <4>. QED
                BY <3>0, <3>2, <4>3, <4>4
        <3>. QED
            BY <3>1, <3>2
    <2>4. UNCHANGED <<holders, waiters, heldby, woken, pc>>
        BY <2>1 DEF GetAgain
    <2>. QED
        BY <1>a, <2>3, <2>4, SameLocks DEF LockTypes, Latest
<1>2. CASE \E i \in LockId : PutReference(l, i)
    <2>1. PICK i \in LockId : PutReference(l, i)
        BY <1>2
    <2>2. lock[i].ref > 1 /\ lock' = [lock EXCEPT ![i].ref = @ - 1]
          /\ UNCHANGED <<holders, waiters, heldby, woken>>
          /\ pc[l] = "run" /\ Goes(l, AfterPut)
        BY <2>1 DEF PutReference
    <2>3. lock' \in [LockId -> Lock]
          /\ \A j \in LockId : /\ lock'[j].obj = lock[j].obj /\ lock'[j].mode = lock[j].mode
                               /\ lock'[j].status = lock[j].status
        <3>1. lock \in [LockId -> Lock] /\ lock[i] \in Lock
            BY <1>a DEF LockTypes
        <3>2. lock[i].ref - 1 \in Nat
            BY <2>2, <3>1 DEF Lock
        <3>3. PICK r : r = [lock[i] EXCEPT !.ref = lock[i].ref - 1]
            OBVIOUS
        <3>4. /\ r \in Lock
              /\ r.obj = lock[i].obj /\ r.mode = lock[i].mode /\ r.status = lock[i].status
            BY <3>1, <3>2, <3>3 DEF Lock
        <3>5. lock' = [lock EXCEPT ![i] = r]
            BY <2>2, <3>3
        <3>. QED
            BY <3>1, <3>4, <3>5
    <2>4. /\ pc' \in [Locker -> Places]
          /\ \A j \in LockId : lock[j].status \in Open =>
                 pc'[Holder(j)] \in {"sleep", "detect", "build", "kill"}
        BY <2>2, AfterPutIs, RunnerGoes DEF Places
    <2>. QED
        BY <2>2, <2>3, <2>4, SameLocks
<1>. QED
    BY <1>1, <1>2

-----------------------------------------------------------------------------
\* A new lock i of l, not yet on a list of the object's.
LEMMA TakeIs ==
    ASSUME LockInv, NEW l \in Locker, pc[l] = "run", NEW i \in LockId, NEW o \in Object,
           NEW m \in Mode, NEW status \in {"HELD", "WAITING"}, Take(i, l, o, m, status)
    PROVE  /\ lock[i].status = "FREE" /\ Holder(i) = l
           /\ lock' \in [LockId -> Lock]
           /\ lock'[i].obj = o /\ lock'[i].mode = m /\ lock'[i].status = status
           /\ \A j \in LockId : j # i => lock'[j] = lock[j]
           /\ heldby' \in [Locker -> List(LockId)] /\ Head(heldby'[l]) = i
           /\ \A u \in Locker : u # l => heldby'[u] = heldby[u]
           /\ HeldTell'
<1>a. LockTypes /\ HeldTell
    BY DEF LockInv, ListsTell
<1>1. /\ Holder(i) = l /\ lock[i] = Free
      /\ lock' = [lock EXCEPT ![i] = [obj |-> o, mode |-> m, ref |-> 1, status |-> status]]
      /\ heldby' = [heldby EXCEPT ![l] = <<i>> \o @]
    BY DEF Take
<1>2. lock[i].status = "FREE"
    BY <1>1, Unused
<1>3. /\ lock' \in [LockId -> Lock]
      /\ lock'[i].obj = o /\ lock'[i].mode = m /\ lock'[i].status = status
      /\ \A j \in LockId : j # i => lock'[j] = lock[j]
    <2>1. [obj |-> o, mode |-> m, ref |-> 1, status |-> status] \in Lock
        BY DEF Lock, Status
    <2>. QED
        BY <1>a, <1>1, <2>1 DEF LockTypes
<1>4. i \notin ToSet(heldby[l]) /\ heldby[l] \in List(LockId)
    BY <1>a, <1>2 DEF HeldTell, LockTypes
<1>5. /\ <<i>> \o heldby[l] \in List(LockId)
      /\ ToSet(<<i>> \o heldby[l]) = ToSet(heldby[l]) \cup {i}
      /\ Head(<<i>> \o heldby[l]) = i
    BY <1>4, ListCons
<1>6. /\ heldby' \in [Locker -> List(LockId)] /\ heldby'[l] = <<i>> \o heldby[l]
      /\ \A u \in Locker : u # l => heldby'[u] = heldby[u]
    BY <1>a, <1>1, <1>5 DEF LockTypes
<1>7. HeldTell'
    <2>1. \A u \in Locker, j \in LockId :
              j \in ToSet(heldby'[u]) <=> j \in ToSet(heldby[u]) \/ (u = l /\ j = i)
        <3>. SUFFICES ASSUME NEW u \in Locker, NEW j \in LockId
                      PROVE  j \in ToSet(heldby'[u])
                                 <=> j \in ToSet(heldby[u]) \/ (u = l /\ j = i)
            OBVIOUS
        <3>1. CASE u = l
            <4>1. ToSet(heldby'[u]) = ToSet(heldby[u]) \cup {i}
                BY <1>5, <1>6, <3>1
            <4>. QED
                BY <3>1, <4>1
        <3>2. CASE u # l
            BY <1>6, <3>2
        <3>. QED
            BY <3>1, <3>2
    <2>. QED
        BY <1>a, <1>1, <1>2, <1>3, <2>1 DEF HeldTell
<1>. QED
    BY <1>1, <1>2, <1>3, <1>5, <1>6, <1>7

\* The locks on the lists are not the new one.
LEMMA NewApart ==
    ASSUME LockInv, NEW i \in LockId, lock[i].status = "FREE",
           NEW k, \A j \in LockId : j # i => k[j] = lock[j]
    PROVE  \A x \in Object :
               /\ i \notin ToSet(holders[x]) /\ i \notin ToSet(waiters[x])
               /\ \A g \in ToSet(holders[x]) : g \in LockId /\ k[g] = lock[g]
               /\ waiters[x] # <<>> => /\ Head(waiters[x]) \in ToSet(waiters[x])
                                       /\ Head(waiters[x]) \in LockId
                                       /\ k[Head(waiters[x])] = lock[Head(waiters[x])]
<1>. SUFFICES ASSUME NEW x \in Object
              PROVE  /\ i \notin ToSet(holders[x]) /\ i \notin ToSet(waiters[x])
                     /\ \A g \in ToSet(holders[x]) : g \in LockId /\ k[g] = lock[g]
                     /\ waiters[x] # <<>> => /\ Head(waiters[x]) \in ToSet(waiters[x])
                                             /\ Head(waiters[x]) \in LockId
                                             /\ k[Head(waiters[x])] = lock[Head(waiters[x])]
    OBVIOUS
<1>1. holders[x] \in List(LockId) /\ waiters[x] \in List(LockId)
    BY DEF LockInv, LockTypes
<1>2. i \notin ToSet(holders[x]) /\ i \notin ToSet(waiters[x])
    BY DEF LockInv, ListsTell, HoldersTell, WaitersTell, Granted
<1>3. ToSet(holders[x]) \in SUBSET LockId
    BY <1>1, ListIs
<1>4. waiters[x] # <<>> => /\ Head(waiters[x]) \in ToSet(waiters[x])
                           /\ Head(waiters[x]) \in LockId
    BY <1>1, ListIs
<1>. QED
    BY <1>2, <1>3, <1>4

\* Who is against a request.
LEMMA AgainstIs ==
    ASSUME NEW s \in List(LockId), NEW l, NEW m
    PROVE  Against(s, l, m) = {} <=>
               \A h \in ToSet(s) : Holder(h) = l \/ ~Conflicts(lock[h].mode, m)
<1>1. DOMAIN s = 1 .. Len(s) /\ \A x : x \in ToSet(s) <=> \E k \in 1 .. Len(s) : s[k] = x
    BY ListIs
<1>. QED
    BY <1>1 DEF Against

LEMMA GrantStep ==
    ASSUME LockInv, NEW l \in Locker, NEW o \in Object, NEW m \in Mode, Grant(l, o, m)
    PROVE  LockInv'
<1>a. /\ LockTypes /\ HoldersTell /\ WaitersTell /\ HeldTell /\ Latest
      /\ Compatible /\ InTheWay /\ WokenTells
    BY DEF LockInv, ListsTell
<1>1. PICK i \in LockId : /\ Take(i, l, o, m, "HELD")
                          /\ holders' = [holders EXCEPT ![o] = Append(@, i)]
    BY DEF Grant
<1>2. /\ pc[l] = "run" /\ UNCHANGED <<waiters, woken, pc>>
      /\ Against(holders[o], l, m) = {}
    BY DEF Grant, HolderConflict
<1>3. /\ lock[i].status = "FREE" /\ Holder(i) = l
      /\ lock' \in [LockId -> Lock]
      /\ lock'[i].obj = o /\ lock'[i].mode = m /\ lock'[i].status = "HELD"
      /\ \A j \in LockId : j # i => lock'[j] = lock[j]
      /\ heldby' \in [Locker -> List(LockId)] /\ Head(heldby'[l]) = i
      /\ \A u \in Locker : u # l => heldby'[u] = heldby[u]
      /\ HeldTell'
    BY <1>1, <1>2, TakeIs
<1>4. \A x \in Object :
          /\ i \notin ToSet(holders[x]) /\ i \notin ToSet(waiters[x])
          /\ \A g \in ToSet(holders[x]) : g \in LockId /\ lock'[g] = lock[g]
          /\ waiters[x] # <<>> => /\ Head(waiters[x]) \in ToSet(waiters[x])
                                  /\ Head(waiters[x]) \in LockId
                                  /\ lock'[Head(waiters[x])] = lock[Head(waiters[x])]
    BY <1>3, NewApart
<1>5. holders[o] \in List(LockId)
    BY <1>a DEF LockTypes
<1>6. Append(holders[o], i) \in List(LockId)
      /\ ToSet(Append(holders[o], i)) = ToSet(holders[o]) \cup {i}
    BY <1>4, <1>5, ListAppend
<1>7. /\ holders' \in [Object -> List(LockId)]
      /\ ToSet(holders'[o]) = ToSet(holders[o]) \cup {i}
      /\ \A x \in Object : x # o => holders'[x] = holders[x]
    BY <1>1, <1>6, <1>a DEF LockTypes
<1>8. LockTypes'
    BY <1>2, <1>3, <1>7, <1>a DEF LockTypes
<1>9. HoldersTell' /\ WaitersTell'
    <2>1. \A x \in Object, j \in LockId :
              j \in ToSet(holders'[x]) <=> j \in ToSet(holders[x]) \/ (x = o /\ j = i)
        BY <1>7
    <2>2. HoldersTell'
        BY <1>a, <1>3, <2>1 DEF HoldersTell, Granted
    <2>3. WaitersTell'
        BY <1>a, <1>2, <1>3 DEF WaitersTell
    <2>. QED
        BY <2>2, <2>3
<1>10. \A j \in LockId : lock[j].status \in Open => Holder(j) # l /\ j # i
    BY <1>2, <1>3, NoneOpen
<1>11. Latest'
    <2>1. \A j \in LockId : lock'[j].status \in Open => lock[j].status \in Open /\ Holder(j) # l
        BY <1>3, <1>10 DEF Open
    <2>. QED
        BY <1>a, <1>2, <1>3, <2>1, LockIdIs DEF Latest
<1>12. WokenTells'
    <2>1. \A j \in LockId : lock'[j].status \in Settled <=> lock[j].status \in Settled
        BY <1>3 DEF Settled
    <2>. QED
        BY <1>a, <1>2, <2>1 DEF WokenTells
<1>13. Compatible'
    <2>1. \A h \in ToSet(holders[o]) : ~Clash(lock', h, i) /\ ~Clash(lock', i, h)
        <3>1. \A h \in ToSet(holders[o]) : Holder(h) = l \/ ~Conflicts(lock[h].mode, m)
            BY <1>2, <1>5, AgainstIs
        <3>. QED
            BY <1>3, <1>4, <3>1 DEF Clash, Conflicts
    <2>2. ~Clash(lock', i, i)
        BY DEF Clash
    <2>3. \A x \in Object : \A g, h \in ToSet(holders[x]) : ~Clash(lock', g, h)
        BY <1>a, <1>4 DEF Compatible, Clash
    <2>. QED
        BY <1>7, <2>1, <2>2, <2>3 DEF Compatible
<1>14. InTheWay'
    <2>. SUFFICES ASSUME NEW x \in Object, waiters[x] # <<>>
                  PROVE  \E h \in ToSet(holders'[x]) : Clash(lock', h, Head(waiters[x]))
        BY <1>2 DEF InTheWay
    <2>1. PICK h \in ToSet(holders[x]) : Clash(lock, h, Head(waiters[x]))
        BY <1>a DEF InTheWay
    <2>2. Clash(lock', h, Head(waiters[x]))
        BY <1>4, <2>1 DEF Clash
    <2>. QED
        BY <1>7, <2>2
<1>. QED
    BY <1>3, <1>8, <1>9, <1>11, <1>12, <1>13, <1>14 DEF LockInv, ListsTell

LEMMA EnqueueStep ==
    ASSUME LockInv, NEW l \in Locker, NEW o \in Object, NEW m \in Mode, Enqueue(l, o, m)
    PROVE  LockInv'
<1>a. /\ LockTypes /\ HoldersTell /\ WaitersTell /\ HeldTell /\ Latest
      /\ Compatible /\ InTheWay /\ WokenTells
    BY DEF LockInv, ListsTell
<1>1. PICK i \in LockId :
          /\ Take(i, l, o, m, "WAITING")
          /\ waiters' = [waiters EXCEPT ![o] =
                             IF HolderConflict(l, o, m) /\ Own(l, o, m) # {}
                             THEN <<i>> \o @ ELSE Append(@, i)]
    BY DEF Enqueue
<1>2. /\ pc[l] = "run" /\ UNCHANGED <<holders, woken>>
      /\ HolderConflict(l, o, m) \/ WaiterConflict(l, o, m)
    BY DEF Enqueue
<1>b. PICK place \in {"detect", "sleep"} : Goes(l, place)
    BY DEF Enqueue
<1>3. /\ lock[i].status = "FREE" /\ Holder(i) = l
      /\ lock' \in [LockId -> Lock]
      /\ lock'[i].obj = o /\ lock'[i].mode = m /\ lock'[i].status = "WAITING"
      /\ \A j \in LockId : j # i => lock'[j] = lock[j]
      /\ heldby' \in [Locker -> List(LockId)] /\ Head(heldby'[l]) = i
      /\ \A u \in Locker : u # l => heldby'[u] = heldby[u]
      /\ HeldTell'
    BY <1>1, <1>2, TakeIs
<1>4. \A x \in Object :
          /\ i \notin ToSet(holders[x]) /\ i \notin ToSet(waiters[x])
          /\ \A g \in ToSet(holders[x]) : g \in LockId /\ lock'[g] = lock[g]
          /\ waiters[x] # <<>> => /\ Head(waiters[x]) \in ToSet(waiters[x])
                                  /\ Head(waiters[x]) \in LockId
                                  /\ lock'[Head(waiters[x])] = lock[Head(waiters[x])]
    BY <1>3, NewApart
<1>5. holders[o] \in List(LockId) /\ waiters[o] \in List(LockId)
    BY <1>a DEF LockTypes
<1>6. PICK W \in List(LockId) :
          /\ waiters' = [waiters EXCEPT ![o] = W] /\ W # <<>>
          /\ ToSet(W) = ToSet(waiters[o]) \cup {i}
          /\ \/ Head(W) = i /\ HolderConflict(l, o, m)
             \/ waiters[o] # <<>> /\ Head(W) = Head(waiters[o])
    <2>. DEFINE C == <<i>> \o waiters[o]
                A == Append(waiters[o], i)
    <2>1. CASE HolderConflict(l, o, m) /\ Own(l, o, m) # {}
        <3>1. C \in List(LockId) /\ ToSet(C) = ToSet(waiters[o]) \cup {i} /\ C # <<>> /\ Head(C) = i
            BY <1>4, <1>5, ListCons
        <3>2. waiters' = [waiters EXCEPT ![o] = C]
            BY <1>1, <2>1
        <3>. HIDE DEF C
        <3>. QED
            BY <2>1, <3>1, <3>2
    <2>2. CASE ~(HolderConflict(l, o, m) /\ Own(l, o, m) # {})
        <3>a. waiters' = [waiters EXCEPT ![o] = A]
            BY <1>1, <2>2
        <3>1. /\ A \in List(LockId) /\ ToSet(A) = ToSet(waiters[o]) \cup {i} /\ A # <<>>
              /\ Head(A) = IF waiters[o] = <<>> THEN i ELSE Head(waiters[o])
            BY <1>4, <1>5, ListAppend
        <3>2. waiters[o] = <<>> => HolderConflict(l, o, m)
            <4>1. waiters[o] = <<>> => Against(waiters[o], l, m) = {}
                BY <1>5, AgainstIs, ListIs
            <4>. QED
                BY <1>2, <4>1 DEF WaiterConflict
        <3>. HIDE DEF A
        <3>. QED
            BY <3>a, <3>1, <3>2
    <2>. QED
        BY <2>1, <2>2
<1>7. /\ waiters' \in [Object -> List(LockId)] /\ waiters'[o] = W
      /\ \A x \in Object : x # o => waiters'[x] = waiters[x]
    BY <1>6, <1>a DEF LockTypes
<1>8. /\ pc' \in [Locker -> Places]
      /\ \A u \in Locker : pc'[u] = IF u = l THEN place ELSE pc[u]
    BY <1>a, <1>b, GoesIs DEF Places
<1>9. LockTypes'
    BY <1>2, <1>3, <1>7, <1>8, <1>a DEF LockTypes
<1>10. HoldersTell' /\ WaitersTell'
    <2>1. \A x \in Object, j \in LockId :
              j \in ToSet(waiters'[x]) <=> j \in ToSet(waiters[x]) \/ (x = o /\ j = i)
        BY <1>6, <1>7
    <2>2. WaitersTell'
        BY <1>a, <1>3, <2>1 DEF WaitersTell
    <2>3. HoldersTell'
        BY <1>a, <1>2, <1>3 DEF HoldersTell, Granted
    <2>. QED
        BY <2>2, <2>3
<1>11. \A j \in LockId : lock[j].status \in Open => Holder(j) # l /\ j # i
    BY <1>2, <1>3, NoneOpen
<1>12. Latest'
    <2>1. \A j \in LockId : lock'[j].status \in Open =>
              j = i \/ (lock[j].status \in Open /\ Holder(j) # l)
        BY <1>3, <1>11
    <2>. QED
        BY <1>a, <1>b, <1>3, <1>8, <2>1, LockIdIs DEF Latest
<1>13. WokenTells'
    <2>1. \A j \in LockId : lock'[j].status \in Settled <=> lock[j].status \in Settled
        BY <1>3 DEF Settled
    <2>. QED
        BY <1>a, <1>2, <2>1 DEF WokenTells
<1>14. Compatible'
    BY <1>a, <1>2, <1>4 DEF Compatible, Clash
<1>15. InTheWay'
    <2>. SUFFICES ASSUME NEW x \in Object, waiters'[x] # <<>>
                  PROVE  \E h \in ToSet(holders[x]) : Clash(lock', h, Head(waiters'[x]))
        BY <1>2 DEF InTheWay
    <2>1. CASE waiters[x] # <<>> /\ Head(waiters'[x]) = Head(waiters[x])
        <3>1. PICK h \in ToSet(holders[x]) : Clash(lock, h, Head(waiters[x]))
            BY <1>a, <2>1 DEF InTheWay
        <3>2. Clash(lock', h, Head(waiters[x]))
            BY <1>4, <2>1, <3>1 DEF Clash
        <3>. QED
            BY <2>1, <3>2
    <2>2. CASE x = o /\ Head(W) = i /\ HolderConflict(l, o, m)
        <3>1. PICK h \in ToSet(holders[o]) : Holder(h) # l /\ Conflicts(lock[h].mode, m)
            BY <1>5, <2>2, AgainstIs DEF HolderConflict
        <3>2. Clash(lock', h, i)
            BY <1>3, <1>4, <3>1 DEF Clash
        <3>. QED
            BY <1>7, <2>2, <3>2
    <2>. QED
        BY <1>6, <1>7, <2>1, <2>2
<1>. QED
    BY <1>3, <1>9, <1>10, <1>12, <1>13, <1>14, <1>15 DEF LockInv, ListsTell

-----------------------------------------------------------------------------
\* The locker looks at what became of its request.
LEMMA WakeStep ==
    ASSUME LockInv, NEW l \in Locker, Wake(l)
    PROVE  LockInv'
<1>a. /\ LockTypes /\ HoldersTell /\ WaitersTell /\ HeldTell /\ Latest
      /\ Compatible /\ InTheWay /\ WokenTells
    BY DEF LockInv, ListsTell
<1>1. PICK i \in LockId : Holder(i) = l /\ lock[i].status \in Settled
    BY <1>a DEF Wake, WokenTells
<1>2. i = Head(heldby[l]) /\ i \in ToSet(heldby[l]) /\ heldby[l] \in List(LockId)
    BY <1>a, <1>1 DEF Latest, HeldTell, Settled, Open, LockTypes
<1>3. \A j \in LockId : Holder(j) = l /\ lock[j].status \in Open => j = i
    BY <1>a, <1>2 DEF Latest
<1>4. lock \in [LockId -> Lock] /\ lock[i] \in Lock
    BY <1>a DEF LockTypes
<1>5. PICK place \in {"run", "abort"} : Goes(l, place)
    BY <1>1, <1>2 DEF Wake, Settled
<1>6. /\ pc' \in [Locker -> Places]
      /\ \A u \in Locker : u # l => pc'[u] = pc[u]
    BY <1>a, <1>5, GoesIs DEF Places
<1>7. UNCHANGED <<holders, waiters>> /\ woken' = [woken EXCEPT ![l] = FALSE]
    BY DEF Wake
<1>8. /\ lock' \in [LockId -> Lock] /\ heldby' \in [Locker -> List(LockId)]
      /\ \A j \in LockId : j # i => lock'[j] = lock[j]
      /\ \A u \in Locker : u # l => heldby'[u] = heldby[u]
      /\ \/ /\ lock[i].status = "PENDING" /\ lock'[i].status = "HELD"
            /\ lock'[i].obj = lock[i].obj /\ lock'[i].mode = lock[i].mode
            /\ heldby'[l] = heldby[l]
         \/ /\ lock[i].status = "ABORTED" /\ lock'[i] = Free
            /\ ToSet(heldby'[l]) = ToSet(heldby[l]) \ {i}
    <2>1. CASE lock[i].status = "PENDING"
        <3>1. PICK r : r = [lock[i] EXCEPT !.status = "HELD"]
            OBVIOUS
        <3>2. /\ r \in Lock /\ r.status = "HELD"
              /\ r.obj = lock[i].obj /\ r.mode = lock[i].mode
            BY <1>4, <3>1 DEF Lock, Status
        <3>3. lock' = [lock EXCEPT ![i] = r]
            BY <1>2, <2>1, <3>1 DEF Wake
        <3>4. heldby' = [heldby EXCEPT ![l] = heldby[l]]
            BY <1>2, <2>1 DEF Wake
        <3>. QED
            BY <1>4, <1>a, <2>1, <3>2, <3>3, <3>4 DEF LockTypes
    <2>2. CASE lock[i].status = "ABORTED"
        <3>1. lock' = [lock EXCEPT ![i] = Free]
            BY <1>2, <2>2 DEF Wake
        <3>2. heldby' = [heldby EXCEPT ![l] = Tail(heldby[l])]
            BY <1>2, <2>2 DEF Wake
        <3>3. Tail(heldby[l]) \in List(LockId) /\ ToSet(Tail(heldby[l])) = ToSet(heldby[l]) \ {i}
            <4>1. heldby[l] # <<>>
                BY <1>2, ListIs
            <4>. QED
                BY <1>2, <4>1, ListTail
        <3>. QED
            BY <1>4, <1>a, <2>2, <3>1, <3>2, <3>3, Unused DEF LockTypes
    <2>. QED
        BY <1>1, <2>1, <2>2 DEF Settled
<1>9. woken' \in [Locker -> BOOLEAN] /\ ~woken'[l]
      /\ \A u \in Locker : u # l => woken'[u] = woken[u]
    BY <1>7, <1>a DEF LockTypes
<1>10. LockTypes'
    BY <1>6, <1>7, <1>8, <1>9, <1>a DEF LockTypes
<1>11. lock'[i].status \in {"HELD", "FREE"}
    BY <1>8, Unused
<1>12. HoldersTell'
    <2>. SUFFICES ASSUME NEW x \in Object, NEW j \in LockId
                  PROVE  j \in ToSet(holders[x])
                            <=> lock'[j].obj = x /\ lock'[j].status \in Granted
        BY <1>7 DEF HoldersTell
    <2>1. CASE j # i
        BY <1>8, <1>a, <2>1 DEF HoldersTell
    <2>2. CASE j = i /\ lock[i].status = "PENDING"
        BY <1>8, <1>a, <2>2 DEF HoldersTell, Granted
    <2>3. CASE j = i /\ lock[i].status = "ABORTED"
        BY <1>8, <1>a, <2>3, Unused DEF HoldersTell, Granted
    <2>. QED
        BY <1>8, <2>1, <2>2, <2>3
<1>13. WaitersTell'
    <2>1. \A j \in LockId, x \in Object :
              lock'[j].obj = x /\ lock'[j].status = "WAITING"
                  <=> lock[j].obj = x /\ lock[j].status = "WAITING"
        BY <1>8, <1>11
    <2>. QED
        BY <1>7, <1>a, <2>1 DEF WaitersTell
<1>14. HeldTell'
    <2>. SUFFICES ASSUME NEW j \in LockId
                  PROVE  /\ lock'[j].status # "FREE" => lock'[j].obj \in Object
                         /\ \A u \in Locker : j \in ToSet(heldby'[u])
                               <=> Holder(j) = u /\ lock'[j].status # "FREE"
        BY DEF HeldTell
    <2>1. CASE j # i
        <3>1. \A u \in Locker : j \in ToSet(heldby'[u]) <=> j \in ToSet(heldby[u])
            BY <1>8, <2>1
        <3>. QED
            BY <1>8, <1>a, <2>1, <3>1 DEF HeldTell
    <2>2. CASE j = i /\ lock[i].status = "PENDING"
        <3>1. \A u \in Locker : j \in ToSet(heldby'[u]) <=> j \in ToSet(heldby[u])
            BY <1>8, <2>2
        <3>. QED
            BY <1>8, <1>a, <2>2, <3>1 DEF HeldTell
    <2>3. CASE j = i /\ lock[i].status = "ABORTED"
        <3>1. \A u \in Locker : j \notin ToSet(heldby'[u])
            BY <1>1, <1>8, <1>a, <2>3 DEF HeldTell
        <3>. QED
            BY <1>8, <2>3, <3>1, Unused
    <2>. QED
        BY <1>8, <2>1, <2>2, <2>3
<1>15. \A j \in LockId : lock'[j].status \in Open =>
           lock[j].status \in Open /\ j # i /\ Holder(j) # l
    BY <1>3, <1>8, <1>11 DEF Open
<1>16. Latest'
    BY <1>6, <1>8, <1>15, <1>a, LockIdIs DEF Latest
<1>17. WokenTells'
    <2>. SUFFICES ASSUME NEW u \in Locker
                  PROVE  woken'[u] <=>
                             \E j \in LockId : Holder(j) = u /\ lock'[j].status \in Settled
        BY DEF WokenTells
    <2>1. CASE u = l
        BY <1>9, <1>15, <2>1 DEF Settled, Open
    <2>2. CASE u # l
        BY <1>1, <1>8, <1>9, <1>a, <2>2 DEF WokenTells
    <2>. QED
        BY <2>1, <2>2
\* The modes of the locks on the lists are as they were.
<1>18. \A x \in Object :
           /\ \A g \in ToSet(holders[x]) : g \in LockId /\ lock'[g].mode = lock[g].mode
           /\ waiters[x] # <<>> => /\ Head(waiters[x]) \in LockId
                                   /\ lock'[Head(waiters[x])].mode = lock[Head(waiters[x])].mode
    <2>. SUFFICES ASSUME NEW x \in Object
                  PROVE  /\ \A g \in ToSet(holders[x]) : g \in LockId /\ lock'[g].mode = lock[g].mode
                         /\ waiters[x] # <<>> =>
                               /\ Head(waiters[x]) \in LockId
                               /\ lock'[Head(waiters[x])].mode = lock[Head(waiters[x])].mode
        OBVIOUS
    <2>0. holders[x] \in List(LockId) /\ waiters[x] \in List(LockId)
        BY <1>a DEF LockTypes
    <2>1. \A g \in ToSet(holders[x]) : g \in LockId /\ lock[g].status \in Granted
        <3>1. ToSet(holders[x]) \in SUBSET LockId
            BY <2>0, ListIs
        <3>. QED
            BY <1>a, <3>1 DEF HoldersTell
    <2>2. waiters[x] # <<>> => /\ Head(waiters[x]) \in LockId
                               /\ lock[Head(waiters[x])].status = "WAITING"
        <3>1. waiters[x] # <<>> => Head(waiters[x]) \in ToSet(waiters[x])
                                   /\ Head(waiters[x]) \in LockId
            BY <2>0, ListIs
        <3>. QED
            BY <1>a, <3>1 DEF WaitersTell
    <2>. QED
        BY <1>1, <1>8, <2>1, <2>2 DEF Granted, Settled
<1>19. Compatible'
    BY <1>7, <1>18, <1>a DEF Compatible, Clash
<1>20. InTheWay'
    <2>. SUFFICES ASSUME NEW x \in Object, waiters[x] # <<>>
                  PROVE  \E h \in ToSet(holders[x]) : Clash(lock', h, Head(waiters[x]))
        BY <1>7 DEF InTheWay
    <2>1. PICK h \in ToSet(holders[x]) : Clash(lock, h, Head(waiters[x]))
        BY <1>a DEF InTheWay
    <2>. QED
        BY <1>18, <2>1 DEF Clash
<1>. QED
    BY <1>10, <1>12, <1>13, <1>14, <1>16, <1>17, <1>19, <1>20 DEF LockInv, ListsTell

-----------------------------------------------------------------------------
\* A release.
LEMMA PutStep ==
    ASSUME LockInv, NEW l \in Locker, pc[l] \in {"run", "abort", "putall"},
           NEW i, i \in ToSet(heldby[l]), PutLock(l, i),
           NEW place \in Places, Goes(l, place)
    PROVE  LockInv'
<1>a. /\ LockTypes /\ HoldersTell /\ WaitersTell /\ HeldTell /\ Latest
    BY DEF LockInv, ListsTell
<1>1. i \in LockId /\ lock[i].status = "HELD" /\ heldby[l] \in List(LockId)
    BY <1>a, NoneOpen DEF LockTypes
<1>2. PICK o \in Object : lock[i].obj = o
    BY <1>a, <1>1 DEF HeldTell
<1>3. Holder(i) = l
    BY <1>a, <1>1 DEF HeldTell
<1>4. PICK k : k = [lock EXCEPT ![i] = Free]
    OBVIOUS
<1>5. PICK H : H = RemoveFirst(holders[o], i)
    OBVIOUS
<1>6. PICK W : W = waiters[o]
    OBVIOUS
<1>7. Promote(o, k, H, W, {}) /\ heldby' = [heldby EXCEPT ![l] = RemoveFirst(heldby[l], i)]
    BY <1>2, <1>4, <1>5, <1>6 DEF PutLock
<1>8. /\ H \in List(LockId) /\ ToSet(H) = ToSet(holders[o]) \ {i}
      /\ W \in List(LockId)
    <2>1. holders[o] \in List(LockId) /\ waiters[o] \in List(LockId)
        BY <1>a DEF LockTypes
    <2>. QED
        BY <1>5, <1>6, <2>1, ListRemove
<1>9. /\ k \in [LockId -> Lock] /\ k[i] = Free
      /\ \A j \in LockId : j # i => k[j] = lock[j]
    BY <1>1, <1>4, <1>a, Unused DEF LockTypes
<1>10. Ready(i, o, k, H, W)
    <2>1. \A j \in LockId : j \in ToSet(H) <=> k[j].obj = o /\ k[j].status \in Granted
        BY <1>8, <1>9, <1>a, Unused DEF HoldersTell, Granted
    <2>2. \A j \in LockId : j \in ToSet(W) <=> k[j].obj = o /\ k[j].status = "WAITING"
        BY <1>1, <1>6, <1>9, <1>a, Unused DEF WaitersTell
    <2>. QED
        BY <1>1, <1>2, <1>8, <1>9, <2>1, <2>2, Unused DEF Ready
<1>11. ToSet(H) \cap ToSet(W) = {}
    <2>1. ToSet(W) \in SUBSET LockId
        BY <1>8, ListIs
    <2>. QED
        BY <1>10, <2>1 DEF Ready, Granted
<1>12. PICK G \in SUBSET LockId : Promoted(o, k, H, W, {}, G)
    BY <1>7, <1>8, <1>9, <1>11, <1>a, PromoteIs
<1>13. /\ heldby' \in [Locker -> List(LockId)]
       /\ ToSet(heldby'[l]) = ToSet(heldby[l]) \ {i}
       /\ \A u \in Locker : u # l => heldby'[u] = heldby[u]
    <2>1. PICK r : /\ r = RemoveFirst(heldby[l], i)
                   /\ r \in List(LockId) /\ ToSet(r) = ToSet(heldby[l]) \ {i}
        BY <1>1, ListRemove
    <2>. QED
        BY <1>7, <1>a, <2>1 DEF LockTypes
<1>14. \A u \in Locker, j \in LockId :
           j \in ToSet(heldby'[u]) <=> Holder(j) = u /\ k[j].status # "FREE"
    <2>. SUFFICES ASSUME NEW u \in Locker, NEW j \in LockId
                  PROVE  j \in ToSet(heldby'[u]) <=> Holder(j) = u /\ k[j].status # "FREE"
        OBVIOUS
    <2>1. CASE u = l
        BY <1>3, <1>9, <1>13, <1>a, <2>1, Unused DEF HeldTell
    <2>2. CASE u # l
        BY <1>3, <1>9, <1>13, <1>a, <2>2 DEF HeldTell
    <2>. QED
        BY <2>1, <2>2
<1>15. /\ pc' \in [Locker -> Places]
       /\ \A j \in LockId : lock[j].status \in Open =>
              /\ Holder(j) # l
              /\ pc'[Holder(j)] \in {"sleep", "detect", "build", "kill"}
    BY RunnerGoes
<1>16. \A j \in LockId : k[j].status \in Open =>
           /\ j = Head(heldby'[Holder(j)])
           /\ pc'[Holder(j)] \in {"sleep", "detect", "build", "kill"}
    <2>1. \A j \in LockId : k[j].status \in Open => lock[j].status \in Open
        BY <1>9, Unused DEF Open
    <2>. QED
        BY <1>13, <1>15, <1>a, <2>1, LockIdIs DEF Latest
<1>17. lock[i].status \notin Settled /\ k[i].status = "FREE"
    BY <1>1, <1>9, Unused DEF Settled
<1>. QED
    BY <1>10, <1>12, <1>13, <1>14, <1>15, <1>16, <1>17, Onward

\* The releases there are.
LEMMA ReleaseStep ==
    ASSUME LockInv, NEW l \in Locker, PutAll(l) \/ \E i \in LockId : Put(l, i)
    PROVE  LockInv'
<1>1. CASE PutAll(l)
    <2>1. /\ pc[l] \in {"run", "abort", "putall"} /\ heldby[l] # <<>>
          /\ PutLock(l, Head(heldby[l]))
        BY <1>1 DEF PutAll
    <2>2. Head(heldby[l]) \in ToSet(heldby[l])
        <3>1. heldby[l] \in List(LockId)
            BY DEF LockInv, LockTypes
        <3>. QED
            BY <2>1, <3>1, ListIs
    <2>3. PICK place \in Places : Goes(l, place)
        BY <1>1, AfterPutIs DEF PutAll, Places
    <2>. QED
        BY <2>1, <2>2, <2>3, PutStep
<1>2. CASE \E i \in LockId : Put(l, i)
    <2>1. PICK i \in LockId : Put(l, i)
        BY <1>2
    <2>2. PICK place \in Places : Goes(l, place)
        BY <2>1, AfterPutIs DEF Put, Places
    <2>. QED
        BY <2>1, <2>2, PutStep DEF Put
<1>. QED
    BY <1>1, <1>2

LEMMA DowngradeStep ==
    ASSUME LockInv, NEW l \in Locker, NEW i \in LockId, Downgrade(l, i)
    PROVE  LockInv'
<1>a. /\ LockTypes /\ HoldersTell /\ WaitersTell /\ HeldTell /\ Latest
    BY DEF LockInv, ListsTell
<1>1. pc[l] = "run" /\ i \in ToSet(heldby[l]) /\ UNCHANGED <<heldby, pc>>
    BY DEF Downgrade
<1>2. lock[i].status = "HELD"
    BY <1>1, NoneOpen
<1>3. PICK o \in Object : lock[i].obj = o
    BY <1>a, <1>2 DEF HeldTell
<1>4. PICK k : k = [lock EXCEPT ![i].mode = "READ"]
    OBVIOUS
<1>5. PICK H, W : H = holders[o] /\ W = waiters[o]
    OBVIOUS
<1>6. Promote(o, k, H, W, {})
    BY <1>3, <1>4, <1>5 DEF Downgrade
<1>7. H \in List(LockId) /\ W \in List(LockId)
    BY <1>5, <1>a DEF LockTypes
<1>8. /\ k \in [LockId -> Lock] /\ \A j \in LockId : j # i => k[j] = lock[j]
      /\ k[i].mode = "READ" /\ k[i].obj = o /\ k[i].status = "HELD"
    <2>1. lock \in [LockId -> Lock] /\ lock[i] \in Lock
        BY <1>a DEF LockTypes
    <2>2. PICK r : r = [lock[i] EXCEPT !.mode = "READ"]
        OBVIOUS
    <2>3. r \in Lock /\ r.mode = "READ" /\ r.obj = lock[i].obj /\ r.status = lock[i].status
        BY <2>1, <2>2 DEF Lock, Mode
    <2>4. k = [lock EXCEPT ![i] = r]
        BY <1>4, <2>2
    <2>. QED
        BY <1>2, <1>3, <2>1, <2>3, <2>4
<1>9. \A j \in LockId : k[j].obj = lock[j].obj /\ k[j].status = lock[j].status
    BY <1>2, <1>3, <1>8
<1>10. Ready(i, o, k, H, W)
    <2>1. \A j \in LockId : j \in ToSet(H) <=> k[j].obj = o /\ k[j].status \in Granted
        BY <1>5, <1>9, <1>a DEF HoldersTell
    <2>2. \A j \in LockId : j \in ToSet(W) <=> k[j].obj = o /\ k[j].status = "WAITING"
        BY <1>5, <1>9, <1>a DEF WaitersTell
    <2>. QED
        BY <1>3, <1>5, <1>7, <1>8, <2>1, <2>2 DEF Ready
<1>11. ToSet(H) \cap ToSet(W) = {}
    <2>1. ToSet(W) \in SUBSET LockId
        BY <1>7, ListIs
    <2>. QED
        BY <1>10, <2>1 DEF Ready, Granted
<1>12. PICK G \in SUBSET LockId : Promoted(o, k, H, W, {}, G)
    BY <1>6, <1>7, <1>8, <1>11, <1>a, PromoteIs
<1>13. heldby' \in [Locker -> List(LockId)] /\ pc' \in [Locker -> Places]
    BY <1>1, <1>a DEF LockTypes
<1>14. /\ \A u \in Locker, j \in LockId :
              j \in ToSet(heldby'[u]) <=> Holder(j) = u /\ k[j].status # "FREE"
       /\ \A j \in LockId : k[j].status \in Open =>
              /\ j = Head(heldby'[Holder(j)])
              /\ pc'[Holder(j)] \in {"sleep", "detect", "build", "kill"}
    BY <1>1, <1>9, <1>a DEF HeldTell, Latest
<1>15. lock[i].status \notin Settled /\ k[i].status = "HELD"
    BY <1>2, <1>8 DEF Settled
<1>. QED
    BY <1>10, <1>12, <1>13, <1>14, <1>15, Onward

LEMMA AbortStep ==
    ASSUME LockInv, NEW l \in Locker, NEW i \in LockId, Abort(l, i)
    PROVE  LockInv'
<1>a. /\ LockTypes /\ HoldersTell /\ WaitersTell /\ HeldTell /\ Latest
    BY DEF LockInv, ListsTell
<1>1. lock[i].status = "WAITING" /\ UNCHANGED heldby
    BY DEF Abort, StillWaits
<1>2. PICK o \in Object : lock[i].obj = o
    BY <1>a, <1>1 DEF HeldTell
<1>3. PICK k : k = [lock EXCEPT ![i].status = "ABORTED"]
    OBVIOUS
<1>4. PICK H, W : H = holders[o] /\ W = RemoveFirst(waiters[o], i)
    OBVIOUS
<1>5. Promote(o, k, H, W, {Holder(i)})
    BY <1>2, <1>3, <1>4 DEF Abort
<1>6. H \in List(LockId) /\ W \in List(LockId) /\ ToSet(W) = ToSet(waiters[o]) \ {i}
    <2>1. holders[o] \in List(LockId) /\ waiters[o] \in List(LockId)
        BY <1>a DEF LockTypes
    <2>. QED
        BY <1>4, <2>1, ListRemove
<1>7. /\ k \in [LockId -> Lock] /\ \A j \in LockId : j # i => k[j] = lock[j]
      /\ k[i].mode = lock[i].mode /\ k[i].obj = o /\ k[i].status = "ABORTED"
    <2>1. lock \in [LockId -> Lock] /\ lock[i] \in Lock
        BY <1>a DEF LockTypes
    <2>2. PICK r : r = [lock[i] EXCEPT !.status = "ABORTED"]
        OBVIOUS
    <2>3. r \in Lock /\ r.mode = lock[i].mode /\ r.obj = lock[i].obj /\ r.status = "ABORTED"
        BY <2>1, <2>2 DEF Lock, Status
    <2>4. k = [lock EXCEPT ![i] = r]
        BY <1>3, <2>2
    <2>. QED
        BY <1>2, <2>1, <2>3, <2>4
<1>8. Ready(i, o, k, H, W)
    <2>1. \A j \in LockId : j \in ToSet(H) <=> k[j].obj = o /\ k[j].status \in Granted
        BY <1>1, <1>4, <1>7, <1>a DEF HoldersTell, Granted
    <2>2. \A j \in LockId : j \in ToSet(W) <=> k[j].obj = o /\ k[j].status = "WAITING"
        BY <1>6, <1>7, <1>a DEF WaitersTell
    <2>. QED
        BY <1>2, <1>4, <1>6, <1>7, <2>1, <2>2 DEF Ready
<1>9. ToSet(H) \cap ToSet(W) = {}
    <2>1. ToSet(W) \in SUBSET LockId
        BY <1>6, ListIs
    <2>. QED
        BY <1>8, <2>1 DEF Ready, Granted
<1>10. PICK G \in SUBSET LockId : Promoted(o, k, H, W, {Holder(i)}, G)
    BY <1>5, <1>6, <1>7, <1>9, <1>a, PromoteIs
<1>11. heldby' \in [Locker -> List(LockId)]
    BY <1>1, <1>a DEF LockTypes
<1>12. /\ pc' \in [Locker -> Places]
       /\ \A j \in LockId : lock[j].status \in Open =>
              pc'[Holder(j)] \in {"sleep", "detect", "build", "kill"}
    <2>1. PICK place : /\ place \in {"build", "kill"} \/ place = Resume(l)
                       /\ Goes(l, place)
        BY DEF Abort, AfterKill
    <2>. QED
        BY <2>1, DetectorGoes
<1>13. \A j \in LockId : /\ k[j].status # "FREE" <=> lock[j].status # "FREE"
                         /\ k[j].status \in Open => lock[j].status \in Open
    BY <1>1, <1>7 DEF Open
<1>14. /\ \A u \in Locker, j \in LockId :
              j \in ToSet(heldby'[u]) <=> Holder(j) = u /\ k[j].status # "FREE"
       /\ \A j \in LockId : k[j].status \in Open =>
              /\ j = Head(heldby'[Holder(j)])
              /\ pc'[Holder(j)] \in {"sleep", "detect", "build", "kill"}
    BY <1>1, <1>12, <1>13, <1>a DEF HeldTell, Latest
<1>15. lock[i].status \notin Settled /\ k[i].status = "ABORTED"
    BY <1>1, <1>7 DEF Settled
<1>. QED
    BY <1>8, <1>10, <1>11, <1>12, <1>14, <1>15, Onward

-----------------------------------------------------------------------------
(***************************************************************************)
(* The detector's own state                                                *)
(***************************************************************************)
Doom == [locker : Locker, last : LockId \cup {NoLock},
         obj : Object \cup {NoObject}, sure : BOOLEAN]

DdTypes ==
    /\ ddObjs \in List(Object)
    /\ needDd \in BOOLEAN /\ changed \in BOOLEAN
    /\ walker \in Locker \cup {NoLocker}
    /\ op \in Object \cup {NoObject}
    /\ row \in [Locker -> SUBSET Locker]
    /\ selfWait \in SUBSET Locker
    /\ doomed \in [Locker -> Seq(Doom)]

Contested == \A o \in Object : o \in ToSet(ddObjs) <=> waiters[o] # <<>>

\* The object a walk has come to has waiters, unless its generation says that
\* it has been off the list.
OnList == walker # NoLocker /\ op # NoObject /\ ~changed => waiters[op] # <<>>

KillHas == \A l \in Locker : pc[l] = "kill" => doomed[l] # <<>>

DdInv == DdTypes /\ Contested /\ OnList /\ KillHas

-----------------------------------------------------------------------------
(***************************************************************************)
(* Loops over the lockers                                                  *)
(***************************************************************************)
Less == {p \in Nat \X Nat : p[1] < p[2]}

\* Every set of numbers has a least element.
LEMMA LeastOf ==
    ASSUME NEW S \in SUBSET Nat, S # {}
    PROVE  \E x \in S : \A y \in S : x <= y
<1>a. IsWellFoundedOn(Less, Nat)
    BY NatLessThanWellFounded DEF OpToRel, Less
<1>1. PICK x \in S : \A y \in S : ~(<<y, x>> \in Less)
    BY <1>a, WFMin
<1>2. ASSUME NEW y \in S PROVE x <= y
    <2>1. x \in Nat /\ y \in Nat /\ <<y, x>> \in Nat \X Nat
        OBVIOUS
    <2>2. ~(<<y, x>>[1] < <<y, x>>[2])
        BY <1>1, <2>1 DEF Less
    <2>. QED
        BY <2>1, <2>2
<1>. QED
    BY <1>2

\* What the first pass and every further one leave within T, all of them do.
LEMMA LoopStays ==
    ASSUME NEW T, NEW f, f[0] \in T,
           \A j \in Locker : f[j - 1] \in T => f[j] \in T
    PROVE  \A j \in 0 .. NLockers : f[j] \in T
<1>. DEFINE Bad == {j \in 0 .. NLockers : f[j] \notin T}
<1>. SUFFICES ASSUME Bad # {} PROVE FALSE
    OBVIOUS
<1>1. NLockers \in Nat /\ Locker = 1 .. NLockers
    BY LockAssumption DEF Locker
<1>2. PICK m \in Bad : \A y \in Bad : m <= y
    <2>1. Bad \in SUBSET Nat
        BY <1>1
    <2>. HIDE DEF Bad
    <2>. QED
        BY <2>1, LeastOf
<1>3. m \in 0 .. NLockers /\ f[m] \notin T /\ m # 0
    BY <1>2
<1>4. m \in Locker /\ m - 1 \in 0 .. NLockers /\ ~(m <= m - 1)
    BY <1>1, <1>3
<1>5. f[m - 1] \in T
    BY <1>2, <1>4
<1>. QED
    BY <1>3, <1>4, <1>5

\* What a loop whose passes are F leaves after each of them.
Passes(f, T, start, F) ==
    /\ f \in [0 .. NLockers -> T] /\ f[0] = start
    /\ \A j \in Locker : f[j] = F[j][f[j - 1]]

LEMMA LoopExists ==
    ASSUME NEW T, NEW start \in T, NEW F \in [Locker -> [T -> T]]
    PROVE  \E f : Passes(f, T, start, F)
<1>. DEFINE Has(n) == \E f \in [0 .. n -> T] :
                          f[0] = start /\ \A j \in 1 .. n : f[j] = F[j][f[j - 1]]
            Bad == {n \in 0 .. NLockers : ~Has(n)}
<1>1. NLockers \in Nat /\ Locker = 1 .. NLockers /\ NLockers \in 0 .. NLockers
    BY LockAssumption DEF Locker
<1>2. Bad = {}
    <2>. SUFFICES ASSUME Bad # {} PROVE FALSE
        OBVIOUS
    <2>1. PICK m \in Bad : \A y \in Bad : m <= y
        <3>1. Bad \in SUBSET Nat
            BY <1>1
        <3>. HIDE DEF Bad
        <3>. QED
            BY <3>1, LeastOf
    <2>2. m \in 0 .. NLockers /\ ~Has(m)
        BY <2>1
    <2>3. CASE m = 0
        <3>. DEFINE f == [i \in 0 .. 0 |-> start]
        <3>1. f \in [0 .. 0 -> T] /\ f[0] = start /\ \A j \in 1 .. 0 : f[j] = F[j][f[j - 1]]
            OBVIOUS
        <3>. QED
            BY <2>2, <2>3, <3>1
    <2>4. CASE m # 0
        <3>1. m \in Locker /\ m - 1 \in 0 .. NLockers /\ ~(m <= m - 1)
            BY <1>1, <2>2, <2>4
        <3>2. Has(m - 1)
            BY <2>1, <3>1
        <3>3. PICK g \in [0 .. m - 1 -> T] :
                  g[0] = start /\ \A j \in 1 .. m - 1 : g[j] = F[j][g[j - 1]]
            BY <3>2
        <3>4. m - 1 \in 0 .. m - 1 /\ F[m][g[m - 1]] \in T
            <4>1. m - 1 \in 0 .. m - 1
                BY <1>1, <3>1
            <4>2. g[m - 1] \in T /\ F[m] \in [T -> T]
                BY <3>1, <4>1
            <4>. QED
                BY <4>1, <4>2
        <3>. DEFINE f == [i \in 0 .. m |-> IF i = m THEN F[m][g[m - 1]] ELSE g[i]]
        <3>5. \A i \in 0 .. m : i # m => i \in 0 .. m - 1
            BY <1>1, <2>2
        <3>6. f \in [0 .. m -> T]
            BY <3>4, <3>5
        <3>7. f[0] = start
            BY <2>2, <2>4, <3>3
        <3>8. ASSUME NEW j \in 1 .. m PROVE f[j] = F[j][f[j - 1]]
            <4>1. j \in 0 .. m /\ j - 1 \in 0 .. m /\ j - 1 # m
                BY <1>1, <2>2
            <4>2. f[j - 1] = g[j - 1]
                BY <4>1
            <4>3. CASE j = m
                BY <4>1, <4>2, <4>3
            <4>4. CASE j # m
                <5>1. j \in 1 .. m - 1
                    BY <1>1, <2>2, <4>4
                <5>2. f[j] = g[j]
                    BY <4>1, <4>4
                <5>. HIDE DEF f
                <5>. QED
                    BY <3>3, <4>2, <5>1, <5>2
            <4>. QED
                BY <4>3, <4>4
        <3>. HIDE DEF f
        <3>. QED
            BY <2>2, <3>6, <3>7, <3>8
    <2>. QED
        BY <2>3, <2>4
<1>3. Has(NLockers)
    BY <1>1, <1>2
<1>. QED
    BY <1>1, <1>3 DEF Passes

-----------------------------------------------------------------------------
(***************************************************************************)
(* The victims                                                             *)
(***************************************************************************)
Reach == [of : SUBSET Locker, found : BOOLEAN]
Search == [row : [Locker -> SUBSET Locker], valid : SUBSET Locker, victims : Seq(Doom)]

\* One pass of the loop of __dd_find.
Ored(r, i, acc, j) ==
    IF acc.found \/ j \notin acc.of THEN acc
    ELSE [of |-> acc.of \cup r[j], found |-> i \in acc.of \cup r[j]]

LEMMA OredIs ==
    ASSUME NEW r \in [Locker -> SUBSET Locker], NEW i \in Locker,
           NEW acc \in Reach, NEW j \in Locker
    PROVE  Ored(r, i, acc, j) \in Reach
<1>1. r[j] \in SUBSET Locker /\ acc.of \in SUBSET Locker
    BY DEF Reach
<1>2. (i \in acc.of \cup r[j]) \in BOOLEAN
    OBVIOUS
<1>. QED
    BY <1>1, <1>2 DEF Ored, Reach

Orings(r, i, f) ==
    f = [j \in 0 .. NLockers |->
            IF j = 0 THEN [of |-> r[i], found |-> FALSE]
            ELSE CHOOSE x \in {Ored(r, i, y, j) : y \in {f[j - 1]}} : TRUE]

LEMMA ClosureIs ==
    ASSUME NEW r \in [Locker -> SUBSET Locker], NEW i \in Locker
    PROVE  Closure(r, i) \in Reach
<1>. DEFINE start == [of |-> r[i], found |-> FALSE]
            F == [j \in Locker |-> [acc \in Reach |-> Ored(r, i, acc, j)]]
            after == CHOOSE f : Orings(r, i, f)
<1>a. NLockers \in Nat /\ Locker = 1 .. NLockers
    BY LockAssumption DEF Locker
<1>1. Closure(r, i) = after[NLockers]
    BY DEF Closure, ForEachLocker, Orings, Ored
<1>2. start \in Reach
    BY DEF Reach
<1>3. F \in [Locker -> [Reach -> Reach]]
    BY OredIs
<1>4. \E f : Orings(r, i, f)
    <2>a. PICK first \in Reach : first = start
        BY <1>2
    <2>b. PICK G \in [Locker -> [Reach -> Reach]] : G = F
        BY <1>3
    <2>c. PICK f : Passes(f, Reach, first, G)
        BY LoopExists
    <2>1. /\ f \in [0 .. NLockers -> Reach] /\ f[0] = first
          /\ \A j \in Locker : f[j] = G[j][f[j - 1]]
        BY <2>c DEF Passes
    <2>2. ASSUME NEW j \in 0 .. NLockers
          PROVE  f[j] = IF j = 0 THEN start
                        ELSE CHOOSE x \in {Ored(r, i, y, j) : y \in {f[j - 1]}} : TRUE
        <3>1. CASE j = 0
            BY <2>1, <2>a, <3>1
        <3>2. CASE j # 0
            <4>1. j \in Locker /\ j - 1 \in 0 .. NLockers
                BY <1>a, <3>2
            <4>2. f[j - 1] \in Reach
                BY <2>1, <4>1
            <4>3. f[j] = Ored(r, i, f[j - 1], j)
                BY <2>1, <2>b, <4>1, <4>2
            <4>4. {Ored(r, i, y, j) : y \in {f[j - 1]}} = {f[j]}
                BY <4>3
            <4>. QED
                BY <3>2, <4>4
        <3>. QED
            BY <3>1, <3>2
    <2>3. f = [j \in 0 .. NLockers |-> f[j]]
        BY <2>1
    <2>. HIDE DEF start, F
    <2>4. f = [j \in 0 .. NLockers |->
                  IF j = 0 THEN start
                  ELSE CHOOSE x \in {Ored(r, i, y, j) : y \in {f[j - 1]}} : TRUE]
        BY <2>2, <2>3
    <2>5. Orings(r, i, f)
        BY <2>4 DEF Orings, start
    <2>. QED
        BY <2>5
<1>5. Orings(r, i, after)
    <2>. QED
        BY <1>4
<1>. HIDE DEF after
<1>6. after[0] \in Reach
    BY <1>2, <1>5, <1>a DEF Orings
<1>7. ASSUME NEW j \in Locker, after[j - 1] \in Reach
      PROVE  after[j] \in Reach
    <2>1. j \in 0 .. NLockers /\ j # 0
        BY <1>a
    <2>2. after[j] = CHOOSE x \in {Ored(r, i, y, j) : y \in {after[j - 1]}} : TRUE
        BY <1>5, <2>1 DEF Orings
    <2>3. {Ored(r, i, y, j) : y \in {after[j - 1]}} = {Ored(r, i, after[j - 1], j)}
        OBVIOUS
    <2>4. after[j] = Ored(r, i, after[j - 1], j)
        BY <2>2, <2>3
    <2>. QED
        BY <1>7, <2>4, OredIs
<1>8. after[NLockers] \in Reach
    BY <1>6, <1>7, <1>a, LoopStays
<1>. QED
    BY <1>1, <1>8

LEMMA VictimIs ==
    ASSUME LockInv, NEW l \in Locker, NEW all
    PROVE  Victim(l, all) \in Doom
<1>1. PICK last : last = IF heldby[l] = <<>> THEN NoLock ELSE Head(heldby[l])
    OBVIOUS
<1>2. heldby[l] \in List(LockId) /\ lock \in [LockId -> Lock]
    BY DEF LockInv, LockTypes
<1>3. last = NoLock \/ last \in LockId
    BY <1>1, <1>2, ListIs
<1>4. PICK obj : obj = IF last = NoLock THEN NoObject ELSE lock[last].obj
    OBVIOUS
<1>5. obj \in Object \cup {NoObject}
    BY <1>2, <1>3, <1>4 DEF Lock
<1>6. Verified(l, all) \in BOOLEAN
    BY DEF Verified
<1>7. Victim(l, all) = [locker |-> l, last |-> last, obj |-> obj, sure |-> Verified(l, all)]
    BY <1>1, <1>4 DEF Victim
<1>. QED
    BY <1>3, <1>5, <1>6, <1>7 DEF Doom

LEMMA TryLockerIs ==
    ASSUME LockInv, NEW acc \in Search, NEW i \in Locker
    PROVE  TryLocker(acc, i) \in Search
<1>1. /\ acc.row \in [Locker -> SUBSET Locker] /\ acc.valid \in SUBSET Locker
      /\ acc.victims \in Seq(Doom)
    BY DEF Search
<1>2. PICK c \in Reach : c = Closure(acc.row, i)
    BY <1>1, ClosureIs
<1>3. c.of \in SUBSET Locker
    BY <1>2 DEF Reach
<1>4. [acc.row EXCEPT ![i] = c.of] \in [Locker -> SUBSET Locker]
    BY <1>1, <1>3
<1>5. Append(acc.victims, Victim(i, c.of)) \in Seq(Doom)
    BY <1>1, VictimIs, AppendProperties
<1>6. TryLocker(acc, i) =
          IF i \notin acc.valid THEN acc
          ELSE [row     |-> [acc.row EXCEPT ![i] = c.of],
                valid   |-> IF c.found THEN acc.valid \ c.of ELSE acc.valid,
                victims |-> IF c.found THEN Append(acc.victims, Victim(i, c.of))
                                       ELSE acc.victims]
    BY <1>2 DEF TryLocker
<1>. QED
    BY <1>1, <1>4, <1>5, <1>6 DEF Search

Searches(f) ==
    f = [j \in 0 .. NLockers |->
            IF j = 0 THEN [row |-> row, valid |-> Locker, victims |-> <<>>]
            ELSE CHOOSE x \in {TryLocker(y, j) : y \in {f[j - 1]}} : TRUE]

LEMMA VictimsIs ==
    ASSUME LockInv, row \in [Locker -> SUBSET Locker]
    PROVE  Victims \in Seq(Doom)
<1>. DEFINE start == [row |-> row, valid |-> Locker, victims |-> <<>>]
            F == [j \in Locker |-> [acc \in Search |-> TryLocker(acc, j)]]
            after == CHOOSE f : Searches(f)
<1>a. NLockers \in Nat /\ Locker = 1 .. NLockers
    BY LockAssumption DEF Locker
<1>1. Victims = after[NLockers].victims
    BY DEF Victims, ForEachLocker, Searches
<1>2. start \in Search
    BY DEF Search
<1>3. F \in [Locker -> [Search -> Search]]
    BY TryLockerIs
<1>4. \E f : Searches(f)
    <2>a. PICK first \in Search : first = start
        BY <1>2
    <2>b. PICK G \in [Locker -> [Search -> Search]] : G = F
        BY <1>3
    <2>c. PICK f : Passes(f, Search, first, G)
        BY LoopExists
    <2>1. /\ f \in [0 .. NLockers -> Search] /\ f[0] = first
          /\ \A j \in Locker : f[j] = G[j][f[j - 1]]
        BY <2>c DEF Passes
    <2>2. ASSUME NEW j \in 0 .. NLockers
          PROVE  f[j] = IF j = 0 THEN start
                        ELSE CHOOSE x \in {TryLocker(y, j) : y \in {f[j - 1]}} : TRUE
        <3>1. CASE j = 0
            BY <2>1, <2>a, <3>1
        <3>2. CASE j # 0
            <4>1. j \in Locker /\ j - 1 \in 0 .. NLockers
                BY <1>a, <3>2
            <4>2. f[j - 1] \in Search
                BY <2>1, <4>1
            <4>3. f[j] = TryLocker(f[j - 1], j)
                BY <2>1, <2>b, <4>1, <4>2
            <4>4. {TryLocker(y, j) : y \in {f[j - 1]}} = {f[j]}
                BY <4>3
            <4>. QED
                BY <3>2, <4>4
        <3>. QED
            BY <3>1, <3>2
    <2>3. f = [j \in 0 .. NLockers |-> f[j]]
        BY <2>1
    <2>. HIDE DEF start, F
    <2>4. f = [j \in 0 .. NLockers |->
                  IF j = 0 THEN start
                  ELSE CHOOSE x \in {TryLocker(y, j) : y \in {f[j - 1]}} : TRUE]
        BY <2>2, <2>3
    <2>5. Searches(f)
        BY <2>4 DEF Searches, start
    <2>. QED
        BY <2>5
<1>5. Searches(after)
    BY <1>4
<1>. HIDE DEF after
<1>6. after[0] \in Search
    BY <1>2, <1>5, <1>a DEF Searches
<1>7. ASSUME NEW j \in Locker, after[j - 1] \in Search
      PROVE  after[j] \in Search
    <2>1. j \in 0 .. NLockers /\ j # 0
        BY <1>a
    <2>2. after[j] = CHOOSE x \in {TryLocker(y, j) : y \in {after[j - 1]}} : TRUE
        BY <1>5, <2>1 DEF Searches
    <2>3. {TryLocker(y, j) : y \in {after[j - 1]}} = {TryLocker(after[j - 1], j)}
        OBVIOUS
    <2>4. after[j] = TryLocker(after[j - 1], j)
        BY <2>2, <2>3
    <2>. QED
        BY <1>7, <2>4, TryLockerIs
<1>8. after[NLockers] \in Search
    BY <1>6, <1>7, <1>a, LoopStays
<1>. QED
    BY <1>1, <1>8 DEF Search

-----------------------------------------------------------------------------
(***************************************************************************)
(* The steps, for the detector's state                                     *)
(***************************************************************************)

\* Steps that leave the list of contested objects, the walk and the victims
\* alone, and send nobody to kill.
LEMMA OtherStep ==
    ASSUME LockInv, DdInv, NEW l \in Locker,
           UNCHANGED <<waiters, ddObjs, changed, doomed, walk>>, needDd' \in BOOLEAN,
           pc' = pc \/ \E place \in Places \ {"kill"} : Goes(l, place)
    PROVE  DdInv'
<1>1. DdTypes'
    BY DEF DdInv, DdTypes, walk
<1>2. Contested' /\ OnList'
    BY DEF DdInv, Contested, OnList, walk
<1>3. KillHas'
    <2>1. CASE pc' = pc
        BY <2>1 DEF DdInv, KillHas
    <2>2. ASSUME NEW place \in Places \ {"kill"}, Goes(l, place) PROVE KillHas'
        <3>1. \A u \in Locker : pc'[u] = IF u = l THEN place ELSE pc[u]
            BY <2>2, GoesIs DEF LockInv
        <3>. QED
            BY <3>1 DEF DdInv, KillHas
    <2>. QED
        BY <2>1, <2>2
<1>. QED
    BY <1>1, <1>2, <1>3 DEF DdInv

\* The waiters W of o are what its queue becomes.
LEMMA ListedIs ==
    ASSUME LockInv, DdInv, NEW o \in Object, NEW W \in List(LockId),
           waiters' = [waiters EXCEPT ![o] = W], W # <<>> => waiters[o] # <<>>,
           ddObjs' = Listed(o, W)
    PROVE  ddObjs' \in List(Object) /\ Contested'
<1>1. ddObjs \in List(Object) /\ Contested /\ waiters \in [Object -> List(LockId)]
    BY DEF DdInv, DdTypes, LockInv, LockTypes
<1>2. /\ ddObjs' \in List(Object)
      /\ \A x : x \in ToSet(ddObjs') <=> x \in ToSet(ddObjs) /\ ~(W = <<>> /\ x = o)
    <2>1. CASE W = <<>>
        BY <1>1, <2>1, ListRemove DEF Listed
    <2>2. CASE W # <<>>
        BY <1>1, <2>2 DEF Listed
    <2>. QED
        BY <2>1, <2>2
<1>3. \A x \in Object : waiters'[x] = IF x = o THEN W ELSE waiters[x]
    BY <1>1
<1>. QED
    BY <1>1, <1>2, <1>3 DEF Contested

\* A promotion among the waiters W of o, some of those it had.
LEMMA PromoteLists ==
    ASSUME LockInv, DdInv, NEW o \in Object, NEW k, NEW H, NEW W \in List(LockId),
           waiters[o] = <<>> => W = <<>>, NEW extra, Promote(o, k, H, W, extra)
    PROVE  /\ ddObjs' \in List(Object) /\ Contested'
           /\ \A x \in Object : x # o => waiters'[x] = waiters[x]
<1>1. PICK n \in 0 .. Len(W) :
          /\ waiters' = [waiters EXCEPT ![o] = SubSeq(W, n + 1, Len(W))]
          /\ ddObjs' = Listed(o, SubSeq(W, n + 1, Len(W)))
    BY DEF Promote
<1>2. PICK V : V = SubSeq(W, n + 1, Len(W))
    OBVIOUS
<1>3. V \in List(LockId) /\ ToSet(V) \subseteq ToSet(W)
    BY <1>2, ListSplit
<1>4. V # <<>> => waiters[o] # <<>>
    <2>1. V # <<>> => W # <<>>
        BY <1>3, ListIs
    <2>. QED
        BY <2>1
<1>5. waiters' = [waiters EXCEPT ![o] = V] /\ ddObjs' = Listed(o, V)
    BY <1>1, <1>2
<1>6. ddObjs' \in List(Object) /\ Contested'
    BY <1>3, <1>4, <1>5, ListedIs
<1>7. waiters \in [Object -> List(LockId)]
    BY DEF LockInv, LockTypes
<1>. QED
    BY <1>5, <1>6, <1>7

\* A release or a downgrade: the generation says what a walk has missed.
LEMMA ShorterQueue ==
    ASSUME LockInv, DdInv, NEW l \in Locker, NEW o \in Object, NEW k, NEW H,
           Promote(o, k, H, waiters[o], {}), GenerationChanges(o),
           UNCHANGED <<doomed, walk>>, needDd' \in BOOLEAN,
           pc' = pc \/ \E place \in Places \ {"kill"} : Goes(l, place)
    PROVE  DdInv'
<1>1. waiters[o] \in List(LockId)
    BY DEF LockInv, LockTypes
<1>2. /\ ddObjs' \in List(Object) /\ Contested'
      /\ \A x \in Object : x # o => waiters'[x] = waiters[x]
    BY <1>1, PromoteLists
<1>3. changed' \in BOOLEAN
    BY DEF GenerationChanges, DdInv, DdTypes
<1>4. DdTypes'
    BY <1>2, <1>3 DEF DdInv, DdTypes, walk
<1>5. OnList'
    <2>. SUFFICES ASSUME walker # NoLocker, op # NoObject, ~changed' PROVE waiters'[op] # <<>>
        BY DEF OnList, walk
    <2>1. ~changed /\ ~(op = o /\ waiters[o] # <<>> /\ waiters'[o] = <<>>)
        BY DEF GenerationChanges
    <2>2. waiters[op] # <<>> /\ op \in Object
        BY <2>1 DEF DdInv, OnList, DdTypes
    <2>. QED
        BY <1>2, <2>1, <2>2
<1>6. KillHas'
    <2>1. CASE pc' = pc
        BY <2>1 DEF DdInv, KillHas
    <2>2. ASSUME NEW place \in Places \ {"kill"}, Goes(l, place) PROVE KillHas'
        <3>1. \A u \in Locker : pc'[u] = IF u = l THEN place ELSE pc[u]
            BY <2>2, GoesIs DEF LockInv
        <3>. QED
            BY <3>1 DEF DdInv, KillHas
    <2>. QED
        BY <2>1, <2>2
<1>. QED
    BY <1>2, <1>4, <1>5, <1>6 DEF DdInv

LEMMA ReleaseLists ==
    ASSUME LockInv, DdInv, NEW l \in Locker,
           \/ PutAll(l)
           \/ \E i \in LockId : Put(l, i) \/ Downgrade(l, i)
    PROVE  DdInv'
<1>a. /\ \A u \in Locker : heldby[u] \in List(LockId)
      /\ \A i \in LockId : lock[i].status # "FREE" => lock[i].obj \in Object
    BY DEF LockInv, LockTypes, ListsTell, HeldTell
<1>1. ASSUME NEW i, i \in ToSet(heldby[l]), pc[l] \in {"run", "abort", "putall"}
      PROVE  i \in LockId /\ lock[i].obj \in Object
    BY <1>1, <1>a, NoneOpen
<1>2. ASSUME NEW i, i \in ToSet(heldby[l]), pc[l] \in {"run", "abort", "putall"},
             PutLock(l, i), UNCHANGED <<doomed, walk>>,
             NEW place \in Places \ {"kill"}, Goes(l, place)
      PROVE  DdInv'
    <2>1. PICK o \in Object : o = lock[i].obj
        BY <1>1, <1>2
    <2>2. /\ Promote(o, [lock EXCEPT ![i] = Free], RemoveFirst(holders[o], i), waiters[o], {})
          /\ GenerationChanges(o)
          /\ needDd' = (needDd \/ (waiters[o] # <<>> /\ waiters'[o] = waiters[o]))
        BY <1>2, <2>1 DEF PutLock
    <2>3. needDd' \in BOOLEAN
        BY <2>2 DEF DdInv, DdTypes
    <2>. QED
        BY <1>2, <2>2, <2>3, ShorterQueue
<1>3. CASE PutAll(l)
    <2>1. /\ pc[l] \in {"run", "abort", "putall"} /\ heldby[l] # <<>>
          /\ PutLock(l, Head(heldby[l])) /\ UNCHANGED <<doomed, walk>>
        BY <1>3 DEF PutAll, walk
    <2>2. Head(heldby[l]) \in ToSet(heldby[l])
        BY <1>a, <2>1, ListIs
    <2>3. PICK place \in Places \ {"kill"} : Goes(l, place)
        BY <1>3, AfterPutIs DEF PutAll, Places
    <2>. QED
        BY <1>2, <2>1, <2>2, <2>3
<1>4. ASSUME NEW i \in LockId, Put(l, i) PROVE DdInv'
    <2>1. /\ pc[l] = "run" /\ i \in ToSet(heldby[l])
          /\ PutLock(l, i) /\ UNCHANGED <<doomed, walk>>
        BY <1>4 DEF Put, walk
    <2>2. PICK place \in Places \ {"kill"} : Goes(l, place)
        BY <1>4, AfterPutIs DEF Put, Places
    <2>. QED
        BY <1>2, <2>1, <2>2
<1>5. ASSUME NEW i \in LockId, Downgrade(l, i) PROVE DdInv'
    <2>1. /\ pc[l] = "run" /\ i \in ToSet(heldby[l])
          /\ UNCHANGED <<pc, needDd, doomed, walk>>
        BY <1>5 DEF Downgrade, walk
    <2>2. PICK o \in Object : o = lock[i].obj
        BY <1>1, <2>1
    <2>3. /\ Promote(o, [lock EXCEPT ![i].mode = "READ"], holders[o], waiters[o], {})
          /\ GenerationChanges(o)
        BY <1>5, <2>2 DEF Downgrade
    <2>4. needDd' \in BOOLEAN
        BY <2>1 DEF DdInv, DdTypes
    <2>. QED
        BY <2>1, <2>3, <2>4, ShorterQueue
<1>. QED
    BY <1>3, <1>4, <1>5

\* Steps on the locks that change no queue of waiters.
LEMMA HolderSteps ==
    ASSUME LockInv, DdInv, NEW l \in Locker,
           \/ \E o, m : GetAgain(l, o, m) \/ Grant(l, o, m)
           \/ \E i \in LockId : PutReference(l, i)
           \/ PutNone(l) \/ Wake(l)
    PROVE  DdInv'
<1>0. needDd \in BOOLEAN
    BY DEF DdInv, DdTypes
<1>1. UNCHANGED <<waiters, ddObjs, changed, doomed, walk>> /\ needDd' = needDd
    BY DEF GetAgain, Grant, PutReference, PutNone, Wake, lists
<1>2. pc' = pc \/ \E place \in Places \ {"kill"} : Goes(l, place)
    <2>1. ASSUME NEW o, NEW m, GetAgain(l, o, m) \/ Grant(l, o, m) PROVE pc' = pc
        BY <2>1 DEF GetAgain, Grant
    <2>2. ASSUME PutNone(l) \/ \E i \in LockId : PutReference(l, i)
          PROVE  \E place \in Places \ {"kill"} : Goes(l, place)
        BY <2>2, AfterPutIs DEF PutNone, PutReference, Places
    <2>3. ASSUME Wake(l) PROVE \E place \in Places \ {"kill"} : Goes(l, place)
        <3>1. PICK place \in {"run", "abort", "panic"} : Goes(l, place)
            BY <2>3 DEF Wake
        <3>. QED
            BY <3>1 DEF Places
    <2>. QED
        BY <2>1, <2>2, <2>3
<1>. QED
    BY <1>0, <1>1, <1>2, OtherStep

LEMMA EnqueueLists ==
    ASSUME LockInv, DdInv, NEW l \in Locker, NEW o \in Object, NEW m \in Mode,
           Enqueue(l, o, m)
    PROVE  DdInv'
<1>1. PICK i \in LockId :
          /\ Take(i, l, o, m, "WAITING")
          /\ waiters' = [waiters EXCEPT ![o] =
                             IF HolderConflict(l, o, m) /\ Own(l, o, m) # {}
                             THEN <<i>> \o @ ELSE Append(@, i)]
    BY DEF Enqueue
<1>2. /\ ddObjs' = IF waiters[o] = <<>> THEN <<o>> \o ddObjs ELSE ddObjs
      /\ pc[l] = "run" /\ needDd' = TRUE /\ UNCHANGED <<changed, doomed, walk>>
    BY DEF Enqueue, walk
<1>3. PICK place \in {"detect", "sleep"} : Goes(l, place)
    BY DEF Enqueue
<1>4. lock[i].status = "FREE"
    BY <1>1, <1>2, TakeIs
<1>5. i \notin ToSet(waiters[o]) /\ waiters \in [Object -> List(LockId)]
    BY <1>4 DEF LockInv, ListsTell, WaitersTell, LockTypes
<1>6. PICK W : W = IF HolderConflict(l, o, m) /\ Own(l, o, m) # {}
                   THEN <<i>> \o waiters[o] ELSE Append(waiters[o], i)
    OBVIOUS
<1>7. W # <<>>
    <2>1. ToSet(W) = ToSet(waiters[o]) \cup {i} /\ W \in List(LockId)
        BY <1>5, <1>6, ListCons, ListAppend
    <2>. QED
        BY <2>1, ListIs
<1>8. \A x \in Object : waiters'[x] = IF x = o THEN W ELSE waiters[x]
    BY <1>1, <1>5, <1>6
<1>9. /\ ddObjs' \in List(Object)
      /\ \A x \in Object : x \in ToSet(ddObjs') <=> x \in ToSet(ddObjs) \/ x = o
    <2>1. ddObjs \in List(Object) /\ (o \in ToSet(ddObjs) <=> waiters[o] # <<>>)
        BY DEF DdInv, DdTypes, Contested
    <2>2. CASE waiters[o] = <<>>
        BY <1>2, <2>1, <2>2, ListCons
    <2>3. CASE waiters[o] # <<>>
        BY <1>2, <2>1, <2>3
    <2>. QED
        BY <2>2, <2>3
<1>10. DdTypes'
    BY <1>2, <1>9 DEF DdInv, DdTypes, walk
<1>11. Contested'
    BY <1>7, <1>8, <1>9 DEF DdInv, Contested
<1>12. OnList'
    BY <1>2, <1>7, <1>8 DEF DdInv, OnList, DdTypes, walk
<1>13. KillHas'
    <2>1. \A u \in Locker : pc'[u] = IF u = l THEN place ELSE pc[u]
        BY <1>3, GoesIs DEF LockInv, Places
    <2>. QED
        BY <1>2, <2>1 DEF DdInv, KillHas
<1>. QED
    BY <1>10, <1>11, <1>12, <1>13 DEF DdInv

\* Where a walk begins: at an object with waiters, if there is one.
LEMMA FirstObjIs ==
    ASSUME DdInv
    PROVE  FirstObj \in Object \cup {NoObject}
           /\ (FirstObj # NoObject => waiters[FirstObj] # <<>>)
<1>1. ddObjs \in List(Object) /\ Contested
    BY DEF DdInv, DdTypes
<1>2. CASE ddObjs = <<>>
    BY <1>2 DEF FirstObj
<1>3. CASE ddObjs # <<>>
    <2>1. FirstObj = Head(ddObjs) /\ Head(ddObjs) \in ToSet(ddObjs) /\ Head(ddObjs) \in Object
        BY <1>1, <1>3, ListIs DEF FirstObj
    <2>. QED
        BY <1>1, <2>1 DEF Contested
<1>. QED
    BY <1>2, <1>3

\* Steps of the walk that leave everything else alone.
LEMMA WalkStep ==
    ASSUME LockInv, DdInv,
           UNCHANGED <<waiters, ddObjs, needDd, pc, doomed>>,
           walker' \in Locker, op' \in Object \cup {NoObject}, changed' = FALSE,
           row' \in [Locker -> SUBSET Locker], selfWait' \in SUBSET Locker,
           op' # NoObject => waiters[op'] # <<>>
    PROVE  DdInv'
<1>1. DdTypes'
    BY DEF DdInv, DdTypes
<1>. QED
    BY <1>1 DEF DdInv, Contested, OnList, KillHas

\* __dd_build goes on to the next object of the list.
LEMMA NextObjIs ==
    ASSUME DdInv, NEW x \in ToSet(ddObjs),
           NEW next, next = {k \in DOMAIN ddObjs : ddObjs[k] = x},
           NEW y, y = IF Max(next) = Len(ddObjs) THEN NoObject ELSE ddObjs[Max(next) + 1]
    PROVE  y = NoObject \/ y \in ToSet(ddObjs)
<1>1. ddObjs \in List(Object)
    BY DEF DdInv, DdTypes
<1>2. /\ DOMAIN ddObjs = 1 .. Len(ddObjs) /\ Len(ddObjs) \in Nat
      /\ \A i, j \in 1 .. Len(ddObjs) : ddObjs[i] = ddObjs[j] => i = j
      /\ \A i \in 1 .. Len(ddObjs) : ddObjs[i] \in ToSet(ddObjs)
      /\ \E i \in 1 .. Len(ddObjs) : ddObjs[i] = x
    BY <1>1, ListIs
<1>3. PICK k \in 1 .. Len(ddObjs) : ddObjs[k] = x
    BY <1>2
<1>4. next = {k}
    BY <1>2, <1>3
<1>5. Max({k}) = k
    BY <1>2, <1>3 DEF Max
<1>6. k # Len(ddObjs) => k + 1 \in 1 .. Len(ddObjs)
    <2>1. PICK n \in Nat : n = Len(ddObjs)
        BY <1>2
    <2>2. k \in 1 .. n
        BY <1>3, <2>1
    <2>3. k # n => k + 1 \in 1 .. n
        BY <2>2
    <2>. QED
        BY <2>1, <2>3
<1>. QED
    BY <1>2, <1>4, <1>5, <1>6

LEMMA BuildObjectStep ==
    ASSUME LockInv, DdInv, NEW l \in Locker, BuildObject(l)
    PROVE  DdInv'
<1>1. /\ walker = l /\ op # NoObject /\ ~changed /\ changed' = FALSE
      /\ UNCHANGED <<waiters, ddObjs, needDd, pc, doomed, walker>>
    BY DEF BuildObject, lists
<1>2. /\ op \in Object /\ waiters[op] # <<>> /\ op \in ToSet(ddObjs)
    BY <1>1, LockAssumption DEF DdInv, DdTypes, OnList, Contested, Locker, NoLocker
<1>3. PICK W : W = waiters[op]
    OBVIOUS
<1>4. PICK holding : holding = {Holder(i) : i \in {h \in ToSet(holders[op]) :
                                                        lock[h].status = "HELD"}}
    OBVIOUS
<1>5. PICK first : first = Holder(Head(W))
    OBVIOUS
<1>6. PICK later : later = {Holder(W[k]) : k \in 2 .. Len(W)}
    OBVIOUS
<1>7. PICK waiting : waiting = {Holder(i) : i \in ToSet(W)}
    OBVIOUS
<1>8. PICK next : next = {k \in DOMAIN ddObjs : ddObjs[k] = op}
    OBVIOUS
<1>9. /\ row' = [j \in Locker |->
                    IF j \notin waiting THEN row[j]
                    ELSE (row[j] \cup holding) \
                             (IF j = first /\ j \notin later THEN {j} ELSE {})]
      /\ selfWait' = selfWait \cup (IF first \in row[first] \cup holding
                                    THEN {first} ELSE {})
      /\ op' = IF Max(next) = Len(ddObjs) THEN NoObject ELSE ddObjs[Max(next) + 1]
    BY <1>3, <1>4, <1>5, <1>6, <1>7, <1>8 DEF BuildObject
<1>10. holding \in SUBSET Locker /\ first \in Locker
    <2>1. holders[op] \in List(LockId) /\ W \in List(LockId)
        BY <1>2, <1>3 DEF LockInv, LockTypes
    <2>2. ToSet(holders[op]) \in SUBSET LockId /\ Head(W) \in LockId
        BY <1>2, <1>3, <2>1, ListIs
    <2>. QED
        BY <1>4, <1>5, <2>2, LockIdIs
<1>11. row' \in [Locker -> SUBSET Locker] /\ selfWait' \in SUBSET Locker
    <2>1. row \in [Locker -> SUBSET Locker] /\ selfWait \in SUBSET Locker
        BY DEF DdInv, DdTypes
    <2>. QED
        BY <1>9, <1>10, <2>1
<1>12. op' = NoObject \/ op' \in ToSet(ddObjs)
    BY <1>2, <1>8, <1>9, NextObjIs
<1>13. ToSet(ddObjs) \in SUBSET Object
    <2>1. ddObjs \in List(Object)
        BY DEF DdInv, DdTypes
    <2>. QED
        BY <2>1, ListIs
<1>14. op' # NoObject => op' \in Object /\ waiters[op'] # <<>>
    BY <1>12, <1>13 DEF DdInv, Contested
<1>. QED
    BY <1>1, <1>11, <1>14, WalkStep

LEMMA WalkSteps ==
    ASSUME LockInv, DdInv, NEW l \in Locker,
           BuildStart(l) \/ BuildAgain(l) \/ BuildObject(l)
    PROVE  DdInv'
<1>1. CASE BuildStart(l)
    <2>1. /\ walker' = l /\ op' = FirstObj /\ changed' = FALSE
          /\ row' = [j \in Locker |-> {}] /\ selfWait' = {}
          /\ UNCHANGED <<waiters, ddObjs, needDd, pc, doomed>>
        BY <1>1 DEF BuildStart, lists
    <2>2. row' \in [Locker -> SUBSET Locker] /\ selfWait' \in SUBSET Locker
        BY <2>1
    <2>. QED
        BY <2>1, <2>2, FirstObjIs, WalkStep
<1>2. CASE BuildAgain(l)
    <2>1. /\ walker' = l /\ op' = FirstObj /\ changed' = FALSE
          /\ row' = [j \in Locker |-> {}] /\ selfWait' = selfWait
          /\ UNCHANGED <<waiters, ddObjs, needDd, pc, doomed>>
        BY <1>2 DEF BuildAgain, lists
    <2>2. row' \in [Locker -> SUBSET Locker] /\ selfWait' \in SUBSET Locker
        BY <2>1 DEF DdInv, DdTypes
    <2>. QED
        BY <2>1, <2>2, FirstObjIs, WalkStep
<1>3. CASE BuildObject(l)
    BY <1>3, BuildObjectStep
<1>. QED
    BY <1>1, <1>2, <1>3

LEMMA BuildEndStep ==
    ASSUME LockInv, DdInv, NEW l \in Locker, BuildEnd(l)
    PROVE  DdInv'
<1>1. /\ doomed' = [doomed EXCEPT ![l] = Victims]
      /\ Goes(l, IF doomed'[l] = <<>> THEN Resume(l) ELSE "kill")
      /\ walker' = NoLocker /\ row' = [j \in Locker |-> {}] /\ selfWait' = {}
      /\ UNCHANGED <<waiters, ddObjs, needDd, op, changed>>
    BY DEF BuildEnd, lists
<1>2. Victims \in Seq(Doom)
    BY VictimsIs DEF DdInv, DdTypes
<1>3. DdTypes'
    <2>1. doomed' \in [Locker -> Seq(Doom)]
        BY <1>1, <1>2 DEF DdInv, DdTypes
    <2>2. row' \in [Locker -> SUBSET Locker] /\ selfWait' \in SUBSET Locker
        BY <1>1
    <2>. QED
        BY <1>1, <2>1, <2>2 DEF DdInv, DdTypes
<1>4. Contested' /\ OnList'
    BY <1>1 DEF DdInv, Contested, OnList
<1>5. KillHas'
    <2>1. PICK place : place = IF doomed'[l] = <<>> THEN Resume(l) ELSE "kill"
        OBVIOUS
    <2>2. place \in Places /\ (place = "kill" => doomed'[l] # <<>>)
        BY <2>1 DEF Resume, Places
    <2>3. \A u \in Locker : pc'[u] = IF u = l THEN place ELSE pc[u]
        BY <1>1, <2>1, <2>2, GoesIs DEF LockInv
    <2>4. \A u \in Locker : u # l => doomed'[u] = doomed[u]
        BY <1>1 DEF DdInv, DdTypes
    <2>. QED
        BY <2>2, <2>3, <2>4 DEF DdInv, KillHas
<1>. QED
    BY <1>3, <1>4, <1>5 DEF DdInv

\* The next victim, if there is one.
LEMMA AfterKillIs ==
    ASSUME LockInv, DdInv, NEW l \in Locker, pc[l] = "kill", AfterKill(l)
    PROVE  doomed' \in [Locker -> Seq(Doom)] /\ KillHas'
<1>1. doomed \in [Locker -> Seq(Doom)] /\ doomed[l] # <<>>
    BY DEF DdInv, DdTypes, KillHas
<1>2. PICK s \in Seq(Doom) : s = doomed[l]
    BY <1>1
<1>3. /\ Tail(s) \in Seq(Doom) /\ Len(Tail(s)) = Len(s) - 1 /\ Len(s) \in Nat
    BY <1>1, <1>2, HeadTailProperties, LenProperties
<1>4. Len(s) > 1 => Tail(s) # <<>>
    <2>1. Tail(s) = <<>> => Len(Tail(s)) = 0
        BY EmptySeq
    <2>2. PICK n \in Nat : n = Len(s)
        BY <1>3
    <2>3. Len(Tail(s)) = n - 1
        BY <1>3, <2>2
    <2>4. n > 1 => n - 1 # 0
        OBVIOUS
    <2>. QED
        BY <2>1, <2>2, <2>3, <2>4
<1>5. doomed' = [doomed EXCEPT ![l] = Tail(s)]
    BY <1>2 DEF AfterKill
<1>6. PICK place : /\ place = IF Len(s) > 1 THEN "kill" ELSE Resume(l)
                   /\ Goes(l, place)
    BY <1>2 DEF AfterKill
<1>7. place \in Places /\ (place = "kill" => Tail(s) # <<>>)
    BY <1>4, <1>6 DEF Resume, Places
<1>8. \A u \in Locker : pc'[u] = IF u = l THEN place ELSE pc[u]
    BY <1>6, <1>7, GoesIs DEF LockInv
<1>9. /\ doomed' \in [Locker -> Seq(Doom)]
      /\ \A u \in Locker : doomed'[u] = IF u = l THEN Tail(s) ELSE doomed[u]
    BY <1>1, <1>3, <1>5
<1>. QED
    BY <1>7, <1>8, <1>9 DEF DdInv, KillHas

LEMMA KillSteps ==
    ASSUME LockInv, DdInv, NEW l \in Locker,
           AlreadyAborted(l) \/ \E i \in LockId : Abort(l, i)
    PROVE  DdInv'
<1>1. CASE AlreadyAborted(l)
    <2>1. /\ pc[l] = "kill" /\ AfterKill(l) /\ needDd' = TRUE
          /\ UNCHANGED <<waiters, ddObjs, changed, walk>>
        BY <1>1 DEF AlreadyAborted, lists, walk
    <2>2. doomed' \in [Locker -> Seq(Doom)] /\ KillHas'
        BY <2>1, AfterKillIs
    <2>3. DdTypes'
        BY <2>1, <2>2 DEF DdInv, DdTypes, walk
    <2>. QED
        BY <2>1, <2>2, <2>3 DEF DdInv, Contested, OnList, walk
<1>2. ASSUME NEW i \in LockId, Abort(l, i) PROVE DdInv'
    <2>1. /\ pc[l] = "kill" /\ walker = NoLocker /\ AfterKill(l)
          /\ lock[i].status = "WAITING"
          /\ Promote(lock[i].obj, [lock EXCEPT ![i].status = "ABORTED"],
                     holders[lock[i].obj], RemoveFirst(waiters[lock[i].obj], i), {Holder(i)})
          /\ UNCHANGED <<changed, walk>>
        BY <1>2 DEF Abort, StillWaits, walk
    <2>2. needDd' \in BOOLEAN
        <3>1. PICK sure : needDd' = (needDd \/ ~sure)
            BY <1>2 DEF Abort
        <3>. QED
            BY <3>1 DEF DdInv, DdTypes
    <2>3. PICK o \in Object : o = lock[i].obj
        BY <2>1 DEF LockInv, ListsTell, HeldTell
    <2>4. PICK W : W = RemoveFirst(waiters[o], i)
        OBVIOUS
    <2>5. W \in List(LockId) /\ (waiters[o] = <<>> => W = <<>>)
        <3>1. waiters[o] \in List(LockId)
            BY DEF LockInv, LockTypes
        <3>2. W \in List(LockId) /\ ToSet(W) = ToSet(waiters[o]) \ {i}
            BY <2>4, <3>1, ListRemove
        <3>. QED
            BY <3>1, <3>2, ListIs
    <2>6. Promote(o, [lock EXCEPT ![i].status = "ABORTED"], holders[o], W, {Holder(i)})
        BY <2>1, <2>3, <2>4
    <2>7. ddObjs' \in List(Object) /\ Contested'
        BY <2>5, <2>6, PromoteLists
    <2>8. doomed' \in [Locker -> Seq(Doom)] /\ KillHas'
        BY <2>1, AfterKillIs
    <2>9. DdTypes'
        BY <2>1, <2>2, <2>7, <2>8 DEF DdInv, DdTypes, walk
    <2>10. OnList'
        BY <2>1 DEF OnList, walk
    <2>. QED
        BY <2>7, <2>8, <2>9, <2>10 DEF DdInv
<1>. QED
    BY <1>1, <1>2

LEMMA DetectStartStep ==
    ASSUME LockInv, DdInv, NEW l \in Locker, DetectStart(l)
    PROVE  DdInv'
<1>1. /\ UNCHANGED <<waiters, ddObjs, changed, doomed, walk>> /\ needDd' = FALSE
      /\ Goes(l, IF needDd THEN "build" ELSE Resume(l))
    BY DEF DetectStart, lists, walk
<1>2. (IF needDd THEN "build" ELSE Resume(l)) \in Places \ {"kill"}
    BY DEF Resume, Places
<1>3. PICK place \in Places \ {"kill"} : Goes(l, place)
    BY <1>1, <1>2
<1>. QED
    BY <1>1, <1>3, OtherStep

-----------------------------------------------------------------------------
(***************************************************************************)
(* The theorems                                                            *)
(***************************************************************************)
LEMMA InitInv == Init => LockInv
<1>. SUFFICES ASSUME Init PROVE LockInv
    OBVIOUS
<1>1. <<>> \in List(LockId) /\ ToSet(<<>>) = {}
    BY EmptyList
<1>2. LockTypes
    BY <1>1, Unused DEF Init, LockTypes, Places
<1>3. \A i \in LockId : lock[i].status = "FREE"
    BY Unused DEF Init
<1>4. ListsTell
    BY <1>1, <1>3 DEF Init, ListsTell, HoldersTell, WaitersTell, HeldTell, Granted
<1>5. Latest /\ WokenTells
    BY <1>3 DEF Init, Latest, WokenTells, Open, Settled
<1>6. Compatible /\ InTheWay
    BY <1>1 DEF Init, Compatible, InTheWay
<1>. QED
    BY <1>2, <1>4, <1>5, <1>6 DEF LockInv

LEMMA WantsIs ==
    ASSUME NEW l \in Locker, NEW w \in Wants[l]
    PROVE  w[1] \in Object /\ w[2] \in Mode
BY LockAssumption DEF Locker, Mode

\* LockInv is an inductive invariant of the lock manager.
THEOREM Inductive == Spec => []LockInv
<1>1. LockInv /\ [Next]_vars => LockInv'
    <2>. SUFFICES ASSUME LockInv, [Next]_vars PROVE LockInv'
        OBVIOUS
    <2>1. CASE UNCHANGED vars
        <3>1. UNCHANGED <<lock, pc, holders, waiters, heldby, woken>>
            BY <2>1 DEF vars, lists
        <3>2. \A j \in LockId : lock[j].status \in Open =>
                  pc[Holder(j)] \in {"sleep", "detect", "build", "kill"}
            BY DEF LockInv, Latest
        <3>3. lock \in [LockId -> Lock] /\ pc \in [Locker -> Places]
            BY DEF LockInv, LockTypes
        <3>. QED
            BY <3>1, <3>2, <3>3, SameLocks
    <2>2. ASSUME NEW l \in Locker, Requests(l)
          PROVE  LockInv'
        <3>1. CASE \E w \in Wants[l] : Grant(l, w[1], w[2])
            BY <3>1, WantsIs, GrantStep
        <3>2. CASE \E w \in Wants[l] : Enqueue(l, w[1], w[2])
            BY <3>2, WantsIs, EnqueueStep
        <3>3. CASE \E w \in Wants[l] : GetAgain(l, w[1], w[2])
            BY <3>3, WantsIs, ReferenceStep
        <3>4. CASE \E i \in LockId : PutReference(l, i)
            BY <3>4, ReferenceStep
        <3>5. CASE \E i \in LockId : Put(l, i)
            BY <3>5, ReleaseStep
        <3>6. CASE \E i \in LockId : Downgrade(l, i)
            BY <3>6, DowngradeStep
        <3>. QED
            BY <2>2, <3>1, <3>2, <3>3, <3>4, <3>5, <3>6 DEF Requests
    <2>3. ASSUME NEW l \in Locker, Detector(l)
          PROVE  LockInv'
        BY <2>3, QuietStep, AbortStep DEF Detector
    <2>4. ASSUME NEW l \in Locker, PutNone(l)
          PROVE  LockInv'
        BY <2>4, QuietStep
    <2>. QED
        BY <2>1, <2>2, <2>3, <2>4, WakeStep, ReleaseStep DEF Next
<1>. QED
    BY <1>1, InitInv, PTL DEF Spec

LEMMA DdInit == Init => DdInv
<1>. SUFFICES ASSUME Init PROVE DdInv
    OBVIOUS
<1>1. <<>> \in List(Object) /\ ToSet(<<>>) = {}
    BY EmptyList
<1>2. DdTypes
    <2>1. <<>> \in Seq(Doom)
        BY EmptySeq
    <2>2. doomed \in [Locker -> Seq(Doom)] /\ row \in [Locker -> SUBSET Locker]
        BY <2>1 DEF Init
    <2>. QED
        BY <1>1, <2>2 DEF Init, DdTypes
<1>. QED
    BY <1>1, <1>2 DEF Init, DdInv, Contested, OnList, KillHas

\* The detector's state, on top of what locks and lists say of each other.
THEOREM DetectorInductive == Spec => []DdInv
<1>1. LockInv /\ DdInv /\ [Next]_vars => DdInv'
    <2>. SUFFICES ASSUME LockInv, DdInv, [Next]_vars PROVE DdInv'
        OBVIOUS
    <2>1. CASE UNCHANGED vars
        <3>1. UNCHANGED <<waiters, ddObjs, needDd, changed, doomed, walk, pc>>
            BY <2>1 DEF vars, lists, walk
        <3>2. DdTypes'
            BY <3>1 DEF DdInv, DdTypes, walk
        <3>. QED
            BY <3>1, <3>2 DEF DdInv, Contested, OnList, KillHas, walk
    <2>2. ASSUME NEW l \in Locker, Requests(l) PROVE DdInv'
        <3>1. CASE \E w \in Wants[l] : Grant(l, w[1], w[2]) \/ GetAgain(l, w[1], w[2])
            BY <3>1, HolderSteps
        <3>2. CASE \E w \in Wants[l] : Enqueue(l, w[1], w[2])
            BY <3>2, WantsIs, EnqueueLists
        <3>3. CASE \E i \in LockId : PutReference(l, i)
            BY <3>3, HolderSteps
        <3>4. CASE \E i \in LockId : Put(l, i) \/ Downgrade(l, i)
            BY <3>4, ReleaseLists
        <3>. QED
            BY <2>2, <3>1, <3>2, <3>3, <3>4 DEF Requests
    <2>3. ASSUME NEW l \in Locker, Detector(l) PROVE DdInv'
        BY <2>3, DetectStartStep, WalkSteps, BuildEndStep, KillSteps DEF Detector
    <2>4. ASSUME NEW l \in Locker, Wake(l) \/ PutNone(l) PROVE DdInv'
        BY <2>4, HolderSteps
    <2>5. ASSUME NEW l \in Locker, PutAll(l) PROVE DdInv'
        BY <2>5, ReleaseLists
    <2>. QED
        BY <2>1, <2>2, <2>3, <2>4, <2>5 DEF Next
<1>. QED
    BY <1>1, DdInit, Inductive, PTL DEF Spec

\* Two lockers never hold locks that conflict on one object.
THEOREM NoConflictGranted == Spec => []HoldersCompatible
<1>1. LockInv => HoldersCompatible
    <2>. SUFFICES ASSUME LockInv, NEW o \in Object,
                         NEW j \in DOMAIN holders[o], NEW k \in DOMAIN holders[o]
                  PROVE  ~Blocks(holders[o][j], holders[o][k])
        BY DEF HoldersCompatible
    <2>1. holders[o] \in List(LockId)
        BY DEF LockInv, LockTypes
    <2>2. holders[o][j] \in ToSet(holders[o]) /\ holders[o][k] \in ToSet(holders[o])
        BY <2>1, ListIs
    <2>. QED
        BY <2>2 DEF LockInv, Compatible, Clash, Blocks
<1>. QED
    BY <1>1, Inductive, PTL

\* Whoever is first in a queue is kept there by somebody who holds a lock that
\* conflicts with his.
THEOREM GrantedWhenPossible == Spec => []NoMissedGrant
<1>1. LockInv => NoMissedGrant
    <2>. SUFFICES ASSUME LockInv, NEW o \in Object, waiters[o] # <<>>
                  PROVE  \E k \in DOMAIN holders[o] : Blocks(holders[o][k], Head(waiters[o]))
        BY DEF NoMissedGrant
    <2>1. holders[o] \in List(LockId)
        BY DEF LockInv, LockTypes
    <2>2. PICK h \in ToSet(holders[o]) : Clash(lock, h, Head(waiters[o]))
        BY DEF LockInv, InTheWay
    <2>3. PICK k \in DOMAIN holders[o] : holders[o][k] = h
        BY <2>1, ListIs
    <2>. QED
        BY <2>2, <2>3 DEF Clash, Blocks
<1>. QED
    BY <1>1, Inductive, PTL

\* A locker has been woken just when its request has been granted or aborted.
THEOREM WokenWhenSettled == Spec => []WokenExactly
<1>1. LockInv => WokenExactly
    <2>. SUFFICES ASSUME LockInv, NEW l \in Locker
                  PROVE  woken[l] <=> /\ heldby[l] # <<>>
                                      /\ lock[Head(heldby[l])].status \in Settled
        BY DEF WokenExactly, Settled
    <2>0. heldby[l] \in List(LockId)
        BY DEF LockInv, LockTypes
    <2>1. ASSUME woken[l]
          PROVE  heldby[l] # <<>> /\ lock[Head(heldby[l])].status \in Settled
        <3>1. PICK i \in LockId : Holder(i) = l /\ lock[i].status \in Settled
            BY <2>1 DEF LockInv, WokenTells
        <3>2. i \in ToSet(heldby[l]) /\ i = Head(heldby[l])
            BY <3>1 DEF LockInv, ListsTell, HeldTell, Latest, Settled, Open
        <3>. QED
            BY <2>0, <3>1, <3>2, ListIs
    <2>2. ASSUME heldby[l] # <<>>, lock[Head(heldby[l])].status \in Settled
          PROVE  woken[l]
        <3>1. Head(heldby[l]) \in LockId /\ Head(heldby[l]) \in ToSet(heldby[l])
            BY <2>0, <2>2, ListIs
        <3>2. Holder(Head(heldby[l])) = l
            BY <3>1 DEF LockInv, ListsTell, HeldTell
        <3>. QED
            BY <2>2, <3>1, <3>2 DEF LockInv, WokenTells
    <2>3. woken[l] \in BOOLEAN
        BY DEF LockInv, LockTypes
    <2>. QED
        BY <2>1, <2>2, <2>3
<1>. QED
    BY <1>1, Inductive, PTL

\* Locks, lists and what the detector has seen keep their types: in particular
\* __dd_build never looks at the first waiter of an object that has none, and
\* __dd_abort is never called without a victim.
THEOREM LockTyped == Spec => []TypeOK
<1>1. LockInv /\ DdInv => TypeOK
    <2>. SUFFICES ASSUME LockInv, DdInv PROVE TypeOK
        OBVIOUS
    <2>1. \A S : List(S) \in SUBSET Seq(S)
        BY DEF List
    <2>2. /\ holders \in [Object -> Seq(LockId)] /\ waiters \in [Object -> Seq(LockId)]
          /\ heldby \in [Locker -> Seq(LockId)] /\ ddObjs \in Seq(Object)
        BY <2>1 DEF LockInv, LockTypes, DdInv, DdTypes
    <2>. QED
        BY <2>2 DEF LockInv, LockTypes, DdInv, DdTypes, TypeOK, Doom
<1>. QED
    BY <1>1, Inductive, DetectorInductive, PTL

\* region->dd_objs has every object with waiters, once, however requests,
\* releases and aborts interleave with the detector's walk along it.
THEOREM ListOfContested == Spec => []DdObjsExact
<1>1. DdInv => DdObjsExact
    <2>. SUFFICES ASSUME DdInv PROVE DdObjsExact
        OBVIOUS
    <2>1. ddObjs \in List(Object)
        BY DEF DdInv, DdTypes
    <2>2. ToSet(ddObjs) \in SUBSET Object /\ IsInjective(ddObjs)
        BY <2>1, ListIs DEF List
    <2>. QED
        BY <2>2 DEF DdInv, Contested, DdObjsExact
<1>. QED
    BY <1>1, DetectorInductive, PTL
=============================================================================
