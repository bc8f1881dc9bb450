------------------------ MODULE HybridMutexTheorems ------------------------
(***************************************************************************)
(* The mutexes exclude and no wake-up is lost, for any number of tasks,    *)
(* whatever calls they make and whoever is killed.                         *)
(***************************************************************************)
EXTENDS HybridMutex, FiniteSetTheorems, TLAPS

\* The readers inside, and the tasks that have counted themselves in `wait`.
Readers == {t \in Task : pc[t] = "in" /\ ~Exclusive(t)}
Counted == {t \in Task : pc[t] \in {"check", "condwait", "unlock", "asleep", "leave"}}

\* The tasks at a place where they have the pthread mutex do have it.
KmutexOwned ==
    \A t \in Task : pc[t] \in {"count", "check", "condwait", "unlock", "leave",
                               "signal", "unwake"} => kmutex = t

QueueSleeps == \A t \in queue : pc[t] \in {"unlock", "asleep"}

WaitExact == wait = Cardinality(Counted)

\* Only latches are read, and a reader never takes an exclusive latch for free.
ReadsLatch ==
    \A t \in Task : ~Exclusive(t) =>
        /\ kind = "latch"
        /\ pc[t] \notin {"set", "release"}
        /\ pc[t] = "acquire" => seen[t] \in Nat

\* Inside, or about to be.
Inside(t) == Exclusive(t) /\ pc[t] \in {"set", "in", "release"}

OneInside == \A t, u \in Task : Inside(t) /\ Inside(u) => t = u

\* The words that are tested say so.
WordTells ==
    /\ kind = "latch" => /\ sharecount # IsExclusive => sharecount = Cardinality(Readers)
                         /\ \A t \in Task : Inside(t) => sharecount = IsExclusive
                         /\ sharecount = IsExclusive => Readers = {}
    /\ kind # "latch" => \A t \in Task : Inside(t) => tas = 1
    /\ kind = "block" /\ locked =>
           tas = 1 /\ \A t \in Task : pc[t] \notin {"set", "release"}

\* Committed to sleep, or asleep, for what the task could have: a wake-up comes.
Committed(t) ==
    \/ pc[t] \in {"condwait", "unlock"}
    \/ pc[t] = "asleep" /\ t \in queue

WakeComes ==
    \A t \in Task : Committed(t) /\ ~Blocked(t) =>
        \E u \in Task : pc[u] \in {"release", "look", "wake", "signal"}

\* The inductive invariant.
MutexInv ==
    /\ TypeOK
    /\ KmutexOwned /\ QueueSleeps /\ WaitExact
    /\ ReadsLatch /\ OneInside /\ WordTells
    /\ WakeComes

-----------------------------------------------------------------------------
\* The sets that are counted.
LEMMA CountsFinite ==
    /\ IsFiniteSet(Readers) /\ Cardinality(Readers) \in Nat
    /\ IsFiniteSet(Counted) /\ Cardinality(Counted) \in Nat
<1>1. Readers \in SUBSET Task /\ Counted \in SUBSET Task
    BY DEF Readers, Counted
<1>2. IsFiniteSet(Task)
    BY MutexAssumption
<1>3. IsFiniteSet(Readers) /\ IsFiniteSet(Counted)
    BY <1>1, <1>2, FS_Subset
<1>. QED
    BY <1>3, FS_CardinalityType

\* A task that moves joins or leaves them, or neither.
LEMMA ReadersMove ==
    ASSUME TypeOK, NEW t \in Task, NEW place, Goes(t, place), want' = want
    PROVE  Readers' = IF place = "in" /\ ~Exclusive(t) THEN Readers \cup {t}
                                                      ELSE Readers \ {t}
<1>1. pc \in [Task -> Places] /\ \A u \in Task : pc'[u] = IF u = t THEN place ELSE pc[u]
    BY DEF TypeOK, Goes
<1>2. \A u \in Task : Exclusive(u)' = Exclusive(u)
    BY DEF Exclusive
<1>. QED
    BY <1>1, <1>2 DEF Readers

LEMMA CountedMove ==
    ASSUME TypeOK, NEW t \in Task, NEW place, Goes(t, place)
    PROVE  Counted' = IF place \in {"check", "condwait", "unlock", "asleep", "leave"}
                      THEN Counted \cup {t} ELSE Counted \ {t}
<1>1. pc \in [Task -> Places] /\ \A u \in Task : pc'[u] = IF u = t THEN place ELSE pc[u]
    BY DEF TypeOK, Goes
<1>. QED
    BY <1>1 DEF Counted

-----------------------------------------------------------------------------
LEMMA InitInv == Init => MutexInv
<1>. SUFFICES ASSUME Init PROVE MutexInv
    OBVIOUS
<1>1. TypeOK
    BY MutexAssumption DEF Init, TypeOK, Places, Wants, IsExclusive
<1>2. Readers = {} /\ Counted = {}
    BY DEF Init, Readers, Counted
<1>3. Cardinality(Readers) = 0 /\ Cardinality(Counted) = 0
    BY <1>2, FS_EmptySet
<1>4. KmutexOwned /\ QueueSleeps /\ WaitExact
    BY <1>3 DEF Init, KmutexOwned, QueueSleeps, WaitExact
<1>5. ReadsLatch /\ OneInside /\ WordTells
    BY <1>2, <1>3 DEF Init, ReadsLatch, OneInside, WordTells, Inside, Exclusive, IsExclusive
<1>6. WakeComes
    BY DEF Init, WakeComes, Committed
<1>. QED
    BY <1>1, <1>4, <1>5, <1>6 DEF MutexInv

-----------------------------------------------------------------------------
\* The steps of a task, one by one.
LEMMA TaskSteps ==
    ASSUME [Next]_vars
    PROVE  \/ UNCHANGED vars
           \/ \E t \in Task :
                  \/ (\E w \in Wants : Call(t, w))
                  \/ Test(t)
                  \/ Acquire(t)
                  \/ SetFlag(t)
                  \/ Yield(t)
                  \/ Prep(t)
                  \/ Count(t)
                  \/ Check(t)
                  \/ CondWait(t)
                  \/ CondUnlock(t)
                  \/ CondRelock(t)
                  \/ Leave(t)
                  \/ Unshare(t)
                  \/ ClearFlag(t)
                  \/ Release(t)
                  \/ Look(t)
                  \/ Wake(t)
                  \/ Signal(t)
                  \/ Unwake(t)
                  \/ Proceed(t)
                  \/ Kill(t)
    BY MutexAssumption DEF Next, LockStep, UnlockStep, Wants

\* A reader is counted, and so is a task that is about to leave.
LEMMA CountsPositive ==
    ASSUME MutexInv, NEW t \in Task
    PROVE  /\ pc[t] = "in" /\ ~Exclusive(t) => sharecount \in Nat \ {0}
           /\ t \in Counted => wait \in Nat \ {0}
<1>1. pc[t] = "in" /\ ~Exclusive(t) => t \in Readers /\ kind = "latch"
    BY DEF Readers, MutexInv, ReadsLatch
<1>2. Readers # {} => Cardinality(Readers) # 0
    BY CountsFinite, FS_EmptySet
<1>3. Counted # {} => Cardinality(Counted) # 0
    BY CountsFinite, FS_EmptySet
<1>4. t \in Readers => sharecount \in Nat \ {0}
    BY <1>1, <1>2, CountsFinite DEF MutexInv, WordTells, Readers
<1>. QED
    BY <1>1, <1>3, <1>4, CountsFinite DEF MutexInv, WaitExact

LEMMA TypeStep ==
    ASSUME MutexInv, [Next]_vars
    PROVE  TypeOK'
<1>. USE DEF TypeOK, Goes, Places, tasVars, waitVars, vars
<1>0. TypeOK
    BY DEF MutexInv
<1>1. CASE UNCHANGED vars
    BY <1>0, <1>1
<1>2. ASSUME NEW t \in Task, Unshare(t) PROVE TypeOK'
    BY <1>0, <1>2, CountsPositive DEF Unshare
<1>3. ASSUME NEW t \in Task, Leave(t) PROVE TypeOK'
    <2>1. wait - 1 \in Nat
        BY <1>3, CountsPositive DEF Leave, Counted
    <2>. QED
        BY <1>0, <1>3, <2>1 DEF Leave
<1>4. ASSUME NEW t \in Task, Acquire(t) PROVE TypeOK'
    <2>1. ~Exclusive(t) /\ sharecount = seen[t] => sharecount + 1 \in Nat
        BY <1>4 DEF Acquire, MutexInv, ReadsLatch
    <2>2. IsExclusive \in Int
        BY DEF IsExclusive
    <2>. QED
        BY <1>0, <1>4, <2>1, <2>2 DEF Acquire
<1>5. ASSUME NEW t \in Task, NEW w \in Wants, Call(t, w) PROVE TypeOK'
    BY <1>0, <1>5 DEF Call
<1>6. ASSUME NEW t \in Task, Test(t) PROVE TypeOK'
    BY <1>0, <1>6 DEF Test
<1>7. ASSUME NEW t \in Task, SetFlag(t) PROVE TypeOK'
    BY <1>0, <1>7 DEF SetFlag
<1>8. ASSUME NEW t \in Task, Yield(t) PROVE TypeOK'
    BY <1>0, <1>8 DEF Yield
<1>9. ASSUME NEW t \in Task, Prep(t) PROVE TypeOK'
    BY <1>0, <1>9 DEF Prep
<1>10. ASSUME NEW t \in Task, Count(t) PROVE TypeOK'
    BY <1>0, <1>10 DEF Count
<1>11. ASSUME NEW t \in Task, Check(t) PROVE TypeOK'
    BY <1>0, <1>11 DEF Check
<1>12. ASSUME NEW t \in Task, CondWait(t) PROVE TypeOK'
    BY <1>0, <1>12 DEF CondWait
<1>13. ASSUME NEW t \in Task, CondUnlock(t) PROVE TypeOK'
    BY <1>0, <1>13 DEF CondUnlock
<1>14. ASSUME NEW t \in Task, CondRelock(t) PROVE TypeOK'
    BY <1>0, <1>14 DEF CondRelock
<1>15. ASSUME NEW t \in Task, ClearFlag(t) PROVE TypeOK'
    BY <1>0, <1>15 DEF ClearFlag
<1>16. ASSUME NEW t \in Task, Release(t) PROVE TypeOK'
    BY <1>0, <1>16 DEF Release
<1>17. ASSUME NEW t \in Task, Look(t) PROVE TypeOK'
    BY <1>0, <1>17 DEF Look
<1>18. ASSUME NEW t \in Task, Wake(t) PROVE TypeOK'
    BY <1>0, <1>18 DEF Wake
<1>19. ASSUME NEW t \in Task, Signal(t) PROVE TypeOK'
    BY <1>0, <1>19 DEF Signal
<1>20. ASSUME NEW t \in Task, Unwake(t) PROVE TypeOK'
    BY <1>0, <1>20 DEF Unwake
<1>21. ASSUME NEW t \in Task, Proceed(t) PROVE TypeOK'
    BY <1>0, <1>21 DEF Proceed
<1>22. ASSUME NEW t \in Task, Kill(t) PROVE TypeOK'
    BY <1>0, <1>22 DEF Kill
<1>. QED
    BY <1>1, <1>2, <1>3, <1>4, <1>5, <1>6, <1>7, <1>8, <1>9, <1>10, <1>11, <1>12, <1>13, <1>14, <1>15, <1>16, <1>17, <1>18, <1>19, <1>20, <1>21, <1>22, TaskSteps

-----------------------------------------------------------------------------
\* Who has the pthread mutex, and who is on the wait queue.
LEMMA KmutexStep ==
    ASSUME MutexInv, [Next]_vars
    PROVE  KmutexOwned' /\ QueueSleeps'
<1>. USE DEF TypeOK, KmutexOwned, QueueSleeps, Goes, tasVars, waitVars, vars
<1>0. TypeOK /\ KmutexOwned /\ QueueSleeps /\ NoTask \notin Task
    BY MutexAssumption DEF MutexInv
<1>1. CASE UNCHANGED vars
    BY <1>0, <1>1
<1>2. ASSUME NEW t \in Task, NEW w \in Wants, Call(t, w)
      PROVE  KmutexOwned' /\ QueueSleeps'
    BY <1>0, <1>2 DEF Call
<1>3. ASSUME NEW t \in Task,
             Test(t) \/ Acquire(t) \/ SetFlag(t) \/ Yield(t)
      PROVE  KmutexOwned' /\ QueueSleeps'
    BY <1>0, <1>3 DEF Test, Acquire, SetFlag, Yield
<1>4. ASSUME NEW t \in Task, Prep(t) \/ CondRelock(t) \/ Wake(t)
      PROVE  KmutexOwned' /\ QueueSleeps'
    BY <1>0, <1>4 DEF Prep, CondRelock, Wake
<1>5. ASSUME NEW t \in Task, Count(t) \/ Check(t) \/ CondWait(t)
      PROVE  KmutexOwned' /\ QueueSleeps'
    BY <1>0, <1>5 DEF Count, Check, CondWait
<1>6. ASSUME NEW t \in Task, CondUnlock(t) \/ Leave(t) \/ Signal(t) \/ Unwake(t)
      PROVE  KmutexOwned' /\ QueueSleeps'
    BY <1>0, <1>6 DEF CondUnlock, Leave, Signal, Unwake
<1>7. ASSUME NEW t \in Task,
             Unshare(t) \/ Release(t) \/ Look(t) \/ Proceed(t) \/ Kill(t)
      PROVE  KmutexOwned' /\ QueueSleeps'
    BY <1>0, <1>7 DEF Unshare, Release, Look, Proceed, Kill
<1>8. ASSUME NEW t \in Task, ClearFlag(t) PROVE KmutexOwned' /\ QueueSleeps'
    BY <1>0, <1>8 DEF ClearFlag, MayUnlock
<1>. QED
    BY <1>1, <1>2, <1>3, <1>4, <1>5, <1>6, <1>7, <1>8, TaskSteps

\* mutexp->wait counts those who are between Count and Leave.
LEMMA WaitStep ==
    ASSUME MutexInv, [Next]_vars
    PROVE  WaitExact'
<1>0. TypeOK /\ KmutexOwned /\ WaitExact
    BY DEF MutexInv
<1>1. CASE UNCHANGED vars
    BY <1>0, <1>1 DEF vars, WaitExact, Counted
<1>2. ASSUME NEW t \in Task, Count(t) PROVE WaitExact'
    <2>1. Counted' = Counted \cup {t} /\ t \notin Counted
        BY <1>0, <1>2, CountedMove DEF Count, Counted
    <2>. QED
        BY <1>0, <1>2, <2>1, CountsFinite, FS_AddElement DEF Count, WaitExact
<1>3. ASSUME NEW t \in Task, Leave(t) PROVE WaitExact'
    <2>1. Counted' = Counted \ {t} /\ t \in Counted
        BY <1>0, <1>3, CountedMove DEF Leave, Counted
    <2>. QED
        BY <1>0, <1>3, <2>1, CountsFinite, FS_RemoveElement DEF Leave, WaitExact
<1>4. ASSUME NEW t \in Task,
             Check(t) \/ CondWait(t) \/ CondUnlock(t) \/ CondRelock(t)
      PROVE  WaitExact'
    <2>1. wait' = wait /\ t \in Counted
        BY <1>4 DEF Check, CondWait, CondUnlock, CondRelock, waitVars, Counted
    <2>2. \E place \in {"check", "condwait", "unlock", "asleep", "leave"} :
              Goes(t, place)
        BY <1>4 DEF Check, CondWait, CondUnlock, CondRelock
    <2>3. Counted' = Counted \cup {t}
        BY <1>0, <2>2, CountedMove
    <2>. QED
        BY <1>0, <2>1, <2>3 DEF WaitExact
<1>5. ASSUME NEW t \in Task, wait' = wait, t \notin Counted,
             NEW place \in {"out", "test", "acquire", "set", "in", "yield", "prep",
                            "count", "release", "look", "wake", "signal", "unwake"},
             Goes(t, place)
      PROVE  WaitExact'
    <2>1. Counted' = Counted
        BY <1>0, <1>5, CountedMove
    <2>. QED
        BY <1>0, <1>5, <2>1 DEF WaitExact
<1>6. ASSUME NEW t \in Task, NEW w \in Wants, Call(t, w) PROVE WaitExact'
    <2>1. wait' = wait /\ t \notin Counted /\ Goes(t, "test")
        BY <1>6 DEF Call, waitVars, Counted
    <2>. QED
        BY <2>1, <1>5
<1>7. ASSUME NEW t \in Task,
             \/ Test(t) \/ Acquire(t) \/ SetFlag(t) \/ Yield(t) \/ Prep(t)
             \/ Unshare(t) \/ Release(t) \/ Look(t) \/ Wake(t)
             \/ Signal(t) \/ Unwake(t) \/ Proceed(t)
      PROVE  WaitExact'
    <2>1. wait' = wait /\ t \notin Counted
        BY <1>7 DEF Test, Acquire, SetFlag, Yield, Prep, Unshare, Release, Look,
                    Wake, Signal, Unwake, Proceed, waitVars, Counted
    <2>2. \E place \in {"out", "test", "acquire", "set", "in", "yield", "prep",
                       "count", "release", "look", "wake", "signal", "unwake"} :
              Goes(t, place)
        BY <1>7 DEF Test, Acquire, SetFlag, Yield, Prep, Unshare, Release, Look,
                    Wake, Signal, Unwake, Proceed
    <2>. QED
        BY <2>1, <2>2, <1>5
<1>8. ASSUME NEW t \in Task, ClearFlag(t) PROVE WaitExact'
    <2>1. wait' = wait /\ t \notin Counted /\ Goes(t, "release")
        BY <1>8 DEF ClearFlag, MayUnlock, waitVars, Counted
    <2>. QED
        BY <2>1, <1>5
<1>9. ASSUME NEW t \in Task, Kill(t) PROVE WaitExact'
    BY <1>0, <1>9 DEF Kill, waitVars, WaitExact, Counted
<1>. QED
    BY <1>1, <1>2, <1>3, <1>4, <1>6, <1>7, <1>8, <1>9, TaskSteps

-----------------------------------------------------------------------------
\* Who is inside, and what the words say of it.
LEMMA InsideStep ==
    ASSUME MutexInv, [Next]_vars
    PROVE  ReadsLatch' /\ OneInside'
<1>. USE DEF TypeOK, ReadsLatch, OneInside, WordTells, Inside, Exclusive, Goes,
             tasVars, waitVars, vars, Wants, IsExclusive
<1>0. TypeOK /\ ReadsLatch /\ OneInside /\ WordTells
    BY DEF MutexInv
<1>1. CASE UNCHANGED vars
    BY <1>0, <1>1
<1>2. ASSUME NEW t \in Task, NEW w \in Wants, Call(t, w)
      PROVE  ReadsLatch' /\ OneInside'
    BY <1>0, <1>2 DEF Call
<1>3. ASSUME NEW t \in Task, Acquire(t) PROVE ReadsLatch' /\ OneInside'
    BY <1>0, <1>3 DEF Acquire
<1>4. ASSUME NEW t \in Task, ClearFlag(t) PROVE ReadsLatch' /\ OneInside'
    BY <1>0, <1>4 DEF ClearFlag, MayUnlock
<1>5. ASSUME NEW t \in Task, Test(t) PROVE ReadsLatch' /\ OneInside'
    BY <1>0, <1>5 DEF Test, Blocked
<1>6. ASSUME NEW t \in Task, SetFlag(t) \/ Release(t) \/ Unshare(t) \/ Proceed(t)
      PROVE  ReadsLatch' /\ OneInside'
    BY <1>0, <1>6 DEF SetFlag, Release, Unshare, Proceed
<1>7. ASSUME NEW t \in Task,
             Yield(t) \/ Prep(t) \/ Count(t) \/ Check(t) \/ CondWait(t)
      PROVE  ReadsLatch' /\ OneInside'
    BY <1>0, <1>7 DEF Yield, Prep, Count, Check, CondWait
<1>8. ASSUME NEW t \in Task,
             CondUnlock(t) \/ CondRelock(t) \/ Leave(t) \/ Kill(t)
      PROVE  ReadsLatch' /\ OneInside'
    BY <1>0, <1>8 DEF CondUnlock, CondRelock, Leave, Kill
<1>9. ASSUME NEW t \in Task, Look(t) \/ Wake(t) \/ Signal(t) \/ Unwake(t)
      PROVE  ReadsLatch' /\ OneInside'
    BY <1>0, <1>9 DEF Look, Wake, Signal, Unwake
<1>. QED
    BY <1>1, <1>2, <1>3, <1>4, <1>5, <1>6, <1>7, <1>8, <1>9, TaskSteps

\* A step that changes neither word, and nobody's being inside, changes nothing
\* of what they tell.
LEMMA WordKept ==
    ASSUME MutexInv, NEW t \in Task, NEW place, Goes(t, place),
           pc[t] \notin {"set", "in", "release"},
           place \notin {"set", "in", "release"},
           UNCHANGED <<kind, tas, locked, sharecount, want>>
    PROVE  WordTells'
<1>0. TypeOK /\ WordTells
    BY DEF MutexInv
<1>1. Readers' = Readers
    BY <1>0, ReadersMove DEF Readers
<1>. QED
    BY <1>0, <1>1 DEF TypeOK, WordTells, Inside, Exclusive, Goes

LEMMA WordStep ==
    ASSUME MutexInv, [Next]_vars
    PROVE  WordTells'
<1>. USE DEF TypeOK, ReadsLatch, OneInside, WordTells, Inside, Exclusive, Goes,
             tasVars, waitVars, vars
<1>0. TypeOK /\ ReadsLatch /\ OneInside /\ WordTells
    BY DEF MutexInv
<1>1. CASE UNCHANGED vars
    BY <1>0, <1>1 DEF Readers
<1>2. ASSUME NEW t \in Task, NEW w \in Wants, Call(t, w) PROVE WordTells'
    <2>1. Readers' = Readers
        BY <1>0, <1>2 DEF Call, Readers
    <2>. QED
        BY <1>0, <1>2, <2>1 DEF Call
<1>3. ASSUME NEW t \in Task, Acquire(t) PROVE WordTells'
    <2>1. CASE kind # "latch"
        BY <1>0, <1>3, <2>1 DEF Acquire
    <2>2. CASE kind = "latch" /\ Exclusive(t)
        <3>1. Readers' = Readers
            BY <1>0, <1>3, <2>2, ReadersMove DEF Acquire, Readers
        <3>2. sharecount = 0 => Readers = {}
            BY <1>0, <2>2, CountsFinite, FS_EmptySet DEF IsExclusive
        <3>. QED
            BY <1>0, <1>3, <2>2, <3>1, <3>2 DEF Acquire, IsExclusive
    <2>3. CASE kind = "latch" /\ ~Exclusive(t) /\ sharecount = seen[t]
        <3>1. Readers' = Readers \cup {t} /\ t \notin Readers
            BY <1>0, <1>3, <2>3, ReadersMove DEF Acquire, Readers
        <3>2. sharecount \in Nat /\ sharecount # IsExclusive
            BY <1>0, <1>3, <2>3 DEF Acquire, IsExclusive
        <3>3. Cardinality(Readers') = Cardinality(Readers) + 1
            BY <3>1, CountsFinite, FS_AddElement
        <3>4. sharecount' = Cardinality(Readers)'
            BY <1>0, <1>3, <2>3, <3>2, <3>3 DEF Acquire
        <3>5. sharecount' # IsExclusive /\ kind' = kind
            BY <1>3, <2>3, <3>2 DEF Acquire, IsExclusive
        <3>6. \A u \in Task : ~ Inside(u)'
            BY <1>0, <1>3, <2>3, <3>2 DEF Acquire
        <3>. QED
            BY <2>3, <3>4, <3>5, <3>6
    <2>4. CASE kind = "latch" /\ ~Exclusive(t) /\ sharecount # seen[t]
        <3>1. /\ Goes(t, "yield") /\ pc[t] = "acquire"
              /\ UNCHANGED <<kind, tas, locked, sharecount, want>>
            BY <1>3, <2>4 DEF Acquire
        <3>. QED
            BY <3>1, WordKept
    <2>. QED
        BY <2>1, <2>2, <2>3, <2>4
<1>4. ASSUME NEW t \in Task, SetFlag(t) PROVE WordTells'
    <2>1. Readers' = Readers /\ Exclusive(t)
        BY <1>0, <1>4, ReadersMove DEF SetFlag, Readers
    <2>. QED
        BY <1>0, <1>4, <2>1 DEF SetFlag
<1>5. ASSUME NEW t \in Task, Unshare(t) PROVE WordTells'
    <2>1. Readers' = Readers \ {t} /\ t \in Readers
        BY <1>0, <1>5, ReadersMove DEF Unshare, Readers
    <2>2. Cardinality(Readers') = Cardinality(Readers) - 1
        BY <2>1, CountsFinite, FS_RemoveElement
    <2>3. kind = "latch" /\ kind' = kind /\ sharecount \in Nat \ {0}
        BY <1>0, <1>5, CountsPositive DEF Unshare
    <2>4. sharecount' \in Nat /\ sharecount' = Cardinality(Readers)'
        BY <1>0, <1>5, <2>2, <2>3 DEF Unshare, IsExclusive
    <2>5. \A u \in Task : ~ Inside(u)'
        BY <1>0, <1>5, <2>3 DEF Unshare, IsExclusive
    <2>. QED
        BY <2>3, <2>4, <2>5 DEF IsExclusive
<1>6. ASSUME NEW t \in Task, ClearFlag(t) PROVE WordTells'
    <2>1. Readers' = Readers
        BY <1>0, <1>6, ReadersMove DEF ClearFlag, Readers
    <2>. QED
        BY <1>0, <1>6, <2>1 DEF ClearFlag, MayUnlock
<1>7. ASSUME NEW t \in Task, Release(t) PROVE WordTells'
    <2>1. Exclusive(t) /\ Inside(t)
        BY <1>0, <1>7 DEF Release
    <2>2. Readers' = Readers
        BY <1>0, <1>7, <2>1, ReadersMove DEF Release, Readers
    <2>3. \A u \in Task : ~ Inside(u)'
        BY <1>0, <1>7, <2>1 DEF Release
    <2>4. CASE kind = "latch"
        <3>1. Readers = {} /\ sharecount' = 0 /\ kind' = kind
            BY <1>0, <1>7, <2>1, <2>4 DEF Release
        <3>2. Cardinality(Readers)' = 0
            BY <2>2, <3>1, FS_EmptySet
        <3>. QED
            BY <2>2, <2>3, <2>4, <3>1, <3>2
    <2>5. CASE kind # "latch"
        BY <1>0, <1>7, <2>1, <2>3, <2>5 DEF Release
    <2>. QED
        BY <2>4, <2>5
<1>8. ASSUME NEW t \in Task, Proceed(t) PROVE WordTells'
    BY <1>0, <1>8 DEF Proceed
<1>9. ASSUME NEW t \in Task,
             \/ Test(t) \/ Yield(t) \/ Prep(t) \/ Count(t) \/ Check(t)
             \/ CondWait(t) \/ CondUnlock(t) \/ CondRelock(t) \/ Leave(t)
             \/ Look(t) \/ Wake(t) \/ Signal(t) \/ Unwake(t)
      PROVE  WordTells'
    <2>1. /\ pc[t] \notin {"set", "in", "release"}
          /\ UNCHANGED <<kind, tas, locked, sharecount, want>>
          /\ \E place : /\ place \notin {"set", "in", "release"}
                        /\ Goes(t, place)
        BY <1>9 DEF Test, Yield, Prep, Count, Check, CondWait, CondUnlock,
                    CondRelock, Leave, Look, Wake, Signal, Unwake
    <2>. QED
        BY <2>1, WordKept
<1>10. ASSUME NEW t \in Task, Kill(t) PROVE WordTells'
    BY <1>0, <1>10 DEF Kill, Readers
<1>. QED
    BY <1>1, <1>2, <1>3, <1>4, <1>5, <1>6, <1>7, <1>8, <1>9, <1>10, TaskSteps

-----------------------------------------------------------------------------
\* On the way to wake the sleepers, or about to be.
LEMMA WakeStep ==
    ASSUME MutexInv, [Next]_vars
    PROVE  WakeComes'
<1>. DEFINE Comes(u) == pc[u] \in {"release", "look", "wake", "signal"}
<1>. USE DEF TypeOK, WakeComes, Committed, Blocked, Busy, Exclusive, Goes,
             tasVars, waitVars, vars, Wants, IsExclusive
<1>0. TypeOK /\ KmutexOwned /\ QueueSleeps /\ ReadsLatch /\ WakeComes
    BY DEF MutexInv
<1>1. CASE UNCHANGED vars
    BY <1>0, <1>1
<1>2. ASSUME NEW t \in Task, NEW w \in Wants, Call(t, w) PROVE WakeComes'
    BY <1>0, <1>2 DEF Call, QueueSleeps
\* What others sleep for only becomes busier.
<1>3. ASSUME NEW t \in Task, Acquire(t) \/ SetFlag(t) PROVE WakeComes'
    BY <1>0, <1>3 DEF Acquire, SetFlag, ReadsLatch
<1>4. ASSUME NEW t \in Task,
             \/ Test(t) \/ Yield(t) \/ Prep(t) \/ Count(t)
             \/ CondRelock(t) \/ Leave(t) \/ Proceed(t) \/ Kill(t)
      PROVE  WakeComes'
    BY <1>0, <1>4 DEF Test, Yield, Prep, Count, CondRelock, Leave, Proceed, Kill,
                      QueueSleeps
\* A task commits itself to sleep with the pthread mutex, while it is blocked.
<1>5. ASSUME NEW t \in Task, Check(t) \/ CondWait(t) \/ CondUnlock(t)
      PROVE  WakeComes'
    BY <1>0, <1>5 DEF Check, CondWait, CondUnlock
\* Whoever lets go is on the way to look.
<1>6. ASSUME NEW t \in Task, ClearFlag(t) \/ Release(t) PROVE WakeComes'
    BY <1>0, <1>6 DEF ClearFlag, Release
<1>7. ASSUME NEW t \in Task, Unshare(t) PROVE WakeComes'
    <2>1. sharecount \in Nat \ {0}
        BY <1>7, CountsPositive DEF Unshare
    <2>. QED
        BY <1>0, <1>7, <2>1 DEF Unshare, ReadsLatch
\* Who looks sees the count of those who are committed.
<1>8. ASSUME NEW t \in Task, Look(t) PROVE WakeComes'
    <2>1. wait = 0 => \A u \in Task : ~ Committed(u)
        BY <1>8, CountsPositive DEF Counted
    <2>2. wait # 0 => pc'[t] = "wake"
        BY <1>0, <1>8 DEF Look
    <2>3. wait = 0 => \A u \in Task : ~ Committed(u)'
        BY <1>0, <1>8, <2>1 DEF Look
    <2>. QED
        BY <2>2, <2>3, <1>8
<1>9. ASSUME NEW t \in Task, Wake(t) PROVE WakeComes'
    BY <1>0, <1>9 DEF Wake
\* With the pthread mutex held, those who are committed are on the queue.
<1>10. ASSUME NEW t \in Task, Signal(t) PROVE WakeComes'
    <2>1. \A u \in Task : pc[u] \notin {"condwait", "unlock"}
        BY <1>0, <1>10 DEF Signal, KmutexOwned
    <2>2. \A u \in Task : ~ Committed(u)'
        BY <1>0, <1>10, <2>1 DEF Signal
    <2>. QED
        BY <2>2
<1>11. ASSUME NEW t \in Task, Unwake(t) PROVE WakeComes'
    BY <1>0, <1>11 DEF Unwake
<1>. QED
    BY <1>1, <1>2, <1>3, <1>4, <1>5, <1>6, <1>7, <1>8, <1>9, <1>10, <1>11, TaskSteps

-----------------------------------------------------------------------------
THEOREM Inductive == Spec => []MutexInv
<1>1. Init => MutexInv
    BY InitInv
<1>2. MutexInv /\ [Next]_vars => MutexInv'
    BY TypeStep, KmutexStep, WaitStep, InsideStep, WordStep, WakeStep DEF MutexInv
<1>. QED
    BY <1>1, <1>2, PTL DEF Spec

\* The variables keep their types: sharecount and wait do not fall below zero.
THEOREM MutexTypes == Spec => []TypeOK
<1>1. MutexInv => TypeOK
    BY DEF MutexInv
<1>. QED
    BY <1>1, Inductive, PTL

\* A task that has locked a mutex exclusively is alone with it.
THEOREM Exclusion == Spec => []MutualExclusion
<1>1. MutexInv => MutualExclusion
    <2>. SUFFICES ASSUME MutexInv, NEW t \in Task, NEW u \in Task,
                         Has(t), Has(u), Exclusive(t)
                  PROVE  t = u
        BY DEF MutualExclusion
    <2>1. Inside(t)
        BY DEF Has, Inside
    <2>2. CASE Exclusive(u)
        BY <2>1, <2>2 DEF MutexInv, OneInside, Inside, Has
    <2>3. CASE ~Exclusive(u)
        <3>1. kind = "latch" /\ u \in Readers
            BY <2>3 DEF MutexInv, ReadsLatch, Has, Readers
        <3>2. sharecount = IsExclusive
            BY <2>1, <3>1 DEF MutexInv, WordTells
        <3>. QED
            BY <3>1, <3>2 DEF MutexInv, WordTells
    <2>. QED
        BY <2>2, <2>3
<1>. QED
    BY <1>1, Inductive, PTL

\* Nobody sleeps for a mutex that is free unless a wake-up is on its way.
THEOREM WakeupsKept == Spec => []NoLostWakeup
<1>1. MutexInv => NoLostWakeup
    BY DEF MutexInv, WakeComes, Committed, NoLostWakeup, Waking, TypeOK
<1>. QED
    BY <1>1, Inductive, PTL
=============================================================================
