---------------------------- MODULE HybridMutex ----------------------------
(***************************************************************************)
(* One mutex of Berkeley DB as the kernel module builds it (HAVE_MUTEX_    *)
(* HYBRID): a test-and-set word to spin on (db/src/mutex/mut_tas.c), and   *)
(* behind it a pthread mutex and condition variable to sleep on            *)
(* (mut_pthread.c), which libk.c makes of a kernel mutex and a wait queue. *)
(*                                                                         *)
(* The test-and-set half and the sleeping half are bound together by one   *)
(* counter: a task that goes to sleep counts itself before it looks once   *)
(* more, and whoever releases looks at the counter after it has released.  *)
(* Every access to shared memory is a step of its own; the code has memory *)
(* barriers between those whose order matters.                             *)
(*                                                                         *)
(* Three kinds of DB_MUTEX are locked and unlocked differently:            *)
(*   "mutex"  released by the task that has locked it,                     *)
(*   "latch"  DB_MUTEX_SHARED: also locked by several readers,             *)
(*   "block"  DB_MUTEX_SELF_BLOCK: kept locked; a task that locks it again *)
(*            sleeps until another one unlocks it for it.                  *)
(***************************************************************************)
EXTENDS Integers, FiniteSets

CONSTANTS
    Task,           \* the threads of control
    NoTask,         \* nobody
    Kinds,          \* the kinds of mutex to consider
    Calls,          \* Calls[t]: the lock calls that task t makes
    MaySignal       \* the tasks that may be sent a fatal signal

ASSUME MutexAssumption ==
    /\ NoTask \notin Task
    /\ Kinds \subseteq {"mutex", "latch", "block"}
    /\ Calls \in [Task -> SUBSET {"lock", "try", "read", "tryread"}]
    /\ MaySignal \subseteq Task
    /\ IsFiniteSet(Task)

VARIABLES
    kind,           \* what the mutex was allocated for
    tas,            \* its test-and-set word
    locked,         \* the flag DB_MUTEX_LOCKED
    sharecount,     \* of a latch: readers, or IsExclusive
    wait,           \* mutexp->wait, the count of waiters
    kmutex,         \* who has the pthread mutex
    queue,          \* the tasks on the wait queue
    killed,         \* the tasks with a fatal signal pending
    pc,             \* pc[t]: where task t is
    want,           \* want[t]: which of the four lock calls it is in
    seen            \* seen[t]: the sharecount a reader has read

vars == <<kind, tas, locked, sharecount, wait, kmutex, queue, killed, pc,
          want, seen>>

IsExclusive == -1024        \* MUTEX_SHARE_ISEXCLUSIVE

Wants == {"lock", "try", "read", "tryread"}
Exclusive(t) == want[t] \in {"lock", "try"}

Init ==
    /\ kind \in Kinds
    /\ tas        = IF kind = "block" THEN 1 ELSE 0
    /\ locked     = (kind = "block")
    /\ sharecount = 0
    /\ wait       = 0
    /\ kmutex     = NoTask
    /\ queue      = {}
    /\ killed     = {}
    /\ pc         = [t \in Task |-> "out"]
    /\ want       = [t \in Task |-> "lock"]
    /\ seen       = [t \in Task |-> 0]

\* MUTEXP_IS_BUSY.
Busy == IF kind = "latch" THEN sharecount # 0 ELSE locked

\* What a task that sleeps waits for to end.
Blocked(t) == IF Exclusive(t) THEN Busy ELSE sharecount = IsExclusive

Goes(t, place) == pc' = [pc EXCEPT ![t] = place]

tasVars  == <<tas, locked, sharecount>>
waitVars == <<wait, kmutex, queue>>

-----------------------------------------------------------------------------
(***************************************************************************)
(* Locking: __db_tas_mutex_lock_int and __db_tas_mutex_readlock_int        *)
(***************************************************************************)

\* The uses of the kinds: only latches are read-locked, and a self-blocking
\* mutex is locked by the task that owns it, and not tried.
Call(t, w) ==
    /\ pc[t] = "out" /\ t \notin killed
    /\ w \in {"read", "tryread"} => kind = "latch"
    /\ kind = "block" => /\ w = "lock"
                         /\ \A u \in Task : pc[u] \in {"out", "release", "wake",
                                                       "signal", "unwake"}
    /\ want' = [want EXCEPT ![t] = w]
    /\ Goes(t, "test")
    /\ UNCHANGED <<kind, killed, seen>> /\ UNCHANGED tasVars /\ UNCHANGED waitVars

\* A spin: first look, and if the mutex is busy spin again, give up spinning,
\* or give up altogether (a try for exclusive access).
Test(t) ==
    /\ pc[t] = "test"
    /\ IF Blocked(t)
       THEN IF want[t] = "try" THEN Goes(t, "out") ELSE Goes(t, "yield")
       ELSE Goes(t, "acquire")
    /\ seen' = [seen EXCEPT ![t] = IF Exclusive(t) THEN 0 ELSE sharecount]
    /\ UNCHANGED <<kind, want, killed>> /\ UNCHANGED tasVars /\ UNCHANGED waitVars

\* MUTEXP_ACQUIRE, or the compare-and-exchange of a reader.
Acquire(t) ==
    /\ pc[t] = "acquire"
    /\ \/ /\ Exclusive(t) /\ kind # "latch"
          /\ tas' = 1
          /\ Goes(t, IF tas = 0 THEN "set"
                     ELSE IF want[t] = "try" THEN "out" ELSE "yield")
          /\ UNCHANGED sharecount
       \/ /\ Exclusive(t) /\ kind = "latch"
          /\ sharecount' = IF sharecount = 0 THEN IsExclusive ELSE sharecount
          /\ Goes(t, IF sharecount = 0 THEN "set"
                     ELSE IF want[t] = "try" THEN "out" ELSE "yield")
          /\ UNCHANGED tas
       \/ /\ ~Exclusive(t)
          /\ sharecount' = IF sharecount = seen[t] THEN sharecount + 1
                                                   ELSE sharecount
          /\ Goes(t, IF sharecount = seen[t] THEN "in" ELSE "yield")
          /\ UNCHANGED tas
    /\ seen' = [seen EXCEPT ![t] = 0]
    /\ UNCHANGED <<kind, locked, want, killed>> /\ UNCHANGED waitVars

\* F_SET(mutexp, DB_MUTEX_LOCKED).
SetFlag(t) ==
    /\ pc[t] = "set"
    /\ locked' = TRUE
    /\ Goes(t, "in")
    /\ UNCHANGED <<kind, tas, sharecount, want, seen, killed>>
    /\ UNCHANGED waitVars

\* After the spins: yield, look again, and go to sleep if it is still busy.
\* A try to read goes back to spinning when the latch is only shared.
Yield(t) ==
    /\ pc[t] = "yield"
    /\ Goes(t, IF ~Blocked(t)           THEN "test"
               ELSE IF want[t] = "lock" \/ want[t] = "read" THEN "prep"
               ELSE "out")
    /\ UNCHANGED <<kind, want, seen, killed>> /\ UNCHANGED tasVars /\ UNCHANGED waitVars

-----------------------------------------------------------------------------
(***************************************************************************)
(* Sleeping: __db_hybrid_mutex_suspend, and pthread_cond_wait of libk.c    *)
(***************************************************************************)

\* Mutant: the sleeper does not count itself.
PrepUncounted(t) ==
    /\ pc[t] = "prep" /\ kmutex = NoTask
    /\ kmutex' = t
    /\ Goes(t, "check")
    /\ UNCHANGED <<kind, wait, queue, killed, want, seen>> /\ UNCHANGED tasVars

\* __db_pthread_mutex_prep.
Prep(t) ==
    /\ pc[t] = "prep" /\ kmutex = NoTask
    /\ kmutex' = t
    /\ Goes(t, "count")
    /\ UNCHANGED <<kind, wait, queue, killed, want, seen>> /\ UNCHANGED tasVars

Count(t) ==
    /\ pc[t] = "count"
    /\ wait' = wait + 1
    /\ Goes(t, "check")
    /\ UNCHANGED <<kind, kmutex, queue, killed, want, seen>> /\ UNCHANGED tasVars

Check(t) ==
    /\ pc[t] = "check"
    /\ Goes(t, IF Blocked(t) THEN "condwait" ELSE "leave")
    /\ UNCHANGED <<kind, killed, want, seen>> /\ UNCHANGED tasVars /\ UNCHANGED waitVars

\* prepare_to_wait_event puts the task on the queue, unless a fatal signal is
\* pending: then pthread_cond_wait returns at once, and keeps the mutex.
CondWait(t) ==
    /\ pc[t] = "condwait"
    /\ IF t \in killed THEN Goes(t, "check") /\ UNCHANGED queue
                       ELSE Goes(t, "unlock") /\ queue' = queue \cup {t}
    /\ UNCHANGED <<kind, wait, kmutex, killed, want, seen>> /\ UNCHANGED tasVars

\* pthread_mutex_unlock, then schedule.
CondUnlock(t) ==
    /\ pc[t] = "unlock"
    /\ kmutex' = NoTask
    /\ Goes(t, "asleep")
    /\ UNCHANGED <<kind, wait, queue, killed, want, seen>> /\ UNCHANGED tasVars

\* A wake_up or a fatal signal ends schedule.  pthread_mutex_lock, finish_wait.
CondRelock(t) ==
    /\ pc[t] = "asleep"
    /\ t \notin queue \/ t \in killed
    /\ kmutex = NoTask
    /\ kmutex' = t
    /\ queue' = queue \ {t}
    /\ Goes(t, "check")
    /\ UNCHANGED <<kind, wait, killed, want, seen>> /\ UNCHANGED tasVars

\* The rest of the suspend; the lock call starts spinning again.
Leave(t) ==
    /\ pc[t] = "leave"
    /\ wait' = wait - 1
    /\ kmutex' = NoTask
    /\ Goes(t, "test")
    /\ UNCHANGED <<kind, queue, killed, want, seen>> /\ UNCHANGED tasVars

-----------------------------------------------------------------------------
(***************************************************************************)
(* Unlocking: __db_tas_mutex_unlock and __db_pthread_mutex_unlock          *)
(***************************************************************************)

\* A mutex or latch is released by who has it, and a self-blocking mutex by
\* another task, for the one that sleeps on it or is about to.
MayUnlock(t) ==
    IF kind = "block"
    THEN /\ pc[t] = "out"
         /\ \E u \in Task : pc[u] \notin {"out", "in"}
         /\ \A u \in Task : pc[u] \notin {"in", "release", "wake", "signal", "unwake"}
         /\ locked /\ \A u \in Task : pc[u] # "set"
    ELSE pc[t] = "in"

\* Mutant: a reader that leaves frees the latch for all.
UnshareAll(t) ==
    /\ pc[t] = "in" /\ ~Exclusive(t)
    /\ sharecount' = 0
    /\ Goes(t, "look")
    /\ UNCHANGED <<kind, tas, locked, want, seen, killed>> /\ UNCHANGED waitVars

\* Mutant: the last reader wakes nobody either.
UnshareQuietly(t) ==
    /\ pc[t] = "in" /\ ~Exclusive(t)
    /\ sharecount' = sharecount - 1
    /\ Goes(t, "out")
    /\ UNCHANGED <<kind, tas, locked, want, seen, killed>> /\ UNCHANGED waitVars

\* A reader is not the last one: nobody is woken.
Unshare(t) ==
    /\ pc[t] = "in" /\ ~Exclusive(t)
    /\ sharecount' = sharecount - 1
    /\ Goes(t, IF sharecount - 1 > 0 THEN "out" ELSE "look")
    /\ UNCHANGED <<kind, tas, locked, want, seen, killed>> /\ UNCHANGED waitVars

\* F_CLR(mutexp, DB_MUTEX_LOCKED).
ClearFlag(t) ==
    /\ MayUnlock(t)
    /\ Exclusive(t)
    /\ locked' = FALSE
    /\ Goes(t, "release")
    /\ UNCHANGED <<kind, tas, sharecount, want, seen, killed>>
    /\ UNCHANGED waitVars

\* MUTEX_UNSET, or the sharecount set to zero.
Release(t) ==
    /\ pc[t] = "release"
    /\ IF kind = "latch" THEN sharecount' = 0 /\ UNCHANGED tas
                         ELSE tas' = 0 /\ UNCHANGED sharecount
    /\ Goes(t, "look")
    /\ UNCHANGED <<kind, locked, want, seen, killed>> /\ UNCHANGED waitVars

\* Mutant: the last waiter is overlooked.
LookOffByOne(t) ==
    /\ pc[t] = "look"
    /\ Goes(t, IF wait > 1 THEN "wake" ELSE "out")
    /\ UNCHANGED <<kind, want, seen, killed>> /\ UNCHANGED tasVars /\ UNCHANGED waitVars

\* if (mutexp->wait && ...)
Look(t) ==
    /\ pc[t] = "look"
    /\ Goes(t, IF wait # 0 THEN "wake" ELSE "out")
    /\ UNCHANGED <<kind, want, seen, killed>> /\ UNCHANGED tasVars /\ UNCHANGED waitVars

Wake(t) ==
    /\ pc[t] = "wake" /\ kmutex = NoTask
    /\ kmutex' = t
    /\ Goes(t, "signal")
    /\ UNCHANGED <<kind, wait, queue, killed, want, seen>> /\ UNCHANGED tasVars

\* pthread_cond_signal and pthread_cond_broadcast: wake_up stops at the first
\* exclusive waiter, and init_wait_entry(&wait, 0) made none of them one.
Signal(t) ==
    /\ pc[t] = "signal"
    /\ queue' = {}
    /\ Goes(t, "unwake")
    /\ UNCHANGED <<kind, wait, kmutex, killed, want, seen>> /\ UNCHANGED tasVars

Unwake(t) ==
    /\ pc[t] = "unwake"
    /\ kmutex' = NoTask
    /\ Goes(t, "out")
    /\ UNCHANGED <<kind, wait, queue, killed, want, seen>> /\ UNCHANGED tasVars

\* The owner of a self-blocking mutex has been let through; the mutex is
\* locked again for its next wait.
Proceed(t) ==
    /\ kind = "block" /\ pc[t] = "in"
    /\ Goes(t, "out")
    /\ UNCHANGED <<kind, want, seen, killed>> /\ UNCHANGED tasVars /\ UNCHANGED waitVars

\* A fatal signal.
Kill(t) ==
    /\ t \in MaySignal \ killed
    /\ killed' = killed \cup {t}
    /\ UNCHANGED <<kind, pc, want, seen>> /\ UNCHANGED tasVars /\ UNCHANGED waitVars

-----------------------------------------------------------------------------
LockStep(t) ==
    \/ Test(t) \/ Acquire(t) \/ SetFlag(t) \/ Yield(t)
    \/ Prep(t) \/ Count(t) \/ Check(t) \/ CondWait(t) \/ CondUnlock(t)
    \/ CondRelock(t) \/ Leave(t)

UnlockStep(t) ==
    \/ Unshare(t) \/ ClearFlag(t) \/ Release(t) \/ Look(t) \/ Wake(t)
    \/ Signal(t) \/ Unwake(t) \/ Proceed(t)

Next ==
    \E t \in Task :
        \/ \E w \in Calls[t] : Call(t, w)
        \/ LockStep(t) \/ UnlockStep(t)
        \/ Kill(t)

\* The scheduler runs every task that can run, a mutex is not held for ever,
\* and a kernel mutex is handed to those who wait for it in turn.
Fairness ==
    \A t \in Task : /\ WF_vars(LockStep(t) \/ UnlockStep(t))
                    /\ SF_vars(Prep(t) \/ CondRelock(t) \/ Wake(t))

Spec == Init /\ [][Next]_vars /\ Fairness

-----------------------------------------------------------------------------
Places == {"out", "test", "acquire", "set", "in", "yield", "prep", "count",
           "check", "condwait", "unlock", "asleep", "leave", "release", "look",
           "wake", "signal", "unwake"}

TypeOK ==
    /\ kind       \in Kinds
    /\ tas        \in {0, 1}
    /\ locked     \in BOOLEAN
    /\ sharecount \in Nat \cup {IsExclusive}
    /\ wait       \in Nat
    /\ kmutex     \in Task \cup {NoTask}
    /\ queue      \subseteq Task
    /\ killed     \subseteq Task
    /\ pc         \in [Task -> Places]
    /\ want       \in [Task -> Wants]
    /\ seen       \in [Task -> Nat \cup {IsExclusive}]

\* Between the interlocked instruction that gave it the mutex and the store
\* that releases it.
Has(t) == \/ pc[t] \in {"set", "in"}
          \/ pc[t] = "release" /\ kind # "block"

\* Nobody else is inside with a task that locked the mutex exclusively.
MutualExclusion ==
    \A t, u \in Task : Has(t) /\ Has(u) /\ Exclusive(t) => t = u

\* On its way to wake the sleepers.
Waking(t) == pc[t] \in {"look", "wake", "signal"}

\* While a task sleeps for a mutex it could have, some task that has released
\* it is on its way to wake it, whatever the releaser and the sleeper did in
\* between.
NoLostWakeup ==
    \A t \in queue : pc[t] = "asleep" /\ ~Blocked(t) =>
        \E u \in Task : Waking(u) \/ pc[u] = "release"

\* Whoever sleeps when the mutex is let go is woken, even if others are faster
\* to take it again.  (A task that wants a latch exclusively may sleep for ever
\* while readers come and go: the latch is then never let go.)
SleepersWake ==
    \A t \in Task : pc[t] = "asleep" /\ ~Blocked(t) ~> pc[t] # "asleep"
=============================================================================
