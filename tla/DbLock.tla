------------------------------- MODULE DbLock -------------------------------
(***************************************************************************)
(* The lock manager of Berkeley DB (db/src/lock/lock.c) and its deadlock   *)
(* detector (lock_deadlock.c), as transactions use them: a locker gets     *)
(* read and write locks on objects, waits where they conflict, and puts    *)
(* them all when it commits or aborts.                                     *)
(*                                                                         *)
(* A step happens under one object's mutex; between two steps everybody    *)
(* else may run.  The detector builds its waits-for map one object at a    *)
(* time, and acts on it after it has let go of every mutex.                *)
(***************************************************************************)
EXTENDS Integers, FiniteSets, SequencesExt

CONSTANTS
    NLockers,       \* lockers are 1..NLockers, in the order of region->lockers
    Object,         \* what can be locked
    NoObject,       \* the end of the list dd_objs
    MaxHeld,        \* bound: the lock structures of one locker
    Wants,          \* Wants[l]: the locks a locker asks for, <<object, mode>>
    Early,          \* bound: who takes locks again and releases single ones
    MaxRef,         \* bound: how often a lock is taken again
    Detect          \* whether deadlocks are detected: detect # DB_LOCK_NORUN

Locker == 1..NLockers
NoLocker == 0

\* The lock structures.  Every locker has its own: that they come from one free
\* list would only give them other names.
LockId == Locker \X (1..MaxHeld)
NoLock == <<NoLocker, 0>>
Holder(i) == i[1]

ASSUME LockAssumption ==
    /\ NLockers \in Nat
    /\ MaxHeld \in Nat /\ MaxRef \in Nat
    /\ NoObject \notin Object
    /\ Wants \in [1..NLockers -> SUBSET (Object \X {"READ", "WRITE"})]
    /\ Early \subseteq 1..NLockers
    /\ Detect \in BOOLEAN

VARIABLES
    lock,           \* lock[i]: the lock structure i
    holders,        \* holders[o], waiters[o]: the two lists of an object
    waiters,
    heldby,         \* heldby[l]: the locks of a locker, the latest first
    woken,          \* woken[l]: the mutex it sleeps on has been unlocked
    pc,             \* pc[l]: where the locker's thread is
    ddObjs,         \* region->dd_objs, the objects with waiters
    needDd,         \* region->need_dd
    walker,         \* who holds LOCK_LOCKERS across __dd_build
    op,             \* the object its walk has come to
    changed,        \* that object's generation is no longer the one seen
    row,            \* row[l]: whom l waits for, as far as the walk has come
    selfWait,       \* the first waiters that are also holders
    doomed          \* doomed[l]: the deadlocks l's detector still has to break

lists == <<lock, holders, waiters, heldby, woken>>
walk  == <<walker, op, row, selfWait>>
vars  == <<lists, pc, ddObjs, needDd, walk, changed, doomed>>

Mode == {"READ", "WRITE"}

\* The part of db_riw_conflicts that transactions use.
Conflicts(held, wanted) == held = "WRITE" \/ wanted = "WRITE"

Free == [obj |-> NoObject, mode |-> "READ", ref |-> 0, status |-> "FREE"]

Init ==
    /\ lock     = [i \in LockId |-> Free]
    /\ holders  = [o \in Object |-> <<>>]
    /\ waiters  = [o \in Object |-> <<>>]
    /\ heldby   = [l \in Locker |-> <<>>]
    /\ woken    = [l \in Locker |-> FALSE]
    /\ pc       = [l \in Locker |-> "run"]
    /\ ddObjs   = <<>>
    /\ needDd   = FALSE
    /\ walker   = NoLocker
    /\ op       = NoObject
    /\ changed  = FALSE
    /\ row      = [l \in Locker |-> {}]
    /\ selfWait = {}
    /\ doomed   = [l \in Locker |-> <<>>]

Goes(l, place) == pc' = [pc EXCEPT ![l] = place]

\* Lock i must wait while lock h is held.
Blocks(h, i) == /\ Holder(h) # Holder(i)
                /\ Conflicts(lock[h].mode, lock[i].mode)

\* A locker whose latest lock has not been granted by its own hand sleeps on it.
Resume(l) == IF heldby[l] # <<>> /\ lock[Head(heldby[l])].status # "HELD"
             THEN "sleep" ELSE "run"

-----------------------------------------------------------------------------
(***************************************************************************)
(* __lock_get_internal                                                     *)
(***************************************************************************)

\* Where the walk along a list may meet a conflict.
Against(list, l, m) == {k \in DOMAIN list : /\ Holder(list[k]) # l
                                            /\ Conflicts(lock[list[k]].mode, m)}

\* Mutant: only the first holder is looked at.
HolderConflictFirst(l, o, m) == 1 \in Against(holders[o], l, m)

HolderConflict(l, o, m) == Against(holders[o], l, m) # {}

WaiterConflict(l, o, m) == Against(waiters[o], l, m) # {}

\* The walk along the holders stops there.  What of the locker's own it has
\* passed by then:
Passed(l, o, m) ==
    {holders[o][k] : k \in IF HolderConflict(l, o, m)
                           THEN 1..(Min(Against(holders[o], l, m)) - 1)
                           ELSE DOMAIN holders[o]}

Own(l, o, m) == {i \in Passed(l, o, m) : Holder(i) = l}

\* Held in the same mode already.
Same(l, o, m) ==
    {i \in Own(l, o, m) : lock[i].mode = m /\ lock[i].status = "HELD"}

\* A structure off the free list, linked to the locker.
Take(i, l, o, m, status) ==
    /\ Holder(i) = l /\ lock[i] = Free
    /\ \A k \in 1..(i[2] - 1) : lock[<<l, k>>] # Free
    /\ lock' = [lock EXCEPT ![i] = [obj |-> o, mode |-> m, ref |-> 1,
                                    status |-> status]]
    /\ heldby' = [heldby EXCEPT ![l] = <<i>> \o @]

GetAgain(l, o, m) ==
    /\ pc[l] = "run"
    /\ \E i \in Same(l, o, m) :
        /\ lock[i].ref < MaxRef
        /\ lock' = [lock EXCEPT ![i].ref = @ + 1]
    /\ UNCHANGED <<holders, waiters, heldby, woken, pc, ddObjs, needDd, changed,
                   doomed>> /\ UNCHANGED walk

Grant(l, o, m) ==
    /\ pc[l] = "run" /\ Same(l, o, m) = {}
    /\ ~HolderConflict(l, o, m)
    /\ Own(l, o, m) # {} \/ ~WaiterConflict(l, o, m)
    /\ \E i \in LockId :
        /\ Take(i, l, o, m, "HELD")
        /\ holders' = [holders EXCEPT ![o] = Append(@, i)]
    /\ UNCHANGED <<waiters, woken, pc, ddObjs, needDd, changed, doomed>>
    /\ UNCHANGED walk

\* The request waits: at the head if the locker was seen to hold a lock on the
\* object, else at the tail.  Without locks there is no need to detect.  (With
\* DB_LOCK_NOWAIT the call returns instead, and nothing changes.)
Enqueue(l, o, m) ==
    /\ pc[l] = "run" /\ Same(l, o, m) = {}
    /\ \/ HolderConflict(l, o, m)
       \/ Own(l, o, m) = {} /\ WaiterConflict(l, o, m)
    /\ \E i \in LockId :
        /\ Take(i, l, o, m, "WAITING")
        /\ waiters' = [waiters EXCEPT ![o] =
                           IF HolderConflict(l, o, m) /\ Own(l, o, m) # {}
                           THEN <<i>> \o @ ELSE Append(@, i)]
    /\ ddObjs' = IF waiters[o] = <<>> THEN <<o>> \o ddObjs ELSE ddObjs
    /\ needDd' = TRUE
    /\ Goes(l, IF Detect /\ heldby[l] # <<>> THEN "detect" ELSE "sleep")
    /\ UNCHANGED <<holders, woken, changed, doomed>> /\ UNCHANGED walk

\* The mutex has been unlocked: __lock_get_internal looks at what became of the
\* request.  Any status but these two makes it panic.
Wake(l) ==
    /\ pc[l] = "sleep" /\ woken[l]
    /\ woken' = [woken EXCEPT ![l] = FALSE]
    /\ LET i      == Head(heldby[l])
           status == lock[i].status
       IN  /\ Goes(l, CASE status = "PENDING" -> "run"
                         [] status = "ABORTED" -> "abort"
                         [] OTHER              -> "panic")
           /\ lock' = [lock EXCEPT ![i] =
                          CASE status = "PENDING" -> [@ EXCEPT !.status = "HELD"]
                            [] status = "ABORTED" -> Free
                            [] OTHER              -> @]
           /\ heldby' = [heldby EXCEPT ![l] =
                            IF status = "ABORTED" THEN Tail(@) ELSE @]
    /\ UNCHANGED <<holders, waiters, ddObjs, needDd, changed, doomed>>
    /\ UNCHANGED walk

-----------------------------------------------------------------------------
(***************************************************************************)
(* Releasing: __lock_put_internal, __lock_promote, __lock_downgrade        *)
(***************************************************************************)

\* Mutant: objects stay on the list.
ListedStill(o, W) == ddObjs

\* dd_objs once W are the waiters of o.
Listed(o, W) == IF W = <<>> THEN RemoveFirst(ddObjs, o) ELSE ddObjs

\* __lock_promote: the waiters W of an object are granted in turn, up to the
\* first that conflicts with a holder of H or with one granted before it, and
\* woken, like those in `extra`.  k are the locks so far.
Promote(o, k, H, W, extra) ==
    LET Fits(n) == \A h \in ToSet(H) \cup {W[j] : j \in 1..(n - 1)} :
                        \/ Holder(h) = Holder(W[n])
                        \/ ~Conflicts(k[h].mode, k[W[n]].mode)
    IN \E n \in 0..Len(W) :
        /\ \A j \in 1..n : Fits(j)
        /\ n < Len(W) => ~Fits(n + 1)
        /\ holders' = [holders EXCEPT ![o] = H \o SubSeq(W, 1, n)]
        /\ waiters' = [waiters EXCEPT ![o] = SubSeq(W, n + 1, Len(W))]
        /\ lock' = [i \in LockId |-> IF \E j \in 1..n : i = W[j]
                                     THEN [k[i] EXCEPT !.status = "PENDING"]
                                     ELSE k[i]]
        /\ woken' = [l \in Locker |-> \/ woken[l] \/ l \in extra
                                      \/ \E j \in 1..n : l = Holder(W[j])]
        /\ ddObjs' = Listed(o, SubSeq(W, n + 1, Len(W)))

\* ... and its generation changes, if it had any.
GenerationChanges(o) ==
    changed' = (changed \/ (op = o /\ waiters[o] # <<>> /\ waiters'[o] = <<>>))

\* A lock that is held leaves its object and becomes free.  The detector must
\* run again when waiters are left and none has been promoted.
PutLock(l, i) ==
    LET o == lock[i].obj IN
    /\ Promote(o, [lock EXCEPT ![i] = Free], RemoveFirst(holders[o], i), waiters[o], {})
    /\ GenerationChanges(o)
    /\ heldby' = [heldby EXCEPT ![l] = RemoveFirst(@, i)]
    /\ needDd' = (needDd \/ (waiters[o] # <<>> /\ waiters'[o] = waiters[o]))

\* Whoever has released locks runs the detector where it is needed.
AfterPut == IF Detect /\ needDd' THEN "detect" ELSE "run"

\* __lock_put of one of several references.
PutReference(l, i) ==
    /\ pc[l] = "run" /\ i \in ToSet(heldby[l]) /\ lock[i].ref > 1
    /\ lock' = [lock EXCEPT ![i].ref = @ - 1]
    /\ UNCHANGED needDd
    /\ Goes(l, AfterPut)
    /\ UNCHANGED <<holders, waiters, heldby, woken, ddObjs, changed, doomed>>
    /\ UNCHANGED walk

Put(l, i) ==
    /\ pc[l] = "run" /\ i \in ToSet(heldby[l]) /\ lock[i].ref = 1
    /\ PutLock(l, i)
    /\ Goes(l, AfterPut)
    /\ UNCHANGED doomed /\ UNCHANGED walk

\* DB_LOCK_PUT_ALL at the end of a transaction: one lock after the other,
\* each under its own object's mutex.
PutAll(l) ==
    /\ pc[l] \in {"run", "abort", "putall"} /\ heldby[l] # <<>>
    /\ PutLock(l, Head(heldby[l]))
    /\ Goes(l, IF Len(heldby[l]) > 1 THEN "putall" ELSE AfterPut)
    /\ UNCHANGED doomed /\ UNCHANGED walk

\* ... of a transaction that holds nothing.
PutNone(l) ==
    /\ pc[l] = "abort" /\ heldby[l] = <<>>
    /\ UNCHANGED needDd
    /\ Goes(l, AfterPut)
    /\ UNCHANGED lists /\ UNCHANGED <<ddObjs, changed, doomed>>
    /\ UNCHANGED walk

\* Mutant: the mode is cleared.
DowngradeClears(l, i) ==
    /\ pc[l] = "run" /\ i \in ToSet(heldby[l]) /\ lock[i].mode = "WRITE"
    /\ LET o == lock[i].obj
       IN  /\ Promote(o, [lock EXCEPT ![i].mode = "NG"], holders[o], waiters[o], {})
           /\ GenerationChanges(o)
    /\ UNCHANGED <<heldby, pc, needDd, doomed>> /\ UNCHANGED walk

\* __lock_downgrade of a write lock to a read lock: the mode is written, the
\* object's mutex taken and its waiters promoted, in one step.
Downgrade(l, i) ==
    /\ pc[l] = "run" /\ i \in ToSet(heldby[l]) /\ lock[i].mode = "WRITE"
    /\ LET o == lock[i].obj
       IN  /\ Promote(o, [lock EXCEPT ![i].mode = "READ"], holders[o], waiters[o], {})
           /\ GenerationChanges(o)
    /\ UNCHANGED <<heldby, pc, needDd, doomed>> /\ UNCHANGED walk

-----------------------------------------------------------------------------
(***************************************************************************)
(* __lock_detect                                                           *)
(***************************************************************************)

DetectStart(l) ==
    /\ pc[l] = "detect"
    /\ needDd' = FALSE
    /\ Goes(l, IF needDd THEN "build" ELSE Resume(l))
    /\ UNCHANGED lists /\ UNCHANGED <<ddObjs, changed, doomed>> /\ UNCHANGED walk

FirstObj == IF ddObjs = <<>> THEN NoObject ELSE Head(ddObjs)

BuildStart(l) ==
    /\ pc[l] = "build" /\ walker = NoLocker
    /\ walker'   = l
    /\ op'       = FirstObj
    /\ changed'  = FALSE
    /\ row'      = [j \in Locker |-> {}]
    /\ selfWait' = {}
    /\ UNCHANGED lists /\ UNCHANGED <<pc, ddObjs, needDd, doomed>>

\* The object has been off the list since it was seen there: start over.
BuildAgain(l) ==
    /\ walker = l /\ op # NoObject /\ changed
    /\ op'      = FirstObj
    /\ changed' = FALSE
    /\ row'     = [j \in Locker |-> {}]
    /\ UNCHANGED lists
    /\ UNCHANGED <<pc, ddObjs, needDd, walker, selfWait, doomed>>

\* Every waiter of the object waits for all who hold it.  That the first one
\* holds it too is no deadlock by itself; for the others it is.
BuildObject(l) ==
    /\ walker = l /\ op # NoObject /\ ~changed
    /\ LET W       == waiters[op]
           holding == {Holder(i) : i \in {h \in ToSet(holders[op]) :
                                                   lock[h].status = "HELD"}}
           waiting == {Holder(i) : i \in ToSet(W)}
           first   == Holder(Head(W))
           later   == {Holder(W[k]) : k \in 2..Len(W)}
           next    == {k \in DOMAIN ddObjs : ddObjs[k] = op}
       IN  /\ row' = [j \in Locker |->
                        IF j \notin waiting THEN row[j]
                        ELSE (row[j] \cup holding) \
                                 (IF j = first /\ j \notin later THEN {j} ELSE {})]
           /\ selfWait' = selfWait \cup (IF first \in row[first] \cup holding
                                         THEN {first} ELSE {})
           /\ op' = IF Max(next) = Len(ddObjs) THEN NoObject
                                               ELSE ddObjs[Max(next) + 1]
    /\ changed' = FALSE
    /\ UNCHANGED lists /\ UNCHANGED <<pc, ddObjs, needDd, walker, doomed>>

-----------------------------------------------------------------------------
\* A loop over the lockers, in their order.  (The set of one element makes TLC
\* evaluate every result once.)
ForEachLocker(Step(_, _), start) ==
    LET after[j \in 0..NLockers] ==
            IF j = 0 THEN start
            ELSE CHOOSE x \in {Step(y, j) : y \in {after[j - 1]}} : TRUE
    IN  after[NLockers]

\* __dd_find: the rows r of those i waits for are or-ed into its own, in one
\* pass that ends when i finds itself in it.
Closure(r, i) ==
    LET OrIn(acc, j) ==
            IF acc.found \/ j \notin acc.of THEN acc
            ELSE [of |-> acc.of \cup r[j], found |-> i \in acc.of \cup r[j]]
    IN  ForEachLocker(OrIn, [of |-> r[i], found |-> FALSE])

\* __dd_verify: without the victim some other participant is waited for by none
\* of the rest.
Verified(victim, all) ==
    LET rest == all \ {victim}
        seen == (rest \cap selfWait) \cup UNION {row[j] : j \in rest}
    IN  Cardinality(rest) = 1 \/ ~ (rest \subseteq seen)

\* The victim of a deadlock under the default policy, and its latest lock.
Victim(l, all) ==
    LET last == IF heldby[l] = <<>> THEN NoLock ELSE Head(heldby[l])
    IN  [locker |-> l,
         last   |-> last,
         obj    |-> IF last = NoLock THEN NoObject ELSE lock[last].obj,
         sure   |-> Verified(l, all)]

\* A locker that finds itself is a victim; the participants of its deadlock take
\* no part in another.
TryLocker(acc, i) ==
    LET c == Closure(acc.row, i) IN
    IF i \notin acc.valid THEN acc
    ELSE [row     |-> [acc.row EXCEPT ![i] = c.of],
          valid   |-> IF c.found THEN acc.valid \ c.of ELSE acc.valid,
          victims |-> IF c.found THEN Append(acc.victims, Victim(i, c.of))
                                 ELSE acc.victims]

Victims ==
    ForEachLocker(TryLocker,
                  [row |-> row, valid |-> Locker, victims |-> <<>>]).victims

\* The walk is over: each locker's last lock is looked up, which the code does
\* under one object's mutex after the other, and the map is searched.
BuildEnd(l) ==
    /\ walker = l /\ op = NoObject
    /\ doomed' = [doomed EXCEPT ![l] = Victims]
    /\ Goes(l, IF doomed'[l] = <<>> THEN Resume(l) ELSE "kill")
    /\ walker'   = NoLocker
    /\ row'      = [j \in Locker |-> {}]
    /\ selfWait' = {}
    /\ UNCHANGED lists /\ UNCHANGED <<ddObjs, needDd, op, changed>>

\* Mutant: that the victim still has the lock is enough.
StillWaitsAnyhow(v) ==
    /\ heldby[v.locker] # <<>>
    /\ Head(heldby[v.locker]) = v.last
    /\ lock[v.last].obj = v.obj

\* What __dd_abort looks at before it aborts: the victim still waits for the
\* lock it was seen waiting for.
StillWaits(v) ==
    /\ heldby[v.locker] # <<>>
    /\ Head(heldby[v.locker]) = v.last
    /\ lock[v.last].obj = v.obj
    /\ lock[v.last].status = "WAITING"

AfterKill(l) ==
    /\ doomed' = [doomed EXCEPT ![l] = Tail(@)]
    /\ Goes(l, IF Len(doomed[l]) > 1 THEN "kill" ELSE Resume(l))

\* Mutant: the other waiters are not looked at.
AbortUnpromoted(l, i) ==
    /\ pc[l] = "kill" /\ walker = NoLocker
    /\ LET v == Head(doomed[l])
           o == lock[i].obj
           W == RemoveFirst(waiters[o], i)
       IN  /\ v.last = i /\ StillWaits(v)
           /\ lock' = [lock EXCEPT ![i].status = "ABORTED"]
           /\ waiters' = [waiters EXCEPT ![o] = W]
           /\ woken' = [woken EXCEPT ![Holder(i)] = TRUE]
           /\ ddObjs' = IF W = <<>> THEN RemoveFirst(ddObjs, o) ELSE ddObjs
           /\ needDd' = (needDd \/ ~v.sure)
    /\ AfterKill(l)
    /\ UNCHANGED <<holders, heldby, changed>> /\ UNCHANGED walk

\* __dd_abort.  The mutex LOCK_LOCKERS keeps it out of a walk.
Abort(l, i) ==
    /\ pc[l] = "kill" /\ walker = NoLocker
    /\ LET v == Head(doomed[l])
           o == lock[i].obj
       IN  /\ v.last = i /\ StillWaits(v)
           /\ Promote(o, [lock EXCEPT ![i].status = "ABORTED"],
                      holders[o], RemoveFirst(waiters[o], i), {Holder(i)})
           /\ needDd' = (needDd \/ ~v.sure)
    /\ AfterKill(l)
    /\ UNCHANGED <<heldby, changed>> /\ UNCHANGED walk

\* Mutant: it tries again with the map that is out of date.
AlreadyAbortedAgain(l) ==
    /\ pc[l] = "kill" /\ walker = NoLocker
    /\ ~StillWaits(Head(doomed[l]))
    /\ needDd' = TRUE
    /\ UNCHANGED <<pc, doomed>>
    /\ UNCHANGED lists /\ UNCHANGED <<ddObjs, changed>> /\ UNCHANGED walk

\* DB_ALREADY_ABORTED: the map is out of date, the detector must run again.
AlreadyAborted(l) ==
    /\ pc[l] = "kill" /\ walker = NoLocker
    /\ ~StillWaits(Head(doomed[l]))
    /\ needDd' = TRUE
    /\ AfterKill(l)
    /\ UNCHANGED lists /\ UNCHANGED <<ddObjs, changed>> /\ UNCHANGED walk

-----------------------------------------------------------------------------
Requests(l) ==
    \/ \E w \in Wants[l] : Grant(l, w[1], w[2]) \/ Enqueue(l, w[1], w[2])
    \/ /\ l \in Early
       /\ \/ \E w \in Wants[l] : GetAgain(l, w[1], w[2])
          \/ \E i \in LockId : PutReference(l, i) \/ Put(l, i) \/ Downgrade(l, i)

Detector(l) ==
    \/ DetectStart(l) \/ BuildStart(l) \/ BuildAgain(l) \/ BuildObject(l)
    \/ BuildEnd(l) \/ AlreadyAborted(l) \/ \E i \in LockId : Abort(l, i)

Next == \E l \in Locker :
            Requests(l) \/ Wake(l) \/ PutAll(l) \/ PutNone(l) \/ Detector(l)

\* Threads run, and a transaction does not go on for ever.
Fairness ==
    \A l \in Locker : /\ WF_vars(Wake(l) \/ PutNone(l) \/ Detector(l))
                      /\ SF_vars(PutAll(l))

Spec == Init /\ [][Next]_vars /\ Fairness

-----------------------------------------------------------------------------
Status == {"FREE", "HELD", "PENDING", "WAITING", "ABORTED"}
Places == {"run", "sleep", "abort", "putall", "detect", "build", "kill", "panic"}
Lock   == [obj : Object \cup {NoObject}, mode : Mode, ref : Nat, status : Status]

TypeOK ==
    /\ lock \in [LockId -> Lock]
    /\ holders \in [Object -> Seq(LockId)]
    /\ waiters \in [Object -> Seq(LockId)]
    /\ heldby  \in [Locker -> Seq(LockId)]
    /\ woken   \in [Locker -> BOOLEAN]
    /\ pc \in [Locker -> Places]
    /\ ddObjs \in Seq(Object)
    /\ needDd \in BOOLEAN
    /\ walker \in Locker \cup {NoLocker}
    /\ op \in Object \cup {NoObject}
    /\ changed \in BOOLEAN
    /\ row \in [Locker -> SUBSET Locker]
    /\ selfWait \subseteq Locker
    /\ doomed \in [Locker -> Seq([locker : Locker, last : LockId \cup {NoLock},
                                  obj : Object \cup {NoObject}, sure : BOOLEAN])]

\* Locks of two lockers on one object never conflict, however the second one
\* came to be granted: at once, behind waiters, by a release, a downgrade, or
\* an abort of somebody else.
HoldersCompatible ==
    \A o \in Object : \A j, k \in DOMAIN holders[o] :
        ~Blocks(holders[o][j], holders[o][k])

\* Nobody is left waiting for a lock that could be granted: some holder stands
\* in the way of the first waiter of every object.
NoMissedGrant ==
    \A o \in Object : waiters[o] # <<>> =>
        \E k \in DOMAIN holders[o] : Blocks(holders[o][k], Head(waiters[o]))

\* A locker is woken exactly when its request has been granted or aborted.  A
\* wake-up too many would make it panic, now or at its next wait; one too few
\* would leave it asleep for ever.
WokenExactly ==
    \A l \in Locker : woken[l] <=>
        /\ heldby[l] # <<>>
        /\ lock[Head(heldby[l])].status \in {"PENDING", "ABORTED"}

\* The detector's list has every object that somebody waits for, once.
DdObjsExact ==
    /\ ToSet(ddObjs) = {o \in Object : waiters[o] # <<>>}
    /\ IsInjective(ddObjs)

\* A request that has to wait is granted or aborted in the end: every deadlock
\* is found and broken, even if the detector works on a map that is out of date.
RequestsEnd ==
    \A l \in Locker : pc[l] = "sleep" ~> pc[l] # "sleep"
=============================================================================
