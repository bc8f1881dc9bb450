------------------------------- MODULE DbLog -------------------------------
(***************************************************************************)
(* Putting records into the log and flushing it, db/src/log/log_put.c.     *)
(*                                                                         *)
(* The log is a sequence of files of LogSize units; what is not yet in the *)
(* current file is in one buffer of BufSize units.  Every record is two    *)
(* units long, a header and a body, so a record may be split between file  *)
(* and buffer.  The log region's lock covers everything but the fsync:     *)
(* while one task syncs, others put records, and those that commit wait    *)
(* for the next flush, which one of them makes for all (group commit).     *)
(*                                                                         *)
(* A write or an fsync of the log file may fail.  A write that fails may   *)
(* have written any part of its data.                                      *)
(***************************************************************************)
EXTENDS Integers, FiniteSets, Sequences, SequencesExt

CONSTANTS
    Task,           \* the threads of control
    NoTask,         \* nobody
    Updaters,       \* bound: the tasks that put other records than commits,
                    \* and write pages
    LogSize,        \* the size of a log file
    BufSize,        \* the size of the log buffer
    MaxFile,        \* bound: the number of log files
    MaxFaults       \* bound: how many writes and syncs fail

RecLen == 2

\* Records are shorter than the buffer: __log_fill never writes past it at once.
ASSUME LogAssumption ==
    /\ NoTask \notin Task /\ Updaters \subseteq Task
    /\ LogSize \in Nat /\ LogSize % RecLen = 0 /\ LogSize > RecLen
    /\ BufSize \in Nat /\ BufSize > RecLen
    /\ MaxFile \in Nat \ {0} /\ MaxFaults \in Nat

VARIABLES
    lsn,            \* lp->lsn: where the next record goes
    bufp,           \* the contents of the buffer, b_off units
    f_lsn,          \* the record that the first unit of the buffer belongs to
    w_off,          \* where in the current file the buffer goes
    file,           \* the log files as reads see them
    disk,           \* the log files as a crash leaves them
    s_lsn,          \* everything before it is synced
    t_lsn,          \* the largest LSN that a waiting task has asked for
    in_flush,       \* the flushes under way or promised
    commits,        \* the tasks that wait, the latest first
    region,         \* who holds the lock of the log region
    mtx_flush,      \* who holds the flush mutex
    op,             \* op[t]: what task t is doing
    told,           \* the commits that log_put has reported as done
    faults          \* how many writes and syncs have failed

bufVars   == <<lsn, bufp, f_lsn, w_off, file>>
flushVars == <<t_lsn, in_flush, commits>>
vars == <<bufVars, disk, s_lsn, flushVars, region, mtx_flush, op, told, faults>>

Lsn(f, o) == [file |-> f, offset |-> o]
ZeroLsn   == Lsn(0, 0)

\* LOG_COMPARE(a, b) < 0.
Before(a, b) == \/ a.file < b.file
                \/ a.file = b.file /\ a.offset < b.offset

\* Mutant: a record that begins where the sync ended passes for synced.
FlushedOffByOne(l) == ~Before(s_lsn, l)

\* ALREADY_FLUSHED.
Flushed(l) == Before(l, s_lsn)

\* The last record, lp->lsn less lp->len.
LastLsn == Lsn(lsn.file, lsn.offset - RecLen)

Files   == 1 .. MaxFile
Offsets == 0 .. LogSize - 1
Unit(l, part) == [lsn |-> l, part |-> part]
Zero == Unit(ZeroLsn, "zero")       \* __db_file_extend makes the file full size

Idle == [at |-> "out", for |-> "none", lsn |-> ZeroLsn, goal |-> ZeroLsn,
         release |-> TRUE, snap |-> ZeroLsn, woken |-> "no", ok |-> TRUE]

\* __log_open of a new log: __log_init, and the first record of the first file.
Init ==
    /\ lsn = Lsn(1, RecLen) /\ s_lsn = ZeroLsn
    /\ f_lsn = Lsn(1, 0) /\ t_lsn = Lsn(1, 0)
    /\ bufp = <<Unit(f_lsn, "head"), Unit(f_lsn, "persist")>> /\ w_off = 0
    /\ file = [f \in Files |-> [o \in Offsets |-> Zero]]
    /\ disk = file
    /\ in_flush = 0 /\ commits = <<>>
    /\ region = NoTask /\ mtx_flush = NoTask
    /\ op = [t \in Task |-> Idle]
    /\ told = {} /\ faults = 0

At(t, place) == op[t].at = place
Sets(t, r)   == op' = [op EXCEPT ![t] = r]
Goes(t, place) == Sets(t, [op[t] EXCEPT !.at = place])

-----------------------------------------------------------------------------
(***************************************************************************)
(* The buffer and the file                                                 *)
(***************************************************************************)

\* The current file once s is written to it at w_off.
Overlay(s) ==
    [file EXCEPT ![lsn.file] =
        [o \in Offsets |-> IF o \in w_off .. w_off + Len(s) - 1
                           THEN s[o - w_off + 1] ELSE @[o]]]

\* __log_write of s, and what is left of it when it fails.
Write(s)      == file' = Overlay(s) /\ w_off' = w_off + Len(s) /\ UNCHANGED faults
WriteFails(s) ==
    /\ faults < MaxFaults /\ faults' = faults + 1
    /\ \E k \in 0 .. Len(s) : file' = Overlay(SubSeq(s, 1, k))
    /\ UNCHANGED w_off

\* Mutant: a buffer that was empty keeps the LSN of its last contents.
FillKeepsLsn(units) ==
    LET all  == bufp \o units
        full == Len(all) >= BufSize
    IN
    /\ IF full THEN Write(SubSeq(all, 1, BufSize)) ELSE UNCHANGED <<file, w_off, faults>>
    /\ bufp'  = IF full THEN SubSeq(all, BufSize + 1, Len(all)) ELSE all
    /\ f_lsn' = IF full /\ Len(all) > BufSize THEN lsn ELSE f_lsn
    /\ lsn'   = Lsn(lsn.file, lsn.offset + RecLen)

\* __log_fill for header and body of the record at lsn: a buffer that is full
\* is written, and f_lsn is set when a unit begins a new one.
Fill(units) ==
    LET all  == bufp \o units
        full == Len(all) >= BufSize
    IN
    /\ IF full THEN Write(SubSeq(all, 1, BufSize)) ELSE UNCHANGED <<file, w_off, faults>>
    /\ bufp'  = IF full THEN SubSeq(all, BufSize + 1, Len(all)) ELSE all
    /\ f_lsn' = IF bufp = <<>> \/ (full /\ Len(all) > BufSize) THEN lsn ELSE f_lsn
    /\ lsn'   = Lsn(lsn.file, lsn.offset + RecLen)

\* __log_putr when that write fails: everything is reset to where it started.
FillFails(units) ==
    LET all == bufp \o units IN
    /\ Len(all) >= BufSize
    /\ WriteFails(SubSeq(all, 1, BufSize))
    /\ UNCHANGED <<lsn, bufp, f_lsn>>

-----------------------------------------------------------------------------
(***************************************************************************)
(* __log_put                                                               *)
(***************************************************************************)

\* log_put of a commit record, to be flushed, or of another record.  The
\* record goes to a new file if the file has no room for it (it is flushed
\* first), or has not got its first record yet.
CallPut(t, kind) ==
    LET full == lsn.offset + RecLen > LogSize IN
    /\ At(t, "out") /\ region = NoTask
    /\ full => lsn.file < MaxFile
    /\ region' = t
    /\ Sets(t, [Idle EXCEPT
          !.for = kind,
          !.at = IF lsn.offset = 0 THEN "newfile" ELSE IF full THEN "flush" ELSE "put",
          !.release = ~full,
          !.goal = IF full THEN LastLsn ELSE ZeroLsn])
    /\ UNCHANGED <<bufVars, disk, s_lsn, flushVars, mtx_flush, told, faults>>

\* Mutant: the log goes on at the end of the old file.
AdvanceFileStays(t) ==
    /\ At(t, "newfile") /\ lsn.offset # 0
    /\ w_off' = 0
    /\ UNCHANGED <<lsn, bufp, f_lsn, file, disk, s_lsn, flushVars, region, mtx_flush, op, told, faults>>

\* The rest of __log_newfile, once the old file is flushed: a file begins
\* with a record of its own.
AdvanceFile(t) ==
    /\ At(t, "newfile") /\ lsn.offset # 0
    /\ lsn' = Lsn(lsn.file + 1, 0)
    /\ w_off' = 0
    /\ UNCHANGED <<bufp, f_lsn, file, disk, s_lsn, flushVars, region, mtx_flush, op, told, faults>>

\* A put that fails returns its error: log_put is over.
PutFails(t) == region' = NoTask /\ Sets(t, Idle)

NewFile(t) ==
    LET units == <<Unit(lsn, "head"), Unit(lsn, "persist")>> IN
    /\ At(t, "newfile") /\ lsn.offset = 0
    /\ \/ Fill(units) /\ Goes(t, "put") /\ UNCHANGED region
       \/ FillFails(units) /\ PutFails(t)
    /\ UNCHANGED <<disk, s_lsn, flushVars, mtx_flush, told>>

PutRecord(t) ==
    LET units == <<Unit(lsn, "head"), Unit(lsn, op[t].for)>> IN
    /\ At(t, "put")
    /\ \/ /\ Fill(units)
          /\ \/ /\ op[t].for = "commit"
                /\ Sets(t, [op[t] EXCEPT !.at = "flush", !.lsn = lsn, !.goal = lsn,
                                         !.release = TRUE])
                /\ UNCHANGED region
             \/ /\ op[t].for = "update"
                /\ Sets(t, Idle) /\ region' = NoTask
       \/ FillFails(units) /\ PutFails(t)
    /\ UNCHANGED <<disk, s_lsn, flushVars, mtx_flush, told>>

\* __log_flush of a record that is in the log: the memory pool calls it before
\* it writes a page.  Its first look at s_lsn is without the lock.
CallFlush(t, l) ==
    /\ At(t, "out") /\ region = NoTask
    /\ ~Flushed(l)
    /\ region' = t
    /\ Sets(t, [Idle EXCEPT !.for = "page", !.at = "flush", !.goal = l])
    /\ UNCHANGED <<bufVars, disk, s_lsn, flushVars, mtx_flush, told, faults>>

-----------------------------------------------------------------------------
(***************************************************************************)
(* __log_flush_int                                                         *)
(***************************************************************************)

\* A flush of all there is, before the log goes on in a new file.
ForNewFile(t) == op[t].for \in {"commit", "update"} /\ op[t].lsn = ZeroLsn

\* Nothing to do, or wait for the flush that is under way, or flush.
FlushInt(t) ==
    LET goal   == op[t].goal
        passed == ~ForNewFile(t) /\ Flushed(goal)
    IN
    /\ At(t, "flush")
    /\ \/ /\ passed
          /\ Sets(t, [op[t] EXCEPT !.at = "flushed", !.ok = TRUE])
          /\ UNCHANGED <<flushVars, region>>
       \/ /\ ~passed /\ op[t].release /\ in_flush # 0
          /\ commits' = <<t>> \o commits
          /\ t_lsn' = IF Before(t_lsn, goal) THEN goal ELSE t_lsn
          /\ region' = NoTask
          /\ Goes(t, "wait")
          /\ UNCHANGED in_flush
       \/ /\ ~passed /\ ~(op[t].release /\ in_flush # 0)
          /\ Goes(t, "mtx")
          /\ UNCHANGED <<flushVars, region>>
    /\ UNCHANGED <<bufVars, disk, s_lsn, mtx_flush, told, faults>>

\* Mutant: every waiter takes a flush off the count.
WokenBoth(t) ==
    /\ At(t, "wait") /\ op[t].woken # "no" /\ region = NoTask
    /\ region' = t
    /\ in_flush' = in_flush - 1
    /\ \/ /\ op[t].woken = "flush"
          /\ Sets(t, [op[t] EXCEPT !.at = "mtx", !.goal = t_lsn, !.woken = "no"])
       \/ /\ op[t].woken = "done"
          /\ Sets(t, [op[t] EXCEPT !.at = "flushed", !.ok = TRUE, !.woken = "no"])
    /\ UNCHANGED <<bufVars, disk, s_lsn, t_lsn, commits, mtx_flush, told, faults>>

\* A waiter that is woken returns, or flushes for all who have asked.
Woken(t) ==
    /\ At(t, "wait") /\ op[t].woken # "no" /\ region = NoTask
    /\ region' = t
    /\ \/ /\ op[t].woken = "flush"
          /\ in_flush' = in_flush - 1
          /\ Sets(t, [op[t] EXCEPT !.at = "mtx", !.goal = t_lsn, !.woken = "no"])
       \/ /\ op[t].woken = "done"
          /\ Sets(t, [op[t] EXCEPT !.at = "flushed", !.ok = TRUE, !.woken = "no"])
          /\ UNCHANGED in_flush
    /\ UNCHANGED <<bufVars, disk, s_lsn, t_lsn, commits, mtx_flush, told, faults>>

\* Mutant: those who wait are forgotten.
DoneQuietly(t, ok, n) ==
    /\ commits' = <<>> /\ in_flush' = n
    /\ Sets(t, [op[t] EXCEPT !.at = "flushed", !.ok = ok])
    /\ UNCHANGED t_lsn

\* The walk down the list s, which takes those off whose record is synced.
NotSynced(s) ==
    LET rest[i \in 0 .. Len(s)] ==
            IF i = 0 THEN <<>>
            ELSE IF Flushed(op[s[i]].goal) THEN rest[i - 1]
            ELSE Append(rest[i - 1], s[i])
    IN rest[Len(s)]

\* "done": those whose record is synced are woken, and so is the first of the
\* others, to make the next flush.  n is in_flush less what this task had.
Done(t, ok, n) ==
    LET rest == NotSynced(commits)
        wakes(u) == IF rest # <<>> /\ u = Head(rest) THEN "flush"
                    ELSE IF u \in ToSet(commits) /\ Flushed(op[u].goal) THEN "done"
                    ELSE op[u].woken
    IN
    /\ commits'  = IF rest = <<>> THEN <<>> ELSE Tail(rest)
    /\ in_flush' = IF rest = <<>> THEN n ELSE n + 1
    /\ op' = [u \in Task |-> IF u = t THEN [op[t] EXCEPT !.at = "flushed", !.ok = ok]
                                      ELSE [op[u] EXCEPT !.woken = wakes(u)]]
    /\ UNCHANGED t_lsn

\* Under the flush mutex: somebody else may have synced this far; otherwise
\* the buffer is written if the record is in it, and the region let go.
FlushWrite(t) ==
    LET goal == op[t].goal
        inBuffer == bufp # <<>> /\ ~Before(goal, f_lsn)
        Snap(empty, off) == IF empty THEN Lsn(f_lsn.file, off) ELSE f_lsn
        Syncs(snap) == /\ in_flush' = in_flush + 1
                       /\ mtx_flush' = t
                       /\ region' = IF op[t].release THEN NoTask ELSE region
                       /\ Sets(t, [op[t] EXCEPT !.at = "sync", !.snap = snap])
                       /\ UNCHANGED <<t_lsn, commits>>
    IN
    /\ At(t, "mtx") /\ mtx_flush = NoTask
    /\ \/ /\ Flushed(goal)
          /\ Done(t, TRUE, in_flush)
          /\ UNCHANGED <<bufp, file, w_off, region, mtx_flush, faults>>
       \/ /\ ~Flushed(goal) /\ inBuffer
          /\ Write(bufp) /\ bufp' = <<>>
          /\ Syncs(Snap(TRUE, w_off'))
       \/ /\ ~Flushed(goal) /\ inBuffer
          /\ WriteFails(bufp) /\ Done(t, FALSE, in_flush)
          /\ UNCHANGED <<bufp, region, mtx_flush>>
       \/ /\ ~Flushed(goal) /\ ~inBuffer
          /\ Syncs(Snap(bufp = <<>>, w_off))
          /\ UNCHANGED <<bufp, file, w_off, faults>>
    /\ UNCHANGED <<lsn, f_lsn, disk, s_lsn, told>>

\* Mutant: all that is in the log by the end of the fsync passes for synced.
SyncToEnd(t) ==
    /\ At(t, "sync")
    /\ mtx_flush' = NoTask
    /\ \/ /\ disk' = [disk EXCEPT ![lsn.file] = file[lsn.file]]
          /\ s_lsn' = lsn
          /\ Sets(t, [op[t] EXCEPT !.at = "synced", !.ok = TRUE])
          /\ UNCHANGED faults
       \/ /\ faults < MaxFaults /\ faults' = faults + 1
          /\ Sets(t, [op[t] EXCEPT !.at = "synced", !.ok = FALSE])
          /\ UNCHANGED <<disk, s_lsn>>
    /\ UNCHANGED <<bufVars, flushVars, region, told>>

\* The fsync.  s_lsn is set under the flush mutex alone; its two stores, the
\* first of a smaller value, are one step.
Sync(t) ==
    /\ At(t, "sync")
    /\ mtx_flush' = NoTask
    /\ \/ /\ disk' = [disk EXCEPT ![lsn.file] = file[lsn.file]]
          /\ s_lsn' = op[t].snap
          /\ Sets(t, [op[t] EXCEPT !.at = "synced", !.ok = TRUE])
          /\ UNCHANGED faults
       \/ /\ faults < MaxFaults /\ faults' = faults + 1
          /\ Sets(t, [op[t] EXCEPT !.at = "synced", !.ok = FALSE])
          /\ UNCHANGED <<disk, s_lsn>>
    /\ UNCHANGED <<bufVars, flushVars, region, told>>

\* The region lock is taken again and the waiters are woken.
Relock(t) ==
    /\ At(t, "synced")
    /\ region = IF op[t].release THEN NoTask ELSE t
    /\ region' = t
    /\ Done(t, op[t].ok, in_flush - 1)
    /\ UNCHANGED <<bufVars, disk, s_lsn, mtx_flush, told, faults>>

-----------------------------------------------------------------------------
(***************************************************************************)
(* After the flush                                                         *)
(***************************************************************************)

\* __log_flush returns; __log_newfile goes on, or fails and with it log_put.
Returns(t) ==
    /\ At(t, "flushed")
    /\ \/ /\ op[t].for \in {"page", "undo"}
          /\ Sets(t, Idle) /\ region' = NoTask
       \/ /\ ForNewFile(t)
          /\ IF op[t].ok THEN Goes(t, "newfile") /\ UNCHANGED region
                         ELSE PutFails(t)
    /\ UNCHANGED <<bufVars, disk, s_lsn, flushVars, mtx_flush, told, faults>>

\* __log_flush_commit: the flush of a commit that has failed is no matter if
\* the record is past nevertheless, which it takes from the files' numbers.
TellsDone(t) ==
    LET l == op[t].lsn IN
    /\ At(t, "flushed") /\ op[t].for = "commit" /\ l # ZeroLsn
    /\ op[t].ok \/ l.file # s_lsn.file \/ l.offset < s_lsn.offset
    /\ told' = told \cup {l}
    /\ Sets(t, Idle) /\ region' = NoTask
    /\ UNCHANGED <<bufVars, disk, s_lsn, flushVars, mtx_flush, faults>>

\* Otherwise the commit record is made an abort record, in the buffer or in
\* the file, and flushed, whatever comes of it; log_put returns the error.
ForceAbort(t) ==
    LET l == op[t].lsn
        body == Unit(l, "abort")
    IN
    /\ At(t, "flushed") /\ op[t].for = "commit" /\ l # ZeroLsn
    /\ ~op[t].ok /\ l.file = s_lsn.file /\ l.offset >= s_lsn.offset
    /\ IF l.offset > w_off
       THEN /\ bufp' = [bufp EXCEPT ![l.offset - w_off + 2] = body]
            /\ UNCHANGED file
       ELSE /\ file' = IF file[l.file][l.offset] = Zero THEN file
                       ELSE [file EXCEPT ![l.file][l.offset + 1] = body]
            /\ UNCHANGED bufp
    /\ Sets(t, [op[t] EXCEPT !.at = "flush", !.for = "undo", !.goal = l,
                             !.release = FALSE])
    /\ UNCHANGED <<lsn, f_lsn, w_off, disk, s_lsn, flushVars, region, mtx_flush, told, faults>>

-----------------------------------------------------------------------------
\* The records of the log.
Puts == {l \in [file : Files, offset : Offsets] :
            l.offset % RecLen = 0 /\ Before(l, lsn)}

Calls(t) ==
    \/ CallPut(t, "commit")
    \/ t \in Updaters /\ CallPut(t, "update")
    \/ t \in Updaters /\ \E l \in Puts : CallFlush(t, l)

Continues(t) ==
    \/ AdvanceFile(t) \/ NewFile(t) \/ PutRecord(t)
    \/ FlushInt(t) \/ Woken(t) \/ FlushWrite(t) \/ Sync(t) \/ Relock(t)
    \/ Returns(t) \/ TellsDone(t) \/ ForceAbort(t)

\* All files are full and synced (the bound).
Full ==
    /\ lsn = Lsn(MaxFile, LogSize) /\ s_lsn = lsn
    /\ \A t \in Task : At(t, "out")
    /\ UNCHANGED vars

Next == (\E t \in Task : Calls(t) \/ Continues(t)) \/ Full

\* A task that can go on does; the locks are fair.
Fairness == \A t \in Task : /\ WF_vars(Continues(t))
                            /\ SF_vars(Woken(t) \/ FlushWrite(t) \/ Relock(t))

Spec == Init /\ [][Next]_vars /\ Fairness

-----------------------------------------------------------------------------
Places == {"out", "newfile", "put", "flush", "wait", "mtx", "sync", "synced",
           "flushed"}
LsnType == [file : Nat, offset : Int]
UnitType == [lsn : LsnType, part : {"zero", "head", "persist", "update", "commit", "abort"}]

TypeOK ==
    /\ lsn \in LsnType /\ f_lsn \in LsnType /\ s_lsn \in LsnType /\ t_lsn \in LsnType
    /\ bufp \in Seq(UnitType) /\ Len(bufp) < BufSize
    /\ w_off \in Nat
    /\ file \in [Files -> [Offsets -> UnitType]]
    /\ disk \in [Files -> [Offsets -> UnitType]]
    /\ in_flush \in Nat
    /\ commits \in Seq(Task)
    /\ region \in Task \cup {NoTask} /\ mtx_flush \in Task \cup {NoTask}
    /\ op \in [Task -> [at : Places,
                         for : {"none", "page", "undo", "commit", "update"},
                         lsn : LsnType, goal : LsnType, release : BOOLEAN,
                         snap : LsnType, woken : {"no", "done", "flush"},
                         ok : BOOLEAN]]
    /\ told \subseteq LsnType
    /\ faults \in 0 .. MaxFaults

\* The unit that belongs at an offset: the header of a record, or its body.
Belongs(u, f, o) == /\ u.lsn = Lsn(f, o - (o % RecLen))
                    /\ u.part = "head" <=> o % RecLen = 0

\* What was put into the log is there, in files and buffer together, however
\* many puts and writes of records shorter than the buffer have failed.
LogIntact ==
    /\ \A f \in Files, o \in Offsets :
          f < lsn.file \/ (f = lsn.file /\ o < w_off) => Belongs(file[f][o], f, o)
    /\ lsn.offset = w_off + Len(bufp)
    /\ \A i \in 1 .. Len(bufp) : Belongs(bufp[i], lsn.file, w_off + i - 1)

\* s_lsn tells the truth: all that lies before it survives a crash.
SyncedOnDisk ==
    \A f \in Files, o \in Offsets :
        Before(Lsn(f, o), s_lsn) => Belongs(disk[f][o], f, o)

\* "The sync point can only move forward": __log_flush reads it without a lock.
SyncPointForward == [][~Before(s_lsn', s_lsn)]_vars

\* The flushes under way, and the waiters that are to make the next one.
Flushing == {t \in Task : \/ op[t].at \in {"sync", "synced"}
                          \/ op[t].at = "wait" /\ op[t].woken = "flush"}
InFlushExact == in_flush = Cardinality(Flushing)

\* Nobody waits without somebody left to wake him, also when flushes fail:
\* the waiters in the list have a flush before them, and a waiter taken off
\* the list has been woken.
WaitersHaveFlush ==
    /\ commits # <<>> => Flushing # {} \/ \E t \in Task : At(t, "mtx")
    /\ \A t \in Task : At(t, "wait") /\ op[t].woken = "no" => t \in ToSet(commits)

\* A flush that reports success has its record on disk, and whole.
FlushedOnDisk ==
    \A t \in Task : At(t, "flushed") /\ op[t].ok /\ op[t].lsn # ZeroLsn
                       /\ op[t].for = "commit" =>
        LET l == op[t].lsn IN
        /\ disk[l.file][l.offset]     = Unit(l, "head")
        /\ disk[l.file][l.offset + 1] = Unit(l, "commit")

\* "if the commit we care about made it to disk successfully, we just ignore
\* the failure": a commit that log_put reports as done is on disk.
CommitDurable ==
    \A l \in told : /\ disk[l.file][l.offset]     = Unit(l, "head")
                     /\ disk[l.file][l.offset + 1] = Unit(l, "commit")

\* "Make sure that the commit record does not get out after we abort the
\* transaction": the flush that follows does not write it.
AbortedStaysOut ==
    \A t \in Task : At(t, "flushed") /\ op[t].for = "undo" /\ op[t].ok =>
        LET l == op[t].lsn IN disk[l.file][l.offset + 1] # Unit(l, "commit")

\* Every call comes back.
CallsReturn == \A t \in Task : ~At(t, "out") ~> At(t, "out")
=============================================================================
