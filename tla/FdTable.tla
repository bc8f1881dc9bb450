------------------------------ MODULE FdTable ------------------------------
(***************************************************************************)
(* The descriptor table that stands under Berkeley DB in the kernel:       *)
(* open, close and the lookups of db/build_kernel/syscalls.c.              *)
(*                                                                         *)
(* One array serves both the open files and the list of closed             *)
(* descriptors: a slot holds a struct file, or the number of the next free *)
(* slot (0 ends the list).  ftable_lock covers taking a descriptor and     *)
(* putting one back; storing the file of a descriptor just taken, and      *)
(* every lookup, run without it.                                           *)
(*                                                                         *)
(* A struct file lives as long as its reference count is not zero.  The    *)
(* tasks whose own files_struct is not shared look a file up without       *)
(* taking a reference to it (__fget_light).                                *)
(***************************************************************************)
EXTENDS Integers, FiniteSets

CONSTANTS
    Task,           \* the tasks that call into Berkeley DB
    Lone,           \* the tasks with current->files->count = 1
    File,           \* what filp_open may return
    NoFile,         \* the NULL pointer
    TableSize       \* 1024 in the code

FirstFd == 3        \* where next_free starts
Fd   == FirstFd .. TableSize - 1
Link == {0} \cup Fd

ASSUME FdAssumption ==
    /\ IsFiniteSet(Task) /\ Lone \subseteq Task
    /\ NoFile \notin File
    /\ File \cap Int = {}
    /\ TableSize \in Nat /\ TableSize > FirstFd

VARIABLES
    ftable,         \* ftable[fd]: a file, or a link of the free list
    next_free,      \* the descriptors from here on were never used
    free_head,      \* the first closed descriptor, or 0
    f_count,        \* the references to each struct file
    op              \* op[t]: what task t is doing, with which slot and file

vars == <<ftable, next_free, free_head, f_count, op>>

\* open:    "install" has a file but no slot, "store" has both,
\*          "full" found no slot
\* lookups: "fget" looks for the file, "get" has seen it but has no reference
\*          yet, "use" has a reference, "light" uses it without
\* close:   "close" has emptied the slot and still holds the table's reference
Place == {"idle", "install", "store", "full", "fget", "get", "use", "light",
          "close"}
Op == [at : Place, fd : Link, file : File \cup {NoFile}]

At(where, slot, f) == [at |-> where, fd |-> slot, file |-> f]
Idle == At("idle", 0, NoFile)

Init ==
    /\ ftable    = [fd \in Fd |-> 0]
    /\ next_free = FirstFd
    /\ free_head = 0
    /\ f_count   = [f \in File |-> 0]
    /\ op        = [t \in Task |-> Idle]

\* __get_file: small numbers are links, not files.
Get(fd) == IF ftable[fd] \in File THEN ftable[fd] ELSE NoFile

Moves(t, place) == op' = [op EXCEPT ![t] = place]
Refs(f, n)      == f_count' = [f_count EXCEPT ![f] = @ + n]

-----------------------------------------------------------------------------
(***************************************************************************)
(* open                                                                    *)
(***************************************************************************)

\* filp_open makes a file.  Its memory is that of no file still in use, and
\* of none that a task in an RCU section has seen.  The number that open takes
\* from the caller's own files_struct, and never uses, is left out.
FilpOpen(t) ==
    \E f \in File :
        /\ op[t] = Idle
        /\ f_count[f] = 0 /\ \A u \in Task : op[u].file # f
        /\ Refs(f, 1)
        /\ Moves(t, At("install", 0, f))
        /\ UNCHANGED <<ftable, next_free, free_head>>

\* Mutant: closed descriptors are never used again.
TakeFdNew(t) ==
    /\ op[t].at = "install"
    /\ \/ /\ next_free # TableSize
          /\ next_free' = next_free + 1
          /\ Moves(t, At("store", next_free, op[t].file))
       \/ /\ next_free = TableSize
          /\ Moves(t, At("full", 0, op[t].file))
          /\ UNCHANGED next_free
    /\ UNCHANGED <<free_head, ftable, f_count>>

\* The locked half of __install_file.  Closed descriptors are used again only
\* after all of the table has been used once.
TakeFd(t) ==
    /\ op[t].at = "install"
    /\ \/ /\ next_free # TableSize
          /\ next_free' = next_free + 1
          /\ Moves(t, At("store", next_free, op[t].file))
          /\ UNCHANGED free_head
       \/ /\ next_free = TableSize /\ free_head # 0
          /\ free_head' = ftable[free_head]
          /\ Moves(t, At("store", free_head, op[t].file))
          /\ UNCHANGED next_free
       \/ /\ next_free = TableSize /\ free_head = 0
          /\ Moves(t, At("full", 0, op[t].file))
          /\ UNCHANGED <<next_free, free_head>>
    /\ UNCHANGED <<ftable, f_count>>

\* The other half, after spin_unlock; open returns the descriptor.
StoreFile(t) ==
    /\ op[t].at = "store"
    /\ ftable' = [ftable EXCEPT ![op[t].fd] = op[t].file]
    /\ Moves(t, Idle)
    /\ UNCHANGED <<next_free, free_head, f_count>>

\* Mutant: the file is not given back.
OpenFailsKeeps(t) ==
    /\ op[t].at = "full"
    /\ Moves(t, Idle)
    /\ UNCHANGED <<ftable, next_free, free_head, f_count>>

\* open gives the file back and returns -EMFILE.
OpenFails(t) ==
    /\ op[t].at = "full"
    /\ Refs(op[t].file, -1)
    /\ Moves(t, Idle)
    /\ UNCHANGED <<ftable, next_free, free_head>>

-----------------------------------------------------------------------------
(***************************************************************************)
(* close                                                                   *)
(***************************************************************************)

\* Berkeley DB closes the descriptor of a handle when no task does I/O on it:
\* a handle is closed by its last user.  An fsync that another task has
\* started (__log_flush_int lets go of the log while it syncs) may go on.
Quiet(fd) == \A u \in Task : op[u].fd = fd => op[u].at # "light"

\* Mutant: the file stays in its slot, where the link should be.
UninstallKeeps(t, fd) ==
    /\ op[t] = Idle /\ Quiet(fd)
    /\ Get(fd) # NoFile
    /\ free_head' = fd
    /\ Moves(t, At("close", fd, Get(fd)))
    /\ UNCHANGED <<ftable, next_free, f_count>>

\* __uninstall_file: lookup and unlinking under one lock.  A descriptor that
\* is not open is refused (EBADF), whichever list it is on.
Uninstall(t, fd) ==
    /\ op[t] = Idle /\ Quiet(fd)
    /\ Get(fd) # NoFile
    /\ ftable' = [ftable EXCEPT ![fd] = free_head]
    /\ free_head' = fd
    /\ Moves(t, At("close", fd, Get(fd)))
    /\ UNCHANGED <<next_free, f_count>>

\* filp_close.
FilpClose(t) ==
    /\ op[t].at = "close"
    /\ Refs(op[t].file, -1)
    /\ Moves(t, Idle)
    /\ UNCHANGED <<ftable, next_free, free_head>>

-----------------------------------------------------------------------------
(***************************************************************************)
(* read, write, pread, pwrite, fstat, fcntl and lseek look up with         *)
(* __fget_light; fsync and fdatasync, and __fget_light when files are      *)
(* shared, with __fget.                                                    *)
(***************************************************************************)

\* __fget_light of a task whose files are its own.
Borrow(t, fd) ==
    /\ t \in Lone
    /\ op[t] = Idle
    /\ Get(fd) # NoFile
    /\ Moves(t, At("light", fd, Get(fd)))
    /\ UNCHANGED <<ftable, next_free, free_head, f_count>>

\* A call of __fget, on a descriptor that was given out at some time.
Fget(t, fd) ==
    /\ op[t] = Idle
    /\ fd < next_free
    /\ Moves(t, At("fget", fd, NoFile))
    /\ UNCHANGED <<ftable, next_free, free_head, f_count>>

\* Its read of the table; NULL ends the call with EBADF or EINVAL.
FgetRead(t) ==
    LET f == Get(op[t].fd) IN
    /\ op[t].at = "fget"
    /\ Moves(t, IF f = NoFile THEN Idle ELSE At("get", op[t].fd, f))
    /\ UNCHANGED <<ftable, next_free, free_head, f_count>>

\* Mutant: the file is used without a reference.
FgetRefUncounted(t) ==
    /\ op[t].at = "get"
    /\ Moves(t, IF f_count[op[t].file] = 0 THEN At("fget", op[t].fd, NoFile)
                                           ELSE At("use", op[t].fd, op[t].file))
    /\ UNCHANGED <<ftable, next_free, free_head, f_count>>

\* get_file_rcu takes a reference unless the count is zero already; then the
\* table is read again.
FgetRef(t) ==
    /\ op[t].at = "get"
    /\ IF f_count[op[t].file] = 0
       THEN /\ Moves(t, At("fget", op[t].fd, NoFile))
            /\ UNCHANGED f_count
       ELSE /\ Moves(t, At("use", op[t].fd, op[t].file))
            /\ Refs(op[t].file, 1)
    /\ UNCHANGED <<ftable, next_free, free_head>>

\* Mutant: a borrowed file is put like one with a reference.
FdputAlways(t) ==
    /\ op[t].at \in {"use", "light"}
    /\ Refs(op[t].file, -1)
    /\ Moves(t, Idle)
    /\ UNCHANGED <<ftable, next_free, free_head>>

\* fdput and fput: a borrowed file has no reference to drop.
Fdput(t) ==
    /\ op[t].at \in {"use", "light"}
    /\ IF op[t].at = "use" THEN Refs(op[t].file, -1) ELSE UNCHANGED f_count
    /\ Moves(t, Idle)
    /\ UNCHANGED <<ftable, next_free, free_head>>

-----------------------------------------------------------------------------
Step(t) ==
    \/ FilpOpen(t) \/ TakeFd(t) \/ StoreFile(t) \/ OpenFails(t)
    \/ FilpClose(t) \/ FgetRead(t) \/ FgetRef(t) \/ Fdput(t)
    \/ \E fd \in Fd : Uninstall(t, fd) \/ Borrow(t, fd) \/ Fget(t, fd)

Next == \E t \in Task : Step(t)

Spec == Init /\ [][Next]_vars

-----------------------------------------------------------------------------
TypeOK ==
    /\ ftable    \in [Fd -> File \cup Link]
    /\ next_free \in FirstFd .. TableSize
    /\ free_head \in Link
    /\ f_count   \in [File -> Nat]
    /\ op        \in [Task -> Op]

\* The tasks that own a file outside the table: they have opened it and not
\* stored it, or have taken it out and not dropped it.
Owner(t) == op[t].at \in {"install", "store", "full", "close"}

\* A file is in one place only: in one slot, or with one task.  No open ever
\* writes over another's slot, although it stores without the lock.
OneSlot ==
    /\ \A fd, gd \in Fd :
          ftable[fd] \in File /\ ftable[gd] = ftable[fd] => gd = fd
    /\ \A t \in Task, fd \in Fd :
          Owner(t) => op[t].file \in File /\ ftable[fd] # op[t].file
    /\ \A t, u \in Task :
          Owner(t) /\ Owner(u) /\ op[t].file = op[u].file => t = u
    /\ \A t \in Task : op[t].at = "store" =>
          /\ op[t].fd \in Fd /\ op[t].fd < next_free
          /\ ftable[op[t].fd] \notin File
          /\ \A u \in Task : op[u].at = "store" /\ op[u].fd = op[t].fd => u = t

\* The references to a file are the table's (or its owner's) and those that
\* lookups hold.
Placed(f)  == \/ \E fd \in Fd : ftable[fd] = f
              \/ \E t \in Task : Owner(t) /\ op[t].file = f
Users(f)   == {t \in Task : op[t].at = "use" /\ op[t].file = f}
RefsExact ==
    \A f \in File :
        f_count[f] = Cardinality(Users(f)) + (IF Placed(f) THEN 1 ELSE 0)

\* No task uses a file that is gone, whether it took a reference to it or
\* only borrowed it.
UsedFilesLive ==
    \A t \in Task : op[t].at \in {"use", "light"} => f_count[op[t].file] > 0

\* The descriptors that were given out and are back.
Closed ==
    {fd \in Fd : /\ fd < next_free
                 /\ ftable[fd] \notin File
                 /\ \A t \in Task : ~(op[t].at = "store" /\ op[t].fd = fd)}

\* The list threaded through the table, s, is complete.
IsFreeList(s, n) ==
    /\ \A i, j \in 1 .. n : s[i] = s[j] => i = j
    /\ \A fd \in Fd : fd \in Closed <=> \E i \in 1 .. n : s[i] = fd
    /\ free_head = IF n = 0 THEN 0 ELSE s[1]
    /\ \A i \in 1 .. n : ftable[s[i]] = IF i = n THEN 0 ELSE s[i + 1]

\* No descriptor is lost and none is given out twice: the list from free_head
\* holds every closed descriptor once and ends.
FreeListExact ==
    \E n \in 0 .. TableSize : \E s \in [1 .. n -> Fd] : IsFreeList(s, n)

\* open fails with EMFILE only when every descriptor is open or about to be.
FullMeansFull ==
    [][\A t \in Task : op'[t].at = "full" /\ op[t].at # "full" =>
          \A fd \in Fd : fd < next_free /\ fd \notin Closed]_vars
=============================================================================
