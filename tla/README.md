# Verification of gbfs

gbfs (`README.md`: "A dictionary based file system back end") is a Linux 4.9
file system that keeps its inodes and its pages as records of one Berkeley DB
btree. The repository holds the file system (`fs/`), a port of Berkeley DB into
a kernel module (`db/build_kernel/`) and Berkeley DB itself (`db/`, vendored).
This directory holds TLA+ models of the file system, what TLC checks of them,
and what TLAPS proves.

## 1. The system

### Components

| component | state | operations | modelled in |
|---|---|---|---|
| directory format (`fs/dir.c`) | the 64-byte slots of each directory, below `i_size`; `ctx->pos` of a reader | find, add, delete, relink, make empty, is empty, `..`, readdir | `GbfsDir`, `GbfsReaddir` |
| namespace operations (`fs/namei.c`) | slots, link counts, the counter of inode numbers; the VFS's dentries and open files around it | lookup, create/mknod/symlink, tmpfile, link, mkdir, unlink, rmdir, rename | `GbfsNamei` |
| persistence (`fs/inode.c`, `bitmap.c`, `file.c`) | the database's records; the inode cache and page cache in front of it | read/write inode, read/write page, setattr, fsync, evict, free, unmount, mount | `GbfsStore` (partly) |
| mount and unmount (`fs/inode.c`) | super-block data, DB and environment handles | fill_super, `__kdb_open`, `__kdb_close`, put_super, remount | not modelled (they succeed in `GbfsStore`) |
| pthread shim (`libk.c`) | kernel wait queues and mutexes | cond wait/timedwait/signal/broadcast, mutex lock/unlock | `HybridMutex` (partly) |
| system-call layer (`syscalls.c`) | a table of 1024 open files with a free list | open, close, read, write, lseek, fsync, rename, locks | `FdTable` (partly) |
| kbdb module (`kbdb_mod.c`) | none | registers and exports | not modelled |
| Berkeley DB mutexes (`db/src/mutex`) | the test-and-set word, flags, share count and waiters of each mutex | lock, trylock, readlock, unlock | `HybridMutex` (partly) |
| Berkeley DB log (`db/src/log/log_put.c`) | buffer, current file, LSNs, waiting commits | log_put, log_flush, new file, forced abort | `DbLog` (partly) |
| Berkeley DB locks (`db/src/lock`) | holders and waiters of each object, locks of each locker, the detector's map | get, put, put all, downgrade, detect | `DbLock` (partly) |
| rest of Berkeley DB (`db/src`) | the btree, cache, handles | get, put, transactions | external: a map from keys to records |

### How they interact

The VFS calls `namei.c` with the directory's `i_mutex` held; `namei.c` searches
and changes directories through `dir.c`, which works on the page cache;
`inode.c` moves pages and raw inodes between the caches and the database with
`DB->get` and `DB->put`, each a transaction of its own; Berkeley DB runs on the
pthread shim and the system calls of `build_kernel`, which call back into the
VFS of the file system that holds the database file (`/media/x/mydb.db`).

### What is hard about it

- *Caches in front of directories.* Whether a name can be created is decided by
  a dentry that a lookup left behind earlier, not by the search that adds the
  entry: `gbfs_add_link` stops at the first free slot (`dir.c:233`).
- *Lifetimes.* An inode is freed by its last reference, not by its last name;
  names, open files and dentries go in any order (`inode.c:41`).
- *Operations of many parts.* A rename touches three directories, four link
  counts and the dentry cache (`namei.c:187-257`).
- *Pages that cannot be read.* Each loop of `dir.c` treats them differently:
  search, readdir and the emptiness check skip them, adding stops with `-EIO`.
- *Commits that fail* on a dirsync mount, after the page has been changed.
- *Persistence.* Pages and inodes are written back one record at a time, in any
  order; there is no recovery and the inode counter starts afresh.
- *Concurrency below the database.* One file table for all tasks, read without
  the lock that protects it (`syscalls.c:395`, `:437`); mutexes made of a word to
  spin on, a counter and a wait queue (`mut_pthread.c:763`).
- *Group commit.* The log is synced without its lock; commits that come meanwhile
  wait for a flush that one of them makes for all; writes and syncs fail
  (`log_put.c:536-619`, `:964-1192`).
- *Deadlock detection on a map that ages.* The detector looks at one object at a
  time and acts after it has let go of all of them (`lock_deadlock.c:574`, `:909`).

## 2. The modules

| module | models | uses |
|---|---|---|
| `GbfsDir` | the slot sequence of one directory and the operations of `dir.c` as operators | - |
| `GbfsNamei` | the state machine of a mounted file system's namespace | extends `GbfsDir` |
| `FileTree` | what a file system promises: a tree of names, changed atomically | - |
| `GbfsNameiProps` | the namespace's properties, and the refinement mapping to `FileTree` | extends `GbfsNamei`, instantiates `FileTree` |
| `GbfsReaddir` | one reader of a directory that others change, and its properties | extends `GbfsDir` |
| `GbfsStore` | inodes and pages in memory and in the database | - |
| `GbfsStoreProps` | the properties of persistence | extends `GbfsStore` |
| `FdTable` | the descriptor table under Berkeley DB, and its properties | - |
| `HybridMutex` | one Berkeley DB mutex on the pthread shim, and its properties | - |
| `DbLog` | log records, buffer, files, flushes and their failures, and its properties | - |
| `DbLock` | lock queues and the deadlock detector, and its properties | - |
| `MCGbfsNamei`, `MCGbfsReaddir`, `MCGbfsStore`, `MCFdTable`, `MCHybridMutex`, `MCDbLog`, `MCDbLock` | values of the constants for TLC | extend the modules above |
| `MCGbfsNameiDirsync` | commits that fail, a bounded number of times | extends `MCGbfsNamei` |
| `GbfsDirTheorems` | lemmas about the operators of `GbfsDir` | extends `GbfsDir` |
| `GbfsNameiTheorems` | theorems about `GbfsNamei`: types and the link limit, directories and dentries, then exact link counts, the shape of the tree and the refinement of `FileTree` | extends `GbfsNameiProps`, `GbfsDirTheorems` |
| `GbfsReaddirTheorems` | theorems about `GbfsReaddir` | extends `GbfsReaddir`, `GbfsDirTheorems` |
| `GbfsStoreTheorems` | theorems about `GbfsStore` | extends `GbfsStoreProps` |
| `FdTableTheorems`, `HybridMutexTheorems`, `DbLockTheorems`, `DbLogTheorems` | theorems about those modules | extend them |

The layers meet in what each takes from the one below: `GbfsNamei` takes inodes
from `GbfsStore`'s `Iget` and `Free`; `GbfsStore`'s `DB->put` is a transaction that
takes locks as in `DbLock` and commits as in `DbLog`; every mutex those two hold is
a `HybridMutex`, and every log file a descriptor of `FdTable`. They are checked
apart: no property relates the state of two layers.

### The namespace: state

`dirent[d]` is the sequence of slots below `i_size`; a slot is
`[ino, name]` and is free when `ino = 0`, as in `struct gbfs_dir_entry`.
`PageSlots` (64 in the code: `PAGE_SIZE / s_dirsize`) says where pages end, which
only matters when a page cannot be read. `mode` and `nlink` are the inode
fields; `nlink` is unsigned, and dropping a link of a count of zero wraps it at
`LinkMod` (`Dropped`; 2^16, the width of `i_nlinks` in the record). `nextino` is the static counter of `gbfs_new_inode`. `dentry`, `parent`,
`held`, `linkable` and `dead` are the VFS's: cached names, `d_parent`, open
files, `I_LINKABLE` and `S_DEAD`. They belong to the model because the code's
correctness rests on them.

### The namespace: actions

One operation is one step: the VFS holds `i_mutex` on every directory the
operation changes, and no other code changes a directory. `bad`, the pages that
cannot be read, and `err`, a commit that fails, are chosen per operation.

| action | code |
|---|---|
| `Lookup` | `gbfs_lookup`, `gbfs_inode_by_name`, `gbfs_iget` |
| `Create` | `gbfs_create`, `gbfs_mknod`, `gbfs_symlink`, `add_nondir`, `gbfs_new_inode` |
| `CreateAborts` | the failure paths before a name is added: `page_symlink`, `gbfs_make_empty` |
| `Tmpfile`, `Link`, `Mkdir`, `Unlink`, `Rmdir` | the handlers of those names, with their failures after a changed slot |
| `RenameNew`, `RenameOver` | `gbfs_rename` without and with a target |
| `Evict` | `gbfs_evict_inode`, `gbfs_free_inode` |
| `DropDentry`, `Open`, `Close` | the VFS (external) |

The VFS's checks that gbfs relies on are guards: `may_create` and `may_delete`
(`CanCreate`, `CanDelete`), `lock_rename`'s refusal to move a directory below
itself (`Ancestors`), and `s_max_links` (`LinkRoom`).

### Reading a directory

`GbfsReaddir` holds one directory `es` and one open file's `ctx->pos`, counted in
slots. `Getdents` is one call of `gbfs_readdir`: it looks at the slots from
`pos` on, skips the pages it cannot read, stops at the first entry `dir_emit`
has no room for (`room`, the entries the user's buffer takes), and moves `pos`
by the slots it has passed - not by those it has skipped, as in the code.
`Add` and `Remove` are `gbfs_add_link` and `gbfs_delete_entry` between two calls;
`Rewind` is a seek to 0. `given`, `kept` and `whole` are the reader's: how often
a slot was returned since it last changed, which slots have been in use and
unchanged since the scan began, and whether no page has been skipped.

### Persistence

| variable of `GbfsStore` | code |
|---|---|
| `rec[i]`, `stored[i][p]` | the records under `GBFS_DB_INODE` and `GBFS_DB_PAGE` keys; one that is absent reads as zeroes, as in `gbfs_raw_inode` and `gbfs_readpage` |
| `inode[i]`, `page[i][p]` | the inode cache and the page cache |
| `dirty`, `pdirty` | `I_DIRTY` inodes and dirty pages |
| `names[i]`, `held` | how many names an inode has (`GbfsNamei` says which) and which are open |
| `mounted`, `nextino` | the super block, and `gbfs_new_inode`'s counter |

`Iget`, `Create`, `Read`, `WritePage`, `WriteInode`, `Setattr`, `Free` are
`gbfs_iget`, `gbfs_new_inode`, `gbfs_readpage`, `gbfs_writepage`,
`gbfs_write_inode`, `gbfs_setattr` and the deleting half of `gbfs_evict_inode`;
`Unmount` and `Mount` stand for `gbfs_put_super` and `gbfs_fill_super` when they
succeed. `Write`, `Fsync`, `Reclaim`, `Evict`, `Open`, `Close` are the kernel's
own functions that `gbfs_aops` and `gbfs_file_operations` name. A page is divided
into `PageBlocks` blocks, the parts a write or a new size can tell apart. Each
`DB->put` is a step: the flusher may run between any two others.

### The descriptor table

`ftable`, `next_free` and `free_head` are those of `syscalls.c`; a slot holds a file or
the number of the next free slot. `f_count` is the kernel's count of each struct
file, and `op[t]` what a task has read and not yet used. The steps are cut where
the code lets go of `ftable_lock` or never had it.

| action | code |
|---|---|
| `FilpOpen`, `TakeFd`, `StoreFile`, `OpenFails` | `open`: `filp_open`, the locked and the unlocked half of `__install_file`, `-EMFILE` |
| `Uninstall`, `FilpClose` | `close` |
| `Fget`, `FgetRead`, `FgetRef` | `__fget`: the read under RCU, and the reference that may come too late |
| `Borrow` | `__fget_light` of a task whose files are its own: no reference |
| `Fdput` | `fput`, `fdput` after the call |

`Quiet` is Berkeley DB's side: a handle is closed when nobody reads or writes
through it. Without it `Borrow` would use files that are gone.

### The mutex

`tas`, `locked`, `sharecount` and `wait` are fields of `DB_MUTEX`; `kmutex` and `queue` are
the kernel mutex and the wait queue that `libk.c` puts in place of the pthread
mutex and condition variable. `kind` chooses the use: a plain mutex, a latch
(`DB_MUTEX_SHARED`), or a self-blocking mutex, which a task locks to wait for
another to unlock it. Each access to shared memory is a step. `Call` to `Yield` are
the spinning half (`mut_tas.c`), `Prep` to `Leave` the suspend
(`mut_pthread.c:756-796`, `libk.c:185-200`), `Unshare` to `Unwake` the unlock. `Kill` is a
fatal signal, which `TASK_KILLABLE` lets through.

### The log

A record is two units, header and body, in files of `LogSize` units; what has not
been written is in `bufp`. `lsn`, `f_lsn`, `w_off`, `s_lsn`, `t_lsn`, `in_flush` and `commits`
are the fields of `LOG` of these names. `file` is what a read of the log files
gives, `disk` what is left of them after a crash: the difference is the fsync. `op`
is the stack of each task, `told` the commits that `log_put` has reported as done.
`region` and `mtx_flush` are the two locks.

`CallPut`, `NewFile`, `AdvanceFile`, `PutRecord` are `log_put` up to the record's being in
the buffer (`Fill`) or not (`FillFails`); `FlushInt` to `Relock` are `__log_flush_int`;
`TellsDone` and `ForceAbort` are `__log_flush_commit`. A write that fails has written
any prefix of its data; an fsync that fails has made nothing durable and may
succeed later.

### Locks

`lock[i]` is a `__db_lock`, `holders[o]` and `waiters[o]` the two queues of an object,
`heldby[l]` the list of a locker, latest first. `woken[l]` is the mutex the locker
sleeps on: unlocked, and not yet noticed. A step happens under one object's
mutex. `Grant`, `GetAgain` and `Enqueue` are `__lock_get_internal` up to the sleep and
`Wake` what follows it; `Put`, `PutReference`, `PutAll`, `Downgrade` go through
`Promote` (`__lock_promote`). The detector is `DetectStart`, then one `BuildObject` for
each object on `dd_objs`, `BuildEnd` with the search of the map (`__dd_find`,
`__dd_verify`), then `Abort` or `AlreadyAborted` for each victim. `row` is the bit map,
`changed` stands for the comparison of generations.

## 3. What is checked

### Runs

| run | instance | states | shows |
|---|---|---|---|
| `namei` | names a, b; inodes 1, 5, 6; 2 slots per page; 1 open file; `LinkMax` 4 | 39 thousand | types, unique names, exact link counts, `..` leads to the root, dentries tell the truth, and every operation is a step of `FileTree` |
| `dirsync` | the same, `LinkMax` 3, no open file, two commits fail | 135 thousand | link counts are never further from the names than commits have failed, and removed directories are empty |
| `readdir` | names a, b, c; up to 5 slots; buffers for 1 and 3 entries; one page may fail | 38 thousand | a scan returns what stays exactly once, and ends |
| `store` | one inode number, 2 names, 2 pages of 2 blocks | 138 thousand | link counts, sizes and contents survive any order of write-back, eviction, unmount and mount, but for what gbfs leaves unwritten; deleted inodes stay deleted |
| `fdtable` | 3 tasks, one of them with files of its own; 4 files; 3 descriptors | 61 thousand | no descriptor lost or given out twice, counts exact, files in use alive |
| `mutex` | 3 tasks, each with its own calls; one may be killed; all three kinds | 75 thousand | exclusion, no lost wake-up, sleepers are woken |
| `log` | 3 tasks, one puts updates and writes pages; 2 files of 3 records, a buffer of 1 1/2; one failure | 182 thousand | no record lost, `s_lsn` tells the truth, all waiting commits come back |
| `lock` | 3 lockers, 2 objects, at most 2 locks each; one takes locks again, downgrades and releases early | 202 thousand | holders compatible, grants and wake-ups exact, every deadlock broken |
| `rmdir_fault` | a page of the new directory fails | violation | `gbfs_empty_dir` takes an unreadable page for an empty one |
| `store_write` | as `store` | violation | a partial write of a page not in memory zeroes the rest of it |
| `log_commit` | as `log` | violation | the first commit in a file is reported as done although its write or sync has failed |
| `log_abort` | as `log` | violation | a commit that was to be turned into an abort gets to disk |

The violations are disagreements between the code and its own comments;
`PROJECT.json` quotes each one.

### Bounds, and why they are enough

- *Two names and three inodes* let a rename go within a directory and between
  two, onto a free name and onto a used one, let a directory be moved into
  another, a file have two names, and an inode be deleted while it is open or
  cached. With `LinkMax` 4 the limit is met by the root and by a file with
  links; `dirsync` uses 3 so that it is met earlier. Counts wrap at `LinkMod` 8:
  past `LinkMax` on one side there is room for the counts that have gone below
  zero on the other, as with 65530 and 2^16 in the code (`LinkMod > LinkMax + 2`).
- *Two failing commits* (`dirsync`) let a count go wrong twice: a slot is left
  without a link and is looked up and unlinked, which wraps the count of a freed
  inode, and another failure meets the directory in that state.
- *Two slots per page* put a new directory's first entry into its second page:
  every loop crosses a page boundary. The code has 64; only where the pages end
  depends on it.
- *Inode numbers are not reused*, so `MaxIno` bounds the files ever made in a
  run, not those that exist at once.
- *Three names in five slots* (`readdir`) let the directory have a free slot
  before and behind the reader, and grow by a page.
- *One inode number in `store`* is enough because no action relates two inodes.
- *Two pages of two blocks* give `setattr` and writes sizes at and inside the ends
  of pages; `setattr` sets any of them.
- The two names are interchangeable, so `namei` and `dirsync` declare symmetry;
  neither checks liveness.
- *Three descriptors and four files* (`fdtable`) let the table be full, a descriptor
  be on the free list behind another, and a fourth open fail; three tasks let one
  open, one close and one look up the same slot. `TableSize` is 1024 in the code.
- *Three tasks* (`mutex`): one inside, one on its way to sleep, and one that tries
  or reads, or a holder and two sleepers.
- *Buffers of three units and records of two* (`log`) make every second record
  cross the end of the buffer; files of three records make the log go on in a new
  file with a commit under way and one waiting. One failure (`MaxFaults`) already
  violates the two comments; the others hold with it.
- *Three lockers and two objects* (`lock`) give deadlocks of two lockers (2 and 3,
  who take the objects in opposite orders) and of all three; a detector
  that acts while another runs; and a victim that has been granted meanwhile. Only
  locker 1 takes locks again and releases single ones (`Early`, `MaxRef`).
- `log_commit` and `log_abort` treat the tasks that only commit as interchangeable.
- `namei` and `dirsync` stop when the inode numbers are used up and nothing is
  left to do; the other passing runs are also free of deadlock.

### Properties

`NamesUnique` and `DcacheCoherent` depend on each other: a name is added without
a full search because a negative dentry says it is absent, and the dentry stays
true only while names are unique. `LinkCountExact` relates every link count to
all slots of all live directories; `DotDotLeadsToRoot` the `..` slots to the
entries above. `ImplementsTree` is the abstract specification `FileTree` as a
property: the mapping reads the tree off the slots with `InodeByName`, and an
object disappears only when neither a name nor an open file is left.
`LinkCountWithin` is what remains of `LinkCountExact` when commits fail: a count that
has wrapped below zero counts as the negative number it stands for.
`LinksKept`, `DeletedCleared` and `DataKept` say the same of a file whichever
cache or record it is read from. `DataKept` compares the size and every block, and
makes two exceptions, kept in the history variables of `GbfsStoreProps` (which
constrain no step): `lag`, the inodes whose size `simple_write_end` has moved
without marking them dirty (`inode.c:374`), and `cut`, the blocks that
`truncate_setsize` has zeroed in a clean page without marking it dirty
(`file.c:40`). Either ends when the inode or the page is marked dirty or leaves
memory. Everything else must survive, and these two hazards are what the code does.

`FreeListExact` and `RefsExact` relate the table to what every task has in hand.
`NoLostWakeup` binds the test-and-set word to the wait queue. `SyncedOnDisk` and
`FlushedOnDisk` relate what the log promises to what is on disk, unit by unit;
`WaitersHaveFlush` and `InFlushExact` say that nobody is left waiting after a flush
that has failed. `NoMissedGrant` and `HoldersCompatible` are the two sides of
granting: not too late and not too early; `WokenExactly` is what makes the status
checks after a wake-up safe.

### Fairness

- `ScanEnds`: weak fairness of `Getdents`, a reader that keeps calling `getdents`
  until it returns nothing. That is the loop every reader of a directory runs;
  nothing is assumed of those who add and remove entries. A directory's growth is
  bounded by `MaxSlots` in the model; without a bound, a writer who keeps appending
  could keep the reader busy for ever, in the code too.
- `SleepersWake`: weak fairness of every task's steps inside lock and unlock (the
  scheduler runs what can run, and who has a mutex lets it go), and strong
  fairness of taking the kernel mutex, which queues its waiters. No task has to
  make a call. `SleepersWake` says no more than that a sleeper is woken once the
  mutex is free: a task may then lose it to a faster one, and a writer of a latch
  may starve while readers come and go, in the code too.
- `CallsReturn`: weak fairness of every step of a call, strong fairness where it
  waits for the region lock or the flush mutex, since others may take those again
  and again.
- `RequestsEnd`: weak fairness of waking up and of the detector, strong fairness
  of `PutAll`: a transaction commits or aborts in the end. With
  `Detect = TRUE` a locker that holds locks and has to wait runs the detector; gbfs
  itself never sets `lk_detect` (hazard at `inode.c:135`).

## 4. What is proved

All theorems hold for every value of the constants that the named assumptions
allow; TLC evaluates those assumptions in every run.

| theorem | module | under | says |
|---|---|---|---|
| `TypeCorrect` | `GbfsNameiTheorems` | any faults | `[]TypeOK` |
| `RemovedEmpty` | `GbfsNameiTheorems` | pages can be read; commits may fail | `[]DeadDirEmpty` |
| `UniqueNames`, `DentriesTrue` | `GbfsNameiTheorems` | pages can be read, commits succeed | `[]NamesUnique`, `[]DcacheCoherent` |
| `LinksExact`, `LinkLimit`, `LeadsToRoot`, `TreeImplemented` | `GbfsNameiTheorems` | pages can be read, commits succeed | `[]LinkCountExact`, `[]LinkCountBounded`, `[]DotDotLeadsToRoot`, `ImplementsTree` |
| `ReaddirTypeCorrect`, `NothingTwice`, `NothingMissed` | `GbfsReaddirTheorems` | any page faults | `[]TypeOK`, `[]GivenOnce`, `[]ScanComplete` |
| `StoreTypeCorrect`, `StoreKeepsLinks`, `StoreClearsDeleted` | `GbfsStoreTheorems` | gets and puts succeed | `[]TypeOK`, `[]LinksKept`, `[]DeletedCleared` |
| `StoreKeepsData` | `GbfsStoreTheorems` | gets and puts succeed | `DataKept`, of `HistSpec` |
| `FdTypes`, `OneSlotEach`, `CountsExact`, `ListExact`, `UsedLive`, `FullIsFull` | `FdTableTheorems` | - | `[]TypeOK`, `[]OneSlot`, `[]RefsExact`, `[]FreeListExact`, `[]UsedFilesLive`, `FullMeansFull` |
| `MutexTypes`, `Exclusion`, `WakeupsKept` | `HybridMutexTheorems` | - | `[]TypeOK`, `[]MutualExclusion`, `[]NoLostWakeup` |
| `NoConflictGranted`, `GrantedWhenPossible`, `WokenWhenSettled`, `ListOfContested`, `LockTyped` | `DbLockTheorems` | - | `[]HoldersCompatible`, `[]NoMissedGrant`, `[]WokenExactly`, `[]DdObjsExact`, `[]TypeOK` |
| `LogTyped`, `LogStaysIntact`, `SyncedStaysOnDisk`, `FlushedIsOnDisk`, `FlushesCounted`, `WaitersWoken`, `SyncPointMovesForward` | `DbLogTheorems` | - | `[]TypeOK`, `[]LogIntact`, `[]SyncedOnDisk`, `[]FlushedOnDisk`, `[]InFlushExact`, `[]WaitersHaveFlush`, `SyncPointForward` |

The assumptions `ReadFaults = {{}}`, `CommitFaults = {0}` and `DbErrors = {0}` are
needed: `rmdir_fault` is a counterexample without the first; a directory page that
cannot be read also makes a lookup cache a name as absent, and a record that
cannot be read or put leaves a deleted inode with its mode and links; a page whose
put fails is lost when it is reclaimed. `LinkLimit` needs that commits succeed:
after one that fails a count of zero may be dropped, and the wrapped value is past
every limit. What holds then is `LinkCountWithin`, which TLC checks (`dirsync`).

`LogAssumption` (`BufSize > RecLen`) excludes records that do not fit into the buffer,
and with them two pieces of code: `__log_fill`'s direct write of whole buffers
(`log_put.c:1233-1241`) and the branch of `__log_putr` that reads the first buffer
back after a failure (`log_put.c:871-882`; its comparison is meant for more than one
buffer written, and nothing is read back when it was exactly one). "However
many writes fail" in the theorems about the log is said of shorter records. gbfs
does not set a buffer size and gets the default of 32000 bytes.

**Directories** (`GbfsDirTheorems`). What a search returns, which slot
`gbfs_add_link` takes, and how filling or relinking a slot changes what later
searches find: only the answer for that one name.

**Names and dentries** (`GbfsNameiTheorems`). The inductive invariant `NameInv`
says of every directory, dead ones and files included, that its slots and
cached dentries are `Coherent`: no name twice, every dentry is what a search
would find, and no name is bound to the root (so a rename never rewrites the
slots of the root as if they began with `.` and `..`). It adds what the code
takes for granted elsewhere: the second slot of a directory is `..`, which
`gbfs_dotdot` takes unseen, so that rewriting it cannot change a name; and inode
numbers not handed out yet have no slots, so that a new directory starts
without any. The lemmas `Coherent...` show this of one directory and its
dentries, `View...` lift them to all directories, and there is one lemma
`Name...` for each kind of action. Renames are composed: adding or relinking the
new name, then freeing the old one, then `..`.

**Removed directories.** `DeadDirEmpty` is inductive given `TypeOK`: a dead
directory is no longer changed until it is evicted, and what `gbfs_empty_dir` has
accepted has no names.

**Link counts, the tree, and the file tree it implements.** Neither `LinkCountExact`
nor `DotDotLeadsToRoot` is inductive: that a removed directory takes just two
slots with it needs that `.` and `..` are where the code writes them, and that
`rmdir` decrements the right parent needs that the entry found is the one `..` tells
of. The inductive invariant, on top of `NameInv`, is `TreeInv` with the counts:
`Tidy` (only directories are dead, only live ones have cached dentries, what is
nothing has no links, the root holds names only), `Dots` (`.` and `..` lead where
the VFS is when it has walked there) and `Shaped` (every directory in use has one
name, in its parent; nothing in use has the name of a removed one; the parents
lead to the root, stated as: every set closed under `parent` that holds a
directory holds the root). The proof has four layers. The lemmas `Count...` say how
the number of slots that refer to an inode changes when one slot is written, or a
directory with `.` and `..` comes or goes; `Sound...` lift that to all directories with
their counts, one lemma for each thing an operation does (bind, relink or free a name,
rewrite `..`, make or remove a directory); `Shaped...` do the same for the tree, of
which the rename of a directory is the hard case: the new parent has a set of
ancestors without the moved directory, which is what the VFS has checked. The lemmas
`Step...` give what suffices for a step of `FileTree`, and one lemma `Tree...` per
operation puts the three together. A rename is two changes of names and one of `..`;
`MovesOnce` shows that the abstract tree sees a single move. Counts are unsigned, so
each operation that drops one needs that it is high enough (`NameLinked`, `DropIs`,
and the lemmas `...Drops`): what has a name has a link, and a directory has a
second one of its own `.`. `LinkLimit` follows: every increment is behind the check
against `s_max_links`, and no decrement wraps. TLC agrees that
`NameInv`, `TreeInv` and `LinkCountExact` hold together in the small instance of
`MCGbfsNamei` (38922 states with two inode numbers to hand out). The
two assumptions are needed: after a failed commit a name is in a slot and not in
the count.

**Readdir.** `ScanInv` says of every slot on which side of `pos` it lies, and what
that means for how often it was returned; slots that changed are counted anew.
The positions of a whole scan are exact since `pos` moves by every slot passed.

**Persistence.** `LinkInv` (`CountRight` of every inode) says that memory always
has the right count, and the database unless the inode is marked dirty; this is
what makes eviction, a late write-back and the clearing of a deleted inode
commute. `PageInv` keeps pages only while their inode is cached. `DataKept` needs
`CleanStored` and `SizeStored` besides: a clean page in memory is the one in the
database but for the blocks in `cut`, and a clean inode has the size in the database
unless it is in `lag`, so that giving them up, or reading them again, changes
nothing else. Each background step leaves `FilesKept`; unmounting needs
`LinkInv` for that, since it drops the dirty pages of inodes without links. The
history variables are those of `HistSpec`, whose behaviours are those of `Spec` with
the two variables added: `HistNext` gives each of them a value for every step.

**Descriptors.** `FdInv` is `TypeOK`, `OneSlot`, `RefsExact` and `FreeListExact`
together with what a task's place says of its slot and file (`OpSound`) and that
slots from `next_free` on are empty (`UnusedEmpty`). `OneSlot` needs the free list: the slot an open is about to store
into, without the lock, is neither on the list nor in another's hand.
`FreeListExact` claims that a list exists; the proof gives it for each step:
with a new head after a close, without its head after a reuse.
`RefsExact` counts the lookups in flight with lemmas about adding and removing an
element of a finite set.

**The mutex.** `MutexInv` adds who owns the kernel mutex (`KmutexOwned`), who is on
the queue (`QueueSleeps`), what the counter counts (`WaitExact`: the tasks between
`Count` and `Leave`), what the word says of who is inside (`WordTells`, with the
number of readers), and `WakeComes`: for every sleeper whose mutex is free there is
a releaser that has not yet woken it; since the sleeper is counted, the releaser
will. The last one is inductive because a sleeper looks at the word after it has
counted itself, and the releaser at the counter after the word.

**Locks.** `LockInv` ties the three lists and the status of a lock to one another
(`ListsTell`), says that only the latest lock of a locker may be other than held
(`Latest`), that holders are compatible, that the head of every queue of waiters
is blocked by a holder (`InTheWay`), and what `woken` means (`WokenTells`). All six
are needed together: a grant is compatible because the walk along the holders
has met no conflict; a promotion stops at a waiter that is in somebody's way; and
the detector's victim, however old the map, is still the latest lock of its
locker and still waits. The detector's map itself appears in no part of
`LockInv`: those three theorems do not depend on it.

`DdInv` holds on top of `LockInv` and says what the detector relies on: the list
has exactly the contested objects (`Contested`); the object a walk has come to
still has waiters unless its generation has changed (`OnList`), so that there is a
first waiter to look at; and whoever is to kill has a victim (`KillHas`). The
victims come out of two nested loops over all lockers (`ForEachLocker`); the
lemmas `LoopExists` and `LoopStays` show once, by a least counterexample, that such
a loop has a result and stays within a set that every pass stays within.

**The log** (`DbLogTheorems`). `LogIntact` alone is not inductive: a write puts the
buffer at `w_off`, a flush sets `s_lsn` from values it read before the region lock
was let go. `LogInv` has four parts. `LogWell`: types, who holds the region lock and
the flush mutex (`Locks`), and which calls let the region go and which are woken
(`Shape`). `LogPlaced`: where the next record goes and how `f_lsn`, `w_off` and the
buffer fit together (`Positions`); `s_lsn` lies before what is written and behind
all older files (`SyncPoint`); no two tasks have the same record (`Apart`); what a task
asks for is in the log, and what it syncs is written (`Goal`); and before a switch of
files the log is flushed to its end while nobody else syncs (`Turning`). `LogKept`:
`LogIntact`, what is synced is on disk as reads see it (`DiskIsFile`), and the record
of a commit under way is whole (`CommitsWhole`). `LogWaits`: the list of group commit
has just the tasks that wait unwoken (`Listed`), `InFlushExact` and
`WaitersHaveFlush`. `SyncedOnDisk` follows from `LogIntact`, `DiskIsFile` and `SyncPoint`;
`FlushedOnDisk` from those, `Goal` and `CommitsWhole`. `SyncPointForward` needs `Goal`: what a
task syncs does not lie before the sync point, since the flush mutex keeps the
others out. What the walk down the list of waiters leaves (`NotSynced`, a recursive
function) is shown by a least counterexample as well.

### Only model-checked

- the liveness properties `ScanEnds`, `SleepersWake`, `CallsReturn` and `RequestsEnd`,
  which are out of the prover's reach.

`WriteKeepsRest`, `CommitDurable` and `AbortedStaysOut` are violated by the code, and
so is `DeadDirEmpty` once pages cannot be read.

## 5. What is not modelled

- *Time stamps, owners, permissions, symlink contents, device numbers, statfs,
  mount options*: the properties do not depend on them.
- *Crashes of the file system.* The environment is opened without `DB_RECOVER`, and
  gbfs promises nothing of what a crash leaves; `DbLog` says what it leaves of the
  log. Checkpoints and recovery never run in gbfs.
- *The shared handle.* `DB->get` returns memory of the handle; two readers can
  overwrite each other's record (hazard at `inode.c:343`).
- *Mounting that fails, and loading the module again* (hazards at `inode.c:223`,
  `bitmap.c:100`).
- *Descriptor numbers of the caller's own.* `open` takes one from the caller's `files_struct` with
  `get_unused_fd_flags` (`syscalls.c:1246`) and neither uses nor returns it;
  `FilpOpen` leaves this out (hazard).
- *Path operations and file positions of the system-call layer, Berkeley DB's own
  file handles and its retries* (`os_handle.c`, `os.h`): a close that fails is repeated
  there although the descriptor is closed by then.
- *Time-outs* of mutexes, condition variables and locks: gbfs sets none, and nothing
  calls `pthread_cond_timedwait`, which takes an absolute time for a delay.
- *The lock modes of dirty reads and of CDB, UPGRADE, SWITCH and WAIT requests,
  families of lockers, the other policies of the detector, and aborting a locker
  that is aborting*: gbfs's transactions use read and write locks.
- *Replication, in-memory logs, encryption, the hash, heap and queue access
  methods*: not in the kernel build or not used.
- *The btree, the memory pool and the cursors of Berkeley DB*: vendored; a map from
  keys to records here. The other directories under `db/` (language bindings, SQL,
  tests, examples) are not linked into the file system.
- *Three pairs of steps that are one here.* `__log_flush_int` sets `s_lsn` in two
  stores (`log_put.c:1144-1146`), which `__log_flush` may read between: the value
  between them is `f_lsn` with its own offset, not behind the old sync point and
  before the new one. `__lock_downgrade` writes the new mode before it takes the
  object's mutex (`lock.c:1253-1258`): for an instant `NoMissedGrant` does not
  hold, until the promotion that follows. `__dd_build` ends with a look at the last
  lock of each locker, one object's mutex after the other
  (`lock_deadlock.c:718-783`): `BuildEnd` sees them at once, but what it has seen is
  old when the detector acts, as with the rest of the map, and `__dd_abort` checks again.
- *The VFS* is outside the repository. It is modelled by the checks it makes
  before it calls gbfs and by what its caches may do at any time.

## 6. Plan

1. `GbfsMount`: `gbfs_fill_super`, `__kdb_open` and `gbfs_put_super` with the failure of
   each call.
2. The memory pool's write-ahead rule over `DbLog`: no page goes to disk before its
   record.
