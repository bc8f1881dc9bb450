---------------------------- MODULE GbfsReaddir ----------------------------
(***************************************************************************)
(* Reading a directory: gbfs_readdir of fs/dir.c, called again and again   *)
(* by one reader while others add and remove entries.                      *)
(*                                                                         *)
(* A call holds the directory's i_rwsem shared and is one step; between    *)
(* two calls only ctx->pos remembers where the reader is, here in slots.   *)
(* The model adds what the reader has seen: which slots it has been given, *)
(* and how often, since they last changed.                                 *)
(***************************************************************************)
EXTENDS GbfsDir

CONSTANTS
    Name,           \* the names of entries
    MaxSlots,       \* bound: the slots a directory grows to
    Room,           \* how many entries the reader's buffer may take
    PageFaults      \* the sets of pages that may fail to be read in a call

ASSUME ReaddirAssumption ==
    /\ MaxSlots \in Nat /\ MaxSlots >= 2
    /\ Dot \notin Name /\ DotDot \notin Name
    /\ Room \subseteq Nat \ {0}
    /\ PageFaults \subseteq SUBSET Nat

VARIABLES
    es,         \* the directory's slots
    pos,        \* ctx->pos of the reader's open file
    given,      \* given[k]: how often slot k was returned since it last
                \* changed; 2 stands for more
    kept,       \* the slots in use that have not changed since the scan began
    whole,      \* no page has been skipped since the scan began
    eof         \* the last call returned nothing

vars == <<es, pos, given, kept, whole, eof>>

Self == 1               \* the inode number of the directory, and of its entries
SlotNo == 1 .. MaxSlots
Used(k) == es[k].ino # 0

TypeOK ==
    /\ es    \in Seq([ino : {0, Self}, name : Name \cup {Dot, DotDot}])
    /\ Len(es) \in 2 .. MaxSlots
    /\ pos   \in 0 .. MaxSlots
    /\ given \in [SlotNo -> 0 .. 2]
    /\ kept  \subseteq DOMAIN es
    /\ whole \in BOOLEAN
    /\ eof   \in BOOLEAN

Init ==
    /\ es    = MakeEmpty(Self, Self)
    /\ pos   = 0
    /\ given = [k \in SlotNo |-> 0]
    /\ kept  = {1, 2}
    /\ whole = TRUE
    /\ eof   = FALSE

-----------------------------------------------------------------------------
\* The slots a call starting at p looks at: it skips unreadable pages.
Readable(p, bad) == {k \in p + 1 .. Len(es) : PageOf(k) \notin bad}

Skips(p, bad) == \E k \in p + 1 .. Len(es) : PageOf(k) \in bad

\* Those it gets past: it stops at the first entry dir_emit has no room for.
Passed(p, room, bad) ==
    {k \in Readable(p, bad) :
        Cardinality({j \in Readable(p, bad) : j <= k /\ Used(j)}) <= room}

\* Mutant: ctx->pos moves past entries only.
AdvanceUsed(p, room, bad) ==
    p + Cardinality({k \in Passed(p, room, bad) : Used(k)})

\* Mutant: ctx->pos moves past free slots only.
AdvanceFree(p, room, bad) ==
    p + Cardinality({k \in Passed(p, room, bad) : ~Used(k)})

\* Mutant: the entry that did not fit is passed, too.
AdvanceUnfit(p, room, bad) ==
    p + Cardinality(Passed(p, room, bad))
      + IF Passed(p, room, bad) = Readable(p, bad) THEN 0 ELSE 1

\* ctx->pos after the call.  It moves by the slots passed, wherever they
\* are: a page that was skipped is not counted.
Advance(p, room, bad) == p + Cardinality(Passed(p, room, bad))

Getdents(room, bad) ==
    LET emitted == {k \in Passed(pos, room, bad) : Used(k)} IN
    /\ ~eof
    /\ given' = [k \in SlotNo |->
                    IF k \in emitted /\ given[k] < 2 THEN given[k] + 1 ELSE given[k]]
    /\ pos'   = Advance(pos, room, bad)
    /\ whole' = (whole /\ ~Skips(pos, bad))
    /\ eof'   = (emitted = {})
    /\ UNCHANGED <<es, kept>>

\* rewinddir: generic_file_llseek to 0, once the end was reached.
Rewind ==
    /\ eof
    /\ pos'   = 0
    /\ given' = [k \in SlotNo |-> 0]
    /\ kept'  = {k \in DOMAIN es : Used(k)}
    /\ whole' = TRUE
    /\ eof'   = FALSE
    /\ UNCHANGED es

Changed(k) ==
    /\ given' = [given EXCEPT ![k] = 0]
    /\ kept'  = kept \ {k}
    /\ UNCHANGED <<pos, whole, eof>>

Add(nm) ==
    LET k == AddSlot(es, nm, {}) IN
    /\ FindEntry(es, nm, {}) = 0
    /\ k \in SlotNo
    /\ es' = FillSlot(es, k, nm, Self)
    /\ Changed(k)

Remove(nm) ==
    LET k == FindEntry(es, nm, {}) IN
    /\ k # 0
    /\ es' = DeleteEntry(es, k)
    /\ Changed(k)

Next ==
    \/ \E room \in Room, bad \in PageFaults : Getdents(room, bad)
    \/ Rewind
    \/ \E nm \in Name : Add(nm) \/ Remove(nm)

Spec == Init /\ [][Next]_vars

\* The reader keeps calling until the end.
FairSpec == Spec /\ WF_vars(\E room \in Room, bad \in PageFaults : Getdents(room, bad))

-----------------------------------------------------------------------------
\* No entry is returned twice in a scan that had to skip no page, unless its
\* slot changed in between: ctx->pos never falls back behind what was returned.
GivenOnce == whole => \A k \in SlotNo : given[k] <= 1

\* Such a scan, once it has reached its end, has returned every entry that was
\* there all the time, whatever was added, removed and reused around it.
ScanComplete == whole /\ eof => \A k \in kept : given[k] = 1

\* A scan comes to its end even if pages cannot be read and entries come and
\* go: every call that returns something moves ctx->pos forward.
ScanEnds == []<>eof
=============================================================================
