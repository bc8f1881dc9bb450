--------------------------- MODULE GbfsNameiProps ---------------------------
(***************************************************************************)
(* What the namespace of gbfs must keep, and the file tree it implements.  *)
(***************************************************************************)
EXTENDS GbfsNamei, FiniteSets

\* Slots of live directories that refer to inode i, "." and ".." included.
References(i) ==
    UNION {{<<d, k>> : k \in {j \in DOMAIN dirent[d] : dirent[d][j].ino = i}} :
               d \in {x \in Ino : LiveDir(x)}}

\* No directory holds two live slots with the same name: gbfs_add_link takes
\* the first free slot without looking for the name behind it, so this rests
\* on the dentry the VFS looked up before.
NamesUnique == \A d \in Ino : LiveDir(d) => Unique(dirent[d])

\* The link count of every inode is the number of slots that refer to it.
\* The root starts with two links of its own and has no "." and "..".  With
\* it no slot refers to a freed inode, and no inode is freed while a slot
\* refers to it.
LinkCountExact ==
    \A i \in Ino :
        nlink[i] = Cardinality(References(i)) + (IF i = Root THEN 2 ELSE 0)

\* What the VFS checks against s_max_links before an operation still bounds
\* the counts after it, and none is dropped below zero, which would wrap it
\* past the limit.
LinkCountBounded == \A i \in Ino : nlink[i] <= LinkMax

\* A directory begins with its own number and its parent's, the parent is a
\* live directory that has an entry for it, and every directory leads up to
\* the root: a rename rewrites "..", moves the entry and never cuts off or
\* knots a part of the tree.
DotDotLeadsToRoot ==
    \A d \in Ino \ {Root} : LiveDir(d) =>
        /\ SubSeq(dirent[d], 1, 2) = MakeEmpty(d, dirent[d][2].ino)
        /\ LET p == dirent[d][2].ino
           IN  LiveDir(p) /\ \E k \in DOMAIN dirent[p] : dirent[p][k].ino = d
        /\ Root \in Ancestors(d)

\* A cached dentry tells what the directory holds: a negative one that the
\* name is absent, a positive one the inode of its slot.
DcacheCoherent ==
    \A d \in Ino, nm \in Name :
        LiveDir(d) /\ dentry[d][nm] # NoDentry =>
            dentry[d][nm] = InodeByName(dirent[d], nm, {})

\* A directory that rmdir or rename has removed holds nothing but "." and
\* "..": removing a directory never takes a file with it.
DeadDirEmpty ==
    \A d \in dead : \A k \in DOMAIN dirent[d] :
        dirent[d][k].ino # 0 => dirent[d][k].name \in {Dot, DotDot}

-----------------------------------------------------------------------------
(***************************************************************************)
(* What NamesUnique and DcacheCoherent rest on when no page read and no    *)
(* commit fails.                                                           *)
(***************************************************************************)

\* Slots es and cached dentries ds of a directory agree, no name occurs twice,
\* and none is bound to the root, so that the root is never moved.
Coherent(es, ds) ==
    /\ Unique(es)
    /\ \A nm \in Name : ds[nm] # NoDentry => ds[nm] = InodeByName(es, nm, {})
    /\ \A k \in 1 .. Len(es) : es[k].name \in Name => es[k].ino # Root

\* The slot gbfs_dotdot takes unseen is indeed "..".
Dotted(es) ==
    /\ Len(es) >= 2
    /\ es[1].name = Dot    /\ es[1].ino # 0
    /\ es[2].name = DotDot /\ es[2].ino # 0

\* An inode number not handed out yet has no trace.
FreshUnused ==
    \A i \in Ino : i >= nextino => mode[i] = "none" /\ dirent[i] = << >>

\* The inductive invariant.
NameInv ==
    /\ mode[Root] = "dir"
    /\ \A d \in Ino : Coherent(dirent[d], dentry[d])
    /\ \A d \in Ino \ {Root} : mode[d] = "dir" => Dotted(dirent[d])
    /\ FreshUnused

-----------------------------------------------------------------------------
\* The tree a reader of the directories sees.
TreeOf ==
    [d \in Ino |-> [nm \in Name |->
        IF LiveDir(d) THEN InodeByName(dirent[d], nm, {}) ELSE 0]]

(***************************************************************************)
(* What the link counts and the tree rest on.                              *)
(***************************************************************************)
Live == {d \in Ino : LiveDir(d)}
Dirs == {i \in Ino : mode[i] = "dir"}

\* Only directories are dead and only live ones have cached dentries, an
\* inode that is nothing has no links, and the root holds nothing but names.
Tidy ==
    /\ Root \notin dead /\ dead \subseteq Dirs
    /\ \A i \in Ino : mode[i] = "none" => nlink[i] = 0
    /\ \A d \in Ino \ Live : dentry[d] = NoDentries
    /\ \A k \in 1 .. Len(dirent[Root]) :
           dirent[Root][k].ino # 0 => dirent[Root][k].name \in Name

\* "." and ".." lead where the VFS is when it has walked there.
Dots ==
    \A d \in Live \ {Root} : dirent[d][1].ino = d /\ dirent[d][2].ino = parent[d]

\* In the tree B the directories D that are in L have one name each, in the
\* parent P tells, and the parents lead to the root.
Shaped(B, P, L, D) ==
    /\ Root \in L /\ L \subseteq D /\ D \subseteq Ino
    /\ \A p \in L, nm \in Name :
          B[p][nm] \in D => B[p][nm] \in L \ {Root} /\ P[B[p][nm]] = p
    /\ \A p \in L, m, n \in Name : B[p][m] \in D /\ B[p][m] = B[p][n] => m = n
    /\ \A d \in L \ {Root} : P[d] \in L /\ \E nm \in Name : B[P[d]][nm] = d
    /\ \A d \in L, S \in SUBSET Ino :
          d \in S /\ (\A x \in S \ {Root} : P[x] \in S) => Root \in S

\* With NameInv and LinkCountExact, an inductive invariant.
TreeInv == Tidy /\ Dots /\ Shaped(TreeOf, parent, Live, Dirs)

Tree == INSTANCE FileTree WITH
    Object <- Ino, TopDir <- Root, Unbound <- 0,
    kind <- mode, tree <- TreeOf, opened <- held, anonymous <- linkable

\* Every operation on slots, link counts and dentries is one step of the
\* abstract file tree or none: a rename moves a name at once, an object
\* disappears only when no name and no open file is left.
ImplementsTree == Tree!TreeSpec
=============================================================================
