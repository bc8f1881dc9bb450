------------------------------ MODULE FileTree ------------------------------
(***************************************************************************)
(* What a file system promises of its namespace: a tree of directories,    *)
(* each a function from names to objects, in which every operation takes   *)
(* effect at once.  There are no slots, no link counts and no cache here:  *)
(* an object is named when some directory binds a name to it, and only an  *)
(* object that is neither named nor open may be forgotten.                 *)
(***************************************************************************)
EXTENDS Naturals

CONSTANTS
    Object,     \* what names can be bound to, directories included
    TopDir,     \* the directory at the top of the tree, one of them
    Name,       \* the names a directory can bind
    Unbound     \* the value of a name that is bound to nothing, no Object

VARIABLES
    kind,       \* kind[o]: "none" until o exists, then "nondir" or "dir"
    tree,       \* tree[d][nm]: the object directory d binds nm to
    opened,     \* the objects that are open
    anonymous   \* the objects made without a name that may still be given one

treevars == <<kind, tree, opened, anonymous>>

Empty == [nm \in Name |-> Unbound]

TreeInit ==
    /\ kind      = [o \in Object |-> IF o = TopDir THEN "dir" ELSE "none"]
    /\ tree      = [o \in Object |-> Empty]
    /\ opened    = {}
    /\ anonymous = {}

Named(o)      == o = TopDir \/ \E d \in Object, nm \in Name : tree[d][nm] = o
IsDir(d)      == kind[d] = "dir" /\ Named(d)
Vacant(d, nm) == tree[d][nm] = Unbound /\ IsDir(d)

\* The objects that can be reached from o by names.
Below(o) ==
    {x \in Object : \A S \in SUBSET Object :
        (/\ o \in S
         /\ \A d \in S, nm \in Name : tree[d][nm] \in S \cup {Unbound}) => x \in S}

-----------------------------------------------------------------------------
Make(d, nm, o, k) ==
    /\ kind[o] = "none" /\ Vacant(d, nm)
    /\ kind' = [kind EXCEPT ![o] = k]
    /\ tree' = [tree EXCEPT ![d][nm] = o]
    /\ UNCHANGED <<opened, anonymous>>

MakeAnonymous(o) ==
    /\ kind[o] = "none"
    /\ kind'      = [kind EXCEPT ![o] = "nondir"]
    /\ opened'    = opened \cup {o}
    /\ anonymous' \in {anonymous, anonymous \cup {o}}
    /\ UNCHANGED tree

\* Another name for an object that has one, or the first of an anonymous one.
Bind(d, nm, o) ==
    /\ UNCHANGED <<kind, opened>>
    /\ kind[o] = "nondir" /\ Vacant(d, nm)
    /\ o \in anonymous \/ Named(o)
    /\ anonymous' = anonymous \ {o}
    /\ tree'      = [tree EXCEPT ![d][nm] = o]

\* A directory can lose its name only when it is empty.
Unbind(d, nm) ==
    /\ UNCHANGED <<kind, opened, anonymous>>
    /\ tree[d][nm] # Unbound /\ IsDir(d)
    /\ tree[tree[d][nm]] = Empty
    /\ tree' = [tree EXCEPT ![d][nm] = Unbound]

\* The object bound to od/on is bound to nd/nn instead, in one step; what
\* nd/nn was bound to must be of the same kind, and empty.
Move(od, on, nd, nn) ==
    LET o == tree[od][on]
        t == tree[nd][nn]
    IN
    /\ UNCHANGED <<kind, opened, anonymous>>
    /\ o # Unbound /\ o # t /\ IsDir(od) /\ IsDir(nd)
    /\ t # Unbound => kind[t] = kind[o] /\ tree[t] = Empty
    /\ tree' = [tree EXCEPT ![od][on] = Unbound, ![nd][nn] = o]
    /\ nd \notin Below(o)

OpenObject(o) ==
    /\ opened' = opened \cup {o}
    /\ kind[o] # "none" /\ Named(o)
    /\ UNCHANGED <<kind, anonymous, tree>>

CloseObject(o) ==
    /\ o \in opened
    /\ opened' = opened \ {o}
    /\ UNCHANGED <<kind, tree, anonymous>>

Forget(o) ==
    /\ kind[o] # "none" /\ ~Named(o) /\ o \notin opened
    /\ kind'      = [kind EXCEPT ![o] = "none"]
    /\ anonymous' = anonymous \ {o}
    /\ UNCHANGED <<tree, opened>>

TreeNext ==
    \/ \E d, o \in Object, nm \in Name :
          \/ \E k \in {"nondir", "dir"} : Make(d, nm, o, k)
          \/ Bind(d, nm, o)
          \/ Unbind(d, nm)
    \/ \E od, nd \in Object, on, nn \in Name : Move(od, on, nd, nn)
    \/ \E o \in Object : \/ MakeAnonymous(o) \/ OpenObject(o)
                         \/ CloseObject(o)   \/ Forget(o)

TreeSpec == TreeInit /\ [][TreeNext]_treevars
=============================================================================
