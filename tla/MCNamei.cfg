SPECIFICATION Spec
CONSTANTS
    PageSlots = 2
    a = a
    b = b
    Name = {a, b}
    MaxIno = 6
    MaxHeld = 1
    LinkMax = 4
    LinkMod = 8
    ReadFaults <- NoReadFaults
    CommitFaults <- NoCommitFaults
INVARIANTS
    TypeOK
    NamesUnique
    LinkCountExact
    DotDotLeadsToRoot
    DcacheCoherent
PROPERTY
    ImplementsTree
SYMMETRY NameSymmetry
CHECK_DEADLOCK FALSE
