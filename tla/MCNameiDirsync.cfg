SPECIFICATION DirsyncSpec
CONSTANTS
    PageSlots = 2
    a = a
    b = b
    Name = {a, b}
    MaxIno = 6
    MaxHeld = 0
    LinkMax = 3
    LinkMod = 8
    MaxFaults = 2
    ReadFaults <- NoReadFaults
    CommitFaults <- NoCommitFaults
SYMMETRY NameSymmetry
INVARIANTS
    LinkCountWithin
    DeadDirEmpty
CHECK_DEADLOCK FALSE
