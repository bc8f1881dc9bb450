SPECIFICATION Spec
CONSTANTS
    PageSlots = 2
    a = a
    b = b
    Name = {a, b}
    MaxIno = 6
    MaxHeld = 0
    LinkMax = 4
    LinkMod = 8
    ReadFaults <- SomeReadFaults
    CommitFaults <- NoCommitFaults
INVARIANT
    DeadDirEmpty
CHECK_DEADLOCK FALSE
