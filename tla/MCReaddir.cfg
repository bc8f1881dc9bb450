SPECIFICATION FairSpec
CONSTANTS
    PageSlots = 2
    a = a
    b = b
    c = c
    Name = {a, b, c}
    MaxSlots = 5
    Room = {1, 3}
    PageFaults <- SomePageFaults
INVARIANTS
    TypeOK
    GivenOnce
    ScanComplete
PROPERTY
    ScanEnds
