SPECIFICATION Spec
CONSTANTS
    Task = {t1, t2, t3}
    Lone = {t1}
    File = {f1, f2, f3, f4}
    NoFile = NoFile
    TableSize = 6
SYMMETRY Symmetry
INVARIANTS
    TypeOK
    OneSlot
    RefsExact
    UsedFilesLive
    FreeListExact
PROPERTY
    FullMeansFull
