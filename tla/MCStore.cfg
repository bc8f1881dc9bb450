SPECIFICATION HistSpec
CONSTANTS
    MaxIno = 5
    MaxNames = 2
    Pages = 2
    PageBlocks = 2
    Val = {1}
    DbErrors <- NoDbErrors
    Uncached = Uncached
INVARIANTS
    TypeOK
    LinksKept
    DeletedCleared
PROPERTY
    DataKept
