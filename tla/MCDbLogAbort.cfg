SPECIFICATION Spec
CONSTANTS
    Task = {t1, t2, t3}
    NoTask = NoTask
    Updaters = {t3}
    LogSize = 6
    BufSize = 3
    MaxFile = 2
    MaxFaults = 1
SYMMETRY Symmetry
INVARIANT
    AbortedStaysOut
