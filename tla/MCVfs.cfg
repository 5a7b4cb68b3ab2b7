SPECIFICATION Spec
CONSTANTS
    Threads = {t1, t2}
    MaxFiles = 2
    MaxRows = 2
    Filesystems = {g1, g2}
    Names = {n1, n2}
    NoFs = NoFs
    NoName = NoName
    NoThread = NoThread
    MaxPos = 1
    MaxLeaked = 1
    ForkShares = FALSE
    BadHandles = FALSE
    Halts = TRUE
SYMMETRY Symmetry
INVARIANTS OpenFilesOK DriversOK
