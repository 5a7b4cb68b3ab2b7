SPECIFICATION Spec
CONSTANTS
    Threads = {t1, t2}
    MaxFiles = 1
    MaxRows = 1
    Filesystems = {g1}
    Names = {n1}
    NoFs = NoFs
    NoName = NoName
    NoThread = NoThread
    MaxPos = 1
    MaxLeaked = 1
    ForkShares = TRUE
    BadHandles = TRUE
    Halts = TRUE
CHECK_DEADLOCK FALSE
INVARIANTS OpsCountOK ForcedUnmountAlone
PROPERTIES ShutdownCompletes OperationsReturn
