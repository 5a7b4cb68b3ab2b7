SPECIFICATION ServicesSpec
CONSTANTS
    MaxSemaphores = 2
    MaxUsrSem = 3
    SemUsers = {t1, t2}
    ShortNames = {a}
    LongNames = {long}
    CutName = cut
    Nobody = Nobody
    Values = {0, 1}
    MaxValue = 1
    NumFrames = 11
    StaticEnd = 1
    PageSize = 2
    TableEntries = 3
    TlbSize = 2
    Asids = {1, 2}
    StackTop = 9
    Programs <- TwoPrograms
    HeapLimit = 16
    Requests = {0, 5, 16}
    NoBlock = NoBlock
    HeapValues = {1, 2, 3}
    MaxNodes = 7
    Machines <- SmallMachines
    MemoryPages = 6
    BytesInPage = 16
    KernelEnds = {13, 16}
    ArgLengths = {0, 3}
    StructSizes <- SmallStructs
    LockSize = 4
    MaxDevices = 3
    MaxCpus = 2
INVARIANTS UsrSemInv MemInv HeapUsable TlbOK MallocInv IsHeap KernelMemoryApart EveryDeviceHandled
CHECK_DEADLOCK FALSE
