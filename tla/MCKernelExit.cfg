SPECIFICATION Spec
CONSTANTS
    MaxThreads = 3
    Cpus = {cpu0, cpu1}
    Sems = {s1}
    Events = {e1}
    Resources = {s1, e1}
    DeviceSems = {s1}
    MaxValue = 1
    InitValue <- Empty
    s1 = s1
    b1 = b1
    Buckets = {b1}
    Hash <- OneBucket
    NoRes = NoRes
    NoCtx = NoCtx
SYMMETRY CpuSymmetry
INVARIANT ExitStopsProcess
