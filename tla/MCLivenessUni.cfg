SPECIFICATION LiveSpec
CONSTANTS
    MaxThreads = 4
    Cpus = {cpu0}
    Sems = {s1}
    Events = {}
    Resources = {s1}
    DeviceSems = {s1}
    MaxValue = 1
    MaxOps = 5
    InitValue <- Empty
    s1 = s1
    b1 = b1
    Buckets = {b1}
    Hash <- OneBucket
    NoRes = NoRes
    NoCtx = NoCtx
PROPERTY ReadyRuns
