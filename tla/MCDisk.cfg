SPECIFICATION DiskSpec
CONSTANTS
    t1 = t1
    t2 = t2
    t3 = t3
    Clients = {t1, t2, t3}
    Readers = {t3}
    Written <- OneWritten
    Blocks = {b1}
    Values = {0, 1}
    Handlers = {c1, c2}
    Semaphores = {s1, s2, s3}
    Nobody = Nobody
INVARIANTS DiskInv SemaphoreNotReentered
PROPERTIES ImplementsAtomicDisk DiskRequestsReturn
