\* Three threads exhaust a pool that grows by two chunks at a time.
SPECIFICATION Spec
CONSTANTS
    t1 = t1
    t2 = t2
    t3 = t3
    Threads = {t1, t2, t3}
    NodeChunks = 2
    MaxIndex = 2
INVARIANTS
    ChunksExclusive
    ChunksBacked
PROPERTIES
    AllocateReturns
