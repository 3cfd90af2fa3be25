SPECIFICATION Spec
CONSTANTS
    t1 = t1
    t2 = t2
    t3 = t3
    Threads <- MCThreads
    None = None
    Sizes <- MCSizes
    POOL = 8
    MaxBytes = 3
CHECK_DEADLOCK FALSE
INVARIANT TypeOK
INVARIANT Contiguous
INVARIANT SizeExact
INVARIANT WithinBuffer
INVARIANT PoolConserved
PROPERTY ImplementsStream
