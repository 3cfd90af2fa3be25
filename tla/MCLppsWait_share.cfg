SPECIFICATION Spec
CONSTANTS
    N = 1
    Delta = {}
    w1 = w1
    w2 = w2
    Writers <- TwoWriters
    None = None
    Timeouts = TRUE
    Interrupts = TRUE
    Spurious = TRUE
    Closing = TRUE
    MaxWrites = 2
CHECK_DEADLOCK FALSE
INVARIANT TypeOK
INVARIANT NonePassed
INVARIANT Wakeable
PROPERTY LockReleased
PROPERTY WokenReturns
