SPECIFICATION Spec
CONSTANTS
    N = 1
    Delta = {1}
    w1 = w1
    w2 = w2
    Writers <- OneWriter
    None = None
    Timeouts = FALSE
    Interrupts = FALSE
    Spurious = FALSE
    Closing = FALSE
    MaxWrites = 4
CHECK_DEADLOCK FALSE
PROPERTY NoneMissed
