SPECIFICATION Spec
CONSTANTS
    h1 = h1
    h2 = h2
    Handlers <- TwoHandlers
    Timer = Timer
    Main = Main
    None = None
    Signals = TRUE
    Spurious = FALSE
    Faults = FALSE
CHECK_DEADLOCK FALSE
INVARIANT TypeOK
INVARIANT PendingIsArmed
PROPERTY EventuallyStored
PROPERTY SignalEnds
