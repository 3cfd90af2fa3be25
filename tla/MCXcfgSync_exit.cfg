SPECIFICATION Spec
CONSTANTS
    h1 = h1
    h2 = h2
    Handlers <- OneHandler
    Timer = Timer
    Main = Main
    None = None
    Signals = TRUE
    Spurious = FALSE
    Faults = FALSE
CHECK_DEADLOCK FALSE
INVARIANT StoredAtExit
