SPECIFICATION Spec
CONSTANTS
    h1 = h1
    h2 = h2
    Handlers <- TwoHandlers
    Timer = Timer
    Main = Main
    None = None
    Signals = TRUE
    Spurious = TRUE
    Faults = TRUE
CHECK_DEADLOCK FALSE
INVARIANT TreeExclusive
INVARIANT FreedOnce
