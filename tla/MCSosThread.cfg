SPECIFICATION Spec
CONSTANTS
    c1 = c1
    c2 = c2
    b1 = b1
    b2 = b2
    Clients <- TwoClients
    Blocks <- TwoBlocks
    Calls <- Shared
    MAX_RES = 1
    NoBlock = NoBlock
CHECK_DEADLOCK FALSE
INVARIANT TypeOK
INVARIANT FreedUnused
PROPERTY OneRunner
PROPERTY StartReceived
PROPERTY DeleteEnds
