SPECIFICATION Spec
CONSTANTS
    HNUM = 4
    BNUM = 2
    CHUNKS = 2
    c1 = c1
    c2 = c2
    Configs <- MCConfigs
    Factory = c1
    Blank = Blank
    NoSum = NoSum
    MTD = TRUE
    CrashIn <- UpdateOnly
    Flaky <- NoHeader
    IOErr = FALSE
INVARIANT Recoverable
PROPERTY ImplementsRegister
PROPERTY SwitchesOnce
PROPERTY BootsUp
INVARIANT TypeOK
INVARIANT OneUsefulHeader
INVARIANT SwitchesData
INVARIANT NeverFails
