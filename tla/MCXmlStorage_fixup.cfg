SPECIFICATION Spec
CONSTANTS
    HNUM = 4
    BNUM = 2
    CHUNKS = 2
    c1 = c1
    c2 = c2
    Configs <- MCConfigs
    Factory = c1
    Blank = Blank
    NoSum = NoSum
    MTD = FALSE
    CrashIn <- UpdateAndFixup
    Flaky <- NoHeader
    IOErr = FALSE
INVARIANT OneUsefulHeader
