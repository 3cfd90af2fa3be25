SPECIFICATION Spec
CONSTANTS
    m1 = m1
    Messages <- OneMessage
    s1 = s1
    s2 = s2
    r1 = r1
    r2 = r2
    r3 = r3
    Senders <- TwoSenders
    Receivers <- ThreeReceivers
    Mode <- AllModes
    None = None
    CAPACITY = 2
INVARIANT TypeOK
INVARIANT OwnerInside
PROPERTY Delivered
