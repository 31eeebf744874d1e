SPECIFICATION Spec
CONSTANTS
    p1 = p1
    p2 = p2
    m1 = m1
    m2 = m2
    Msgs <- TwoMsgs
    Pods <- TwoPods
    Home <- HomeOfTwo
    Skew <- SkewOfTwo
    MaxSkew = 1
    MaxLag = 1
    Interval = 2
    MaxRetries = 1
    RetryWaits = {1}
    WaitTimes = {1}
    ResultTTL = 1
    Closable = {p2}
    MaxFaults = 1
INVARIANTS
    AcceptedAtMostOnce
    OkMeansAccepted
PROPERTIES
    SlotSpacing
    RefinesOutbox
SYMMETRY Alike
