SPECIFICATION FairSpec
CONSTANTS
    p1 = p1
    p2 = p2
    m1 = m1
    m2 = m2
    Msgs <- TwoMsgs
    Pods <- OnePod
    Home <- HomeOfOne
    Skew <- SkewOfOne
    MaxSkew = 0
    MaxLag = 1
    Interval = 2
    MaxRetries = 1
    RetryWaits = {1}
    WaitTimes = {1}
    ResultTTL = 1
    Closable = {p1}
    MaxFaults = 1
PROPERTIES
    CallsReturn
    QueueDrains
    ResultsExpire
