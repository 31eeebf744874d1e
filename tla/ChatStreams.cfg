SPECIFICATION Spec
CONSTANTS
    p1 = p1
    p2 = p2
    p3 = p3
    x = x
    y = y
    Requests <- ThreeRequests
    Chats <- TwoChats
    Chat <- ChatOf
    Limit = 2
    MaxBreaks = 1
    MaxCrashes = 1
INVARIANTS
    ResumableUnlessOverlapped
    IdsAreKnown
    ClientIsShared
    FailedClientIsDropped
CHECK_DEADLOCK FALSE
