SPECIFICATION Spec
CONSTANTS
    t1 = t1
    t2 = t2
    ann = ann
    bob = bob
    Turns <- TwoTurns
    Jids <- BothJids
    Jid <- SameChat
    MaxMessages = 2
    MaxTools = 1
    MaxFaults = 1
INVARIANTS
    WindowBounded
    TrimmedHaveSuccessors
    QuietChatsForgetNothing
CHECK_DEADLOCK FALSE
