SPECIFICATION Spec
CONSTANTS
    t1 = t1
    t2 = t2
    ann = ann
    bob = bob
    Turns <- TwoTurns
    Jids <- BothJids
    Jid <- OwnChats
    MaxMessages = 2
    MaxTools = 1
    MaxFaults = 0
INVARIANT SendToolRepliesToUser
CHECK_DEADLOCK FALSE
