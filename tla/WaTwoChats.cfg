SPECIFICATION FairSpec
CONSTANTS
    t1 = t1
    t2 = t2
    ann = ann
    bob = bob
    Turns <- TwoTurns
    Jids <- BothJids
    Jid <- OwnChats
    MaxMessages = 2
    MaxTools = 2
    MaxFaults = 1
INVARIANT CrossTalkNeedsOverlap
PROPERTY EveryTurnReplies
CHECK_DEADLOCK FALSE
