SPECIFICATION Spec
CONSTANTS
    transport = transport
    history_ = history_
    s1 = s1
    s2 = s2
    Tabs <- BothTabs
    Landing = transport
    Sessions <- TwoSessions
    Turns <- TwoTurns
    MaxKills = 1
INVARIANTS
    TypeOK
    StoredIsOwn
    SavedTurnsStay
    ShownIsStored
    OpenCallsLive
SYMMETRY Symmetry
CONSTRAINT Bound
CHECK_DEADLOCK FALSE
