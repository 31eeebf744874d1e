SPECIFICATION Spec
CONSTANTS
    en = en
    tc = tc
    s1 = s1
    s2 = s2
    Locales <- TwoLocales
    EnUS = en
    Services <- TwoServices
    OwnName <- Names
    MaxWords = 2
    MaxHeard = 5
    MaxStarts = 2
    MaxTracks = 2
CONSTRAINT InTurn
INVARIANTS
    MicIsShown
    CopiesMatchTable
PROPERTIES
    SpokenOnceAndKept
CHECK_DEADLOCK FALSE
