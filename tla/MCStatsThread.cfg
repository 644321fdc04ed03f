SPECIFICATION FairSpec
CONSTANTS
    HistoryInterval = 2
    FlushInterval = 2
    MaxSecond = 3
INVARIANTS
    RepliesAreWhole
    SigtermSaves
PROPERTIES
    UndefinedIsKnown
    SigtermEnds
    RequestsAnswered
\* the process ends, and the seconds are bounded
CHECK_DEADLOCK FALSE
