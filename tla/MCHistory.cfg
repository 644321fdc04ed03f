SPECIFICATION Spec
CONSTANTS
    Interval <- MCInterval
    From <- MCFrom
    HistorySize = 2
    LoadWindow = 4
    Keep = 2
    FirstFlush = 2
    FlushPeriod = 5
    StartTime = 10
    MaxTime = 20
INVARIANTS
    IdsFollowTime
    NoKeyCollision
    ShownIsStored
PROPERTIES
    RestartBringsBack
