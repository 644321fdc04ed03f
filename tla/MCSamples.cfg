SPECIFICATION SamplesSpec
CONSTANTS
    Kinds = {"cpu", "memory", "load", "network", "diskactivity", "disks",
             "temperature", "power", "gpuload"}
    Unit = 6480
    Word = 414720
    Interval <- Seconds
    HistorySize = 3
    EnergyRange = 9
    Epoch = 5
    LastTime = 9
INVARIANTS
    AveragesAreMeasured
    NothingLostOrTwice
    PartsMakeWhole
    EnergyKnown
CHECK_DEADLOCK FALSE
