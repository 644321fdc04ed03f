SPECIFICATION CollectorsSpec
CONSTANTS
    Hardware <- MCHardware
    SensorSize = 2
    MaxUpdate = 3
    p1 = p1
    p2 = p2
    Pids <- MCPids
    Programs <- MCPrograms
    MaxTicks = 2
    Top = 2
    MaxClock = 4
    Tables <- MCTables
    Uuids <- MCUuids
    Labels <- MCLabels
    DiskSize = 3
    MaxDiskUpdate = 3
    BatteryNames <- MCBatteryNames
    Files <- MCFiles
    Gone = Gone
    MaxBatteryUpdate = 3
INVARIANTS
    LimitsCover
    SensorsAreSampled
    ProcessesAreTold
    BatteriesAreRead
PROPERTIES
    DisksAreMounted
SYMMETRY MCSymmetry
CHECK_DEADLOCK FALSE
