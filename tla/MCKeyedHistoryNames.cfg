SPECIFICATION Spec
CONSTANTS
    eth0 = eth0
    eth1 = eth1
    Device <- MCDevice
    NoDevice = NoDevice
    HistorySize = 2
    LoadWindow = 3
    Keep = 2
    MaxTime = 4
INVARIANT
    RowsNameTheirDevice
