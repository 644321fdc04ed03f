SPECIFICATION Spec
CONSTANTS
    c1 = c1
    c2 = c2
    Conn <- MCConn
    NoConn = NoConn
    Word <- MCWord
    Granted <- MCGranted
    Shorter <- MCShorter
    UUID <- MCUUID
    Offline = Offline
    OldFiles <- MCOldFiles
    MaxAuth = 2
SYMMETRY MCSymmetry
INVARIANTS
    DataOnlyToProved
    FileFollowsList
    Remembered
