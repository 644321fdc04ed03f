SPECIFICATION FairSpec
CONSTANTS
    FD <- MCFewFD
    FdSetSize = 5
    Timeout = 1
    Listener <- MCListener
    MaxBacklog = 1
    MaxUnread = 1
PROPERTIES
    ClosedClientsReleased
