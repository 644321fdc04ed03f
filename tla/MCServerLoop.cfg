SPECIFICATION Spec
CONSTANTS
    FD <- MCFD
    FdSetSize = 5
    Timeout = 1
    Listener <- MCListener
    MaxBacklog = 1
    MaxUnread = 1
INVARIANTS
    SelectCoversWatched
    DescriptorsAccounted
    ListenerKept
PROPERTIES
    SweepIsComplete
    NoWrongRemoval
