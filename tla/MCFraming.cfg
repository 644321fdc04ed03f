SPECIFICATION ConnectionSpec
CONSTANTS
    Kinds <- MCKinds
    MaxMessages = 2
    Pieces = 3
    Room = 2
    MaxReplies = 3
INVARIANTS
    NothingLeftBehind
    RepliesAreAccounted
PROPERTIES
    ImplementsRequestStream
    LossIsExplained
\* a dropped connection is the end of it, and so are the bounds
CHECK_DEADLOCK FALSE
