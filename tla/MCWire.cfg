SPECIFICATION FairSpec
CONSTANTS
    Process = {1, 2, 3}
    LOCK_RETRY_LIMIT = 2
    MaxInodes = 3
INVARIANTS
    QueueIsAccounted
    ListenerOwnsThePath
PROPERTIES
    ImplementsFifo
    NothingIsLeftWaiting
CHECK_DEADLOCK FALSE
