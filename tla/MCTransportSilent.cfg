SPECIFICATION FairSpec
CONSTANTS
    HEADER_LEN = 2
    MAX_MESSAGE_SIZE = 3
    MAX_UNCLAIMED_FDS = 2
    MAX_SEND_QUEUE_BYTES = 4
    MAX_SEND_QUEUE_FDS = 1
    MAX_OUTBOX_FRAMES = 1
    SocketRoom = 3
    Sizes = {2, 3}
    MaxFrames = 3
    MaxSays = 1
    MaxWakes = 1
PROPERTIES SendFailuresAreTerminal
CHECK_DEADLOCK FALSE
