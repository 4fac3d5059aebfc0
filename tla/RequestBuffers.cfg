CONSTANTS
    PoolSize = 40
    ALIGN_SIZE = 2
    MHD_BUF_INC_SIZE = 8
    RecordSize = 3
    ReplySize = 5
    Streams <- MCStreams
SPECIFICATION Spec
INVARIANTS
    BlocksApart
    BytesInOrder
    HandlerSeesRequest
PROPERTIES
    SmallIsServed
    AllAnswered
CHECK_DEADLOCK FALSE
