\* Two sizes, queues of one and an encoder that may keep two input
\* requests open.  The owner may drop the stream, after which it stops.
SPECIFICATION LiveSpec
CONSTANTS
    Sizes = {1, 2}
    FrameQueue = 1
    Buffers = 2
    OutQueue = 1
    Interval = 1
    Credits = 2
INVARIANTS
    EndsCleanly
    EncoderContract
    CatchUpIsBounded
PROPERTIES
    DropReturns
    ResizeIsFollowed
CHECK_DEADLOCK FALSE
