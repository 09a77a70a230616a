\* A queue of one, so that a caller waits for room, and two commands each, so
\* that a late answer meets a newer question.  The callers may stop asking.
SPECIFICATION LiveSpec
CONSTANTS
    Callers = {c1, c2}
    NoOne = noOne
    QueueLen = 1
    Encoders = 2
    Frames = 2
    MaxCalls = 2
    MaxArrivals = 2
INVARIANTS
    BatchIsComplete
    OneEncoderAtATime
PROPERTIES
    CallsEnd
CHECK_DEADLOCK FALSE
