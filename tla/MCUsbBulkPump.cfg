\* The USB bulk worker with application and display on both sides of it.
\* The thread ends, so the system may stop.
SPECIFICATION Spec
CONSTANTS
    NoKey = NoKey
    Limits <- MCLimits
    Size = {1, 2}
    MaxFrames = 3
    MaxPeerFrames = 2
    MaxRead = 2
PROPERTIES
    OutboundIsOrdered
    InboundIsOrdered
    StopReturns
CHECK_DEADLOCK FALSE
