\* The TCP worker, all interleavings with application and peer, under a
\* scheduled thread and a socket that may block for ever.
\* The thread ends, so the system may stop.
SPECIFICATION Spec
CONSTANTS
    NoKey = NoKey
    Limits <- MCLimits
    Size = {2}
    MaxFrames = 3
    MaxPeerFrames = 2
    MaxRead = 2
PROPERTIES
    OutboundIsOrdered
    InboundIsOrdered
    ShutdownReturns
    AcceptedReachesWire
CHECK_DEADLOCK FALSE
