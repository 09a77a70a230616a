\* The documented global order of the multiplexer.
SPECIFICATION Spec
CONSTANTS
    NoKey = NoKey
    Limits <- MCLimits
    Size = {1, 2}
    MaxFrames = 2
    MaxPeerFrames = 0
    MaxRead = 2
INVARIANTS
    GlobalWireOrder
CHECK_DEADLOCK FALSE
