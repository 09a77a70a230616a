\* Four packets over two connections; sizes on both sides of each limit.
SPECIFICATION Spec
CONSTANTS
    K1 = K1
    K2 = K2
    NoKey = NoKey
    Key <- MCKey
    Size = {1, 2}
    Limits <- MCLimits
    MaxPackets = 4
    MaxEpochs = 2
SYMMETRY MCSymmetry
INVARIANTS
    NothingLostWhileConnected
    ReportsAddUp
PROPERTIES
    InOrderWithinEpoch
