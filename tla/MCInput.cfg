\* Every way to interleave four user events with the lanes and the host.
\* A session that was dropped stops.
SPECIFICATION LiveSpec
CONSTANTS
    Buttons = {3}
    Keys = {40}
    Contacts = 2
    Negotiated = {"pointer", "keyboard", "touch"}
    CoalescibleCap = 1
    WireCap = 2
    MaxEvents = 4
INVARIANTS
    NothingStuck
    MappingIsExact
PROPERTY
    ReleaseArrives
CHECK_DEADLOCK FALSE
