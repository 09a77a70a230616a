\* The virtual display across host, controllers and service.
\* The user may stop calling, so the system may stop.
SPECIFICATION LiveSpec
CONSTANTS
    Callers = {poll, act}
    Poller = poll
    NoOne = NoOne
    MaxFaults = 1
    MaxStops = 1
    MaxActions = 2
    Sizes <- MCSizes
    Desktop = "A"
    Advertised <- MCAdvertised
INVARIANTS
    DisabledStaysDisabled
PROPERTIES
    AlignsOnlyItsOwn
    CallsReturn
    StatusCatchesUp
CHECK_DEADLOCK FALSE
