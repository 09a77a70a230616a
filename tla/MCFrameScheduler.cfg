\* Clock, submissions and slots are bounded, so an instance may stop.
SPECIFICATION Spec
CONSTANTS
    UnitsPerSecond = 4
    MaxTime = 9
    MaxTick = 4
    FrameRate <- MCFrameRate
    Origin = {0, 2}
    MaxAge = {0, 2}
    PresentationTime = {1, 4}
    Sequence = {1, 2}
    MaxNow = 8
    MaxSubmissions = 3
INVARIANTS
    NewestDueSlot
    LatestWins
CHECK_DEADLOCK FALSE
