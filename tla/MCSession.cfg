\* The core session state machine with every bound reachable.
SPECIFICATION Spec
CONSTANTS
    A1 = A1
    A2 = A2
    NoAgreement = NoAgreement
    Agreement <- MCAgreement
    Policy <- MCPolicy
    MaxSequence = 3
    MaxGeneration = 3
    MaxAttempt = 4
    ShiftWidth = 2
INVARIANTS
    StreamHasOneAgreement
    SkippedIsExact
    ResumePointHolds
