\* Window and tray together: every interleaving of their commands with the
\* session workers and links.  No symmetry, as liveness needs.  The user may
\* stop issuing commands, so the system may stop.
SPECIFICATION LiveSpec
CONSTANTS
    W1 = W1
    W2 = W2
    Worker <- MCWorker
    Caller = {"ui", "tray"}
    MaxLinks = 2
    MaxCommands = 4
INVARIANTS
    NoOrphanWorker
    EveryLinkHasOwner
    FreshGeneration
PROPERTIES
    EveryCallReturns
    RecoveryEnds
CHECK_DEADLOCK FALSE
