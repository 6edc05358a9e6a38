\* Two slots, a crash, and a command that opens the live database: safety.
CONSTANTS
    NoKey = NoKey
    Key = {k1}
    Handler = {h1, h2}
    Worker = {w1, w2, w3}
    MaxTasks = 2
    Concurrency = 2
    MaxCrashes = 1
    MaxCliOpens = 1
    MaxFaults = 0
SPECIFICATION Spec
SYMMETRY Symmetry
INVARIANTS
    TypeOK
    BoundedConcurrency
    ExecutedOncePerRecovery
    CancelWins
    UniqueKeys
PROPERTIES
    ImplementsLifecycle
CHECK_DEADLOCK FALSE
