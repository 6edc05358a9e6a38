\* Two slots; the operator opens the live database: a command is started
\* twice.
CONSTANTS
    NoKey = NoKey
    Key = {k1}
    Handler = {h1}
    Worker = {w1, w2}
    MaxTasks = 2
    Concurrency = 2
    MaxCrashes = 0
    MaxCliOpens = 1
    MaxFaults = 0
SPECIFICATION Spec
INVARIANTS
    ExecutedOncePerStart
CHECK_DEADLOCK FALSE
