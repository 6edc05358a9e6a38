\* One slot; a crash, a failed write, and a command that opens the live
\* database.
CONSTANTS
    NoKey = NoKey
    Key = {}
    Handler = {h1}
    Worker = {w1, w2}
    MaxTasks = 2
    Concurrency = 1
    MaxCrashes = 1
    MaxCliOpens = 1
    MaxFaults = 1
SPECIFICATION FairSpec
INVARIANTS
    NoTaskAbandoned
PROPERTIES
    EveryTaskSettles
CHECK_DEADLOCK FALSE
