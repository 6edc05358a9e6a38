\* One Agent, two tasks, every fault once: safety.
SPECIFICATION Spec
CONSTANTS
    NoKey = nokey
    Agent = {a1}
    MaxTasks = 2
    Updates = {TRUE, FALSE}
    StopPercent = 25
    MaxCrashes = 1
    MaxAgentCrashes = 1
    MaxLosses = 1
INVARIANTS
    TypeOK
    ExecutedOncePerStart
    RunningIsHeld
    CancelWins
PROPERTIES
    UpdateNotRepeated
    ImplementsLifecycle
CHECK_DEADLOCK FALSE
