\* One Agent, one task at a time, every fault: liveness.
SPECIFICATION FairSpec
CONSTANTS
    NoKey = nokey
    Agent = {a1}
    MaxTasks = 1
    Updates = {TRUE, FALSE}
    StopPercent = 25
    MaxCrashes = 1
    MaxAgentCrashes = 1
    MaxLosses = 2
PROPERTIES
    EveryTaskSettles
    UpdatesReconciled
CHECK_DEADLOCK FALSE
