\* Batches over two servers beside single tasks, while the controller
\* restarts; no request is given up.
SPECIFICATION Spec
CONSTANTS
    NoKey = nokey
    Agent = {a1, a2}
    MaxTasks = 3
    Updates = {FALSE}
    StopPercent = 100
    MaxCrashes = 1
    MaxAgentCrashes = 0
    MaxLosses = 0
SYMMETRY Symmetry
PROPERTIES
    BatchHalts
CHECK_DEADLOCK FALSE
