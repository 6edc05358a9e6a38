SPECIFICATION FairSpec
CONSTANTS
    NoKey = nokey
    Unknown = unknown
    Content = {c1, c2}
    MaxTasks = 2
    MaxChanges = 2
    MaxFaults = 2
PROPERTIES
    LocalChangeSurvives
    NotRepeatedOnOwnResult
    DigestCatchesUp
CHECK_DEADLOCK FALSE
