\* Two machines, two tokens, one fault: safety and liveness.
SPECIFICATION FairSpec
CONSTANTS
    None = none
    Agent = {a1, a2}
    Token = {k1, k2}
    MaxServers = 2
    MaxFaults = 1
INVARIANTS
    OneServerPerToken
    RecordIsKnown
    QuietRevocationHolds
PROPERTIES
    ImplementsEnrollment
    UsedTokenEnrolls
    KnownAgentIsSeen
CHECK_DEADLOCK FALSE
