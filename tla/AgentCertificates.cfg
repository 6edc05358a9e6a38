SPECIFICATION FairSpec
CONSTANTS
    a1 = a1
    Agent <- MCAgent
    Lifetime = 2
    CaLifetime = 4
    Window = 1
    MaxTime = 4
    MaxCas = 4
    MaxFaults = 2
INVARIANTS
    CertificateAccepted
PROPERTIES
    PanelStarts
