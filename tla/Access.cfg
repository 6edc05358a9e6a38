SPECIFICATION Spec
CONSTANTS
    None = none
    User = {u1}
    Session = {s1, s2}
    Token = {t1}
    Handler = {h1, h2}
    Limit = 2
    Cap = 2
    SessionLife = 1
    MaxTime = 3
    MaxCreated = 3
    MaxFaults = 1
SYMMETRY Symmetry
CONSTRAINT Apart
INVARIANTS
    SessionOfItsAccount
    BlockHolds
    TokenStaysDeleted
