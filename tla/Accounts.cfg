\* Two users, two requests at a time, one secret, one recovery code.
SPECIFICATION Spec
CONSTANTS
    None = none
    User = {u1, u2}
    Handler = {h1, h2}
    Secret = {s1}
    Code = {c1}
SYMMETRY Symmetry
CONSTRAINT OneExcuse
INVARIANTS
    AdminRemains
    DeletedStaysDeleted
    RecoveryCodeOnce
    SecondFactorConfirmed
PROPERTIES
    ImplementsAccounts
