SPECIFICATION Spec
CONSTANTS
    Keys = {k1, k2}
    Values = {v1, v2}
    None = None
    Calls = {c1, c2, c3}
    MaxRestarts = 1
CHECK_DEADLOCK FALSE
SYMMETRY Symmetry
INVARIANTS
    FailuresAreRaces
PROPERTIES
    PrimaryFrozen
    IsSessionStore
