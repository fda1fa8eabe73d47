SPECIFICATION Spec
CONSTANTS
    e1 = e1
    e2 = e2
    s1 = s1
    c1 = c1
    c2 = c2
    None = None
    Ids = {e1, e2}
    Seeds <- MCSeeds
    Calls = {c1, c2}
SYMMETRY Symmetry
INVARIANTS
    StoredStays
    RevokedStays
    GoneStays
    SettledIsSaved
