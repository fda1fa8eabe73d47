CONSTANTS
    Tokens = {t1}
    Calls = {c1, c2}
    Free = Free
    None = None
SPECIFICATION FairSpec
INVARIANTS
    PaidWasEntitled
    PaidIsRefreshable
PROPERTY EndedStopsPaying
