SPECIFICATION Spec
CONSTANTS
    Calls = {1}
    Queries <- MCQueries
    Results <- MCResults
    MaxLost = 2
INVARIANTS
    UnsafeIsRefusedAndTold
    ConsentHolds
    FallbackNeverFails
    AnswersAreReviewed
    InvocationsAreTrue
PROPERTY
    CallsSettle
CHECK_DEADLOCK FALSE
