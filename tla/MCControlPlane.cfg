SPECIFICATION CSpec
CONSTANTS
    Caps = {"plan", "rewrite"}
    Catalogs <- MCCatalogs
    Patches <- MCPatches
    Invocations <- MCInvocations
    Preferred = 6
    MaxChanges = 2
    MaxCalls = 2
    MaxDays = 1
    MaxFaults = 1
INVARIANTS
    AnsweredIsDurable
    ServedIsCurrent
PROPERTIES
    SelectionsFollow
    FallbackSinks
CHECK_DEADLOCK FALSE
