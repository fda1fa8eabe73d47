SPECIFICATION FairGSpec
CONSTANTS
    k1 = k1
    k2 = k2
    r1 = r1
    r2 = r2
    s1 = s1
    s2 = s2
    Keys <- MCKeys
    Requests = {r1}
    Secrets = {s1}
    Rank <- MCRank
    Telemetry <- MCTelemetry
    Releases <- BothReleases
    Selections <- SelectedOrNot
    GatewayCapabilities <- GatewayLiteral
    Capability <- MCCapability
    MaxWrites = 1
    MaxFailures = 4
    MaxAborts = 1
    MaxCrashes = 1
INVARIANTS
    OutcomesAreHonest
    FailoverInOrder
PROPERTY RequestsEnd
CHECK_DEADLOCK FALSE
