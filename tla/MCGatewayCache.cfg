SPECIFICATION GSpec
CONSTANTS
    k1 = k1
    k2 = k2
    r1 = r1
    r2 = r2
    s1 = s1
    s2 = s2
    Keys = {k1}
    Requests <- MCRequests
    Secrets <- MCSecrets
    Rank <- MCRank
    Telemetry <- MCTelemetry
    Releases <- EarlierReleases
    Selections <- Selected
    GatewayCapabilities <- GatewayLiteral
    Capability <- MCCapability
    MaxWrites = 1
    MaxFailures = 4
    MaxAborts = 1
    MaxCrashes = 1
SYMMETRY Symmetry
INVARIANTS
    ConfigsAreGenuine
    HealthIsEarned
CHECK_DEADLOCK FALSE
