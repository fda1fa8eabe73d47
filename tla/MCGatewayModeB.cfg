SPECIFICATION GSpec
CONSTANTS
    k1 = k1
    k2 = k2
    r1 = r1
    r2 = r2
    s1 = s1
    s2 = s2
    Keys = {k1}
    Requests = {r1}
    Secrets = {s1}
    Rank <- MCRank
    Telemetry <- MCTelemetry
    Releases <- ShippedReleases
    Selections <- Selected
    GatewayCapabilities <- GatewayLiteral
    Capability <- MCCapability
    MaxWrites = 0
    MaxFailures = 1
    MaxAborts = 0
    MaxCrashes = 0
INVARIANT DeliveredConfigIsUsed
CHECK_DEADLOCK FALSE
