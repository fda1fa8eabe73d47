SPECIFICATION Spec
CONSTANTS
    k1 = k1
    k2 = k2
    f1 = f1
    f2 = f2
    s1 = s1
    e1 = e1
    Keys <- MCKeys
    Secrets = {x}
    Telemetry <- MCTelemetry
    MaxWrites = 3
    MaxFailures = 2
    MaxAborts = 1
INVARIANTS
    HealthWitnessed
    TrailAccounted
    AuditIsTrue
PROPERTY ReactivationIsExplicit
