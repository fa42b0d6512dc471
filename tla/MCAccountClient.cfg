SPECIFICATION FairSpec
CONSTANTS
    Calls = {c1, c2, c3}
    c1 = c1
    c2 = c2
    c3 = c3
    MaxRetries = 1
    FailureThreshold = 2
    RecoveryTimeout = 2
    HalfOpenMaxCalls = 1
    SuccessThreshold = 1
    EscapingRoles <- NonTrialRoles
INVARIANTS
    TypeOK
PROPERTIES
    BreakerKept
    FaultOpensBreaker
    ServiceRestored
