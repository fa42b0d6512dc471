SPECIFICATION FairSpec
CONSTANTS
    Calls = {c1, c2, c3, c4}
    c1 = c1
    c2 = c2
    c3 = c3
    c4 = c4
    FailureThreshold = 2
    RecoveryTimeout = 2
    HalfOpenMaxCalls = 2
    SuccessThreshold = 2
    EscapingRoles <- NonTrialRoles
INVARIANTS
    TypeOK
    TrialsBounded
    NoOverdueTransition
PROPERTIES
    OpenLeftOnlyByTrial
    CooldownEnds
    HalfOpenResolves
    Recovers
