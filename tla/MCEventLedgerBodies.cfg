SPECIFICATION Spec
CONSTANTS
    r1 = r1
    r2 = r2
    r3 = r3
    e1 = e1
    b1 = b1
    b2 = b2
    b3 = b3
    EventIds = {e1}
    EventOf <- MCEventOf
    BodyOf <- MCBodyOf
    RejectedBodies = {b3}
    LedgerSurvives = TRUE
    EventsSurvive = TRUE
    Requests = {r1, r2}
    MaxAttempts = 2
    MaxCrashes = 0
    MaxFailures = 0
INVARIANTS
    AcceptedAsApplied
CHECK_DEADLOCK FALSE
