SPECIFICATION Spec
CONSTANTS
    h1 = h1
    h2 = h2
    h3 = h3
    h4 = h4
    e1 = e1
    e2 = e2
    e3 = e3
    Handlers = {h1, h2, h3, h4}
    EventOf <- MCEventOf
    BodyOf <- UtcBodies
    Queries = {q1}
    q1 = q1
    Precision = 2
    MaxDigits = 4
    RecentLimit = 2
    MaxFailures = 2
    MaxCrashes = 1
INVARIANTS
    TypeOK
    OneRowPerEvent
    AcknowledgedStays
    AuditFollowsData
    AnswersAreCurrent
    Chronological
    BalanceExact
PROPERTIES
    ServiceKept
CHECK_DEADLOCK FALSE
