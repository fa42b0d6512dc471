SPECIFICATION Spec
CONSTANTS
    g1 = g1
    g2 = g2
    a1 = a1
    Client = Client
    Requests <- TheRequests
    CallerOf <- TheCallers
    Buckets = 2
    MaxReports = 0
INVARIANT ExposedWithinCount
CHECK_DEADLOCK FALSE
