SPECIFICATION Spec
CONSTANTS
    g1 = g1
    g2 = g2
    a1 = a1
    Client = Client
    Requests <- TheRequests
    CallerOf <- TheCallers
    Buckets = 1
    MaxReports = 1
INVARIANTS
    TypeOK
    ErrorEchoesTrace
    TracesJoin
    CountedAsAnswered
    ReportsAgree
CHECK_DEADLOCK FALSE
