SPECIFICATION GatewaySpec
CONSTANTS
    c1 = c1
    c2 = c2
    Callers <- Two
    MaxFailures = 2
    HalfOpenMaxCalls = 2
    RecoveryTimeout = 2
    FailureCap = 2
    CacheTTL = 1
    GraceFailures = 2
    SessionBound = TRUE
    Answers <- AllAnswers
    Results <- AllResults
    Operators <- GatewayOperators
INVARIANTS
    ExpectedEmptyNeverPages
PROPERTIES
    BreakerRespected
    ProbeProvesRecovery
SYMMETRY Symmetry
