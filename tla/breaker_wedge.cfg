\* A channel whose provider may also answer with an expected-empty error.
SPECIFICATION FairSpec
CONSTANTS
    c1 = c1
    c2 = c2
    c3 = c3
    Callers <- Three
    MaxFailures = 2
    HalfOpenMaxCalls = 2
    RecoveryTimeout = 2
    FailureCap = 3
    Results <- NoPanic
    Operators <- NoOperators
PROPERTY RecoveryAttempted
