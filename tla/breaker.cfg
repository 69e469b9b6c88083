\* Every result and every operator entry point.
SPECIFICATION FairSpec
CONSTANTS
    c1 = c1
    c2 = c2
    c3 = c3
    Callers <- Three
    MaxFailures = 2
    HalfOpenMaxCalls = 2
    RecoveryTimeout = 2
    FailureCap = 4
    Results <- AllResults
    Operators <- AllOperators
INVARIANTS
    TypeOK
    ProbeBudget
    ClosedBelowThreshold
PROPERTIES
    OverrideLatch
    RecoveryUnlessUsedUp
