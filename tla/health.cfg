SPECIFICATION Spec
CONSTANTS
    gateway = gateway
    service = service
    p1 = p1
    p2 = p2
    p3 = p3
    chA = chA
    chB = chB
    Stores <- BothStores
    Procs <- ThreeProcs
    StoreOf <- ServiceIsP3
    Channels <- TwoChannels
    GraceFailures = 2
    MaxAttempts = 2
INVARIANT NoEarlyPage
PROPERTY LoneRecordLands
