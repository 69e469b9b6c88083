\* The in-memory store, one request that cancels.
SPECIFICATION Spec
CONSTANTS
    old = old
    e1 = e1
    k1 = k1
    k2 = k2
    s1 = s1
    Execs <- OneExec
    Retired = {}
    Cancellers <- OneCanceller
    Subscribers = {}
    MaxEvents = 2
    StoreMayFail = FALSE
PROPERTY CancelHonoured
CHECK_DEADLOCK FALSE
