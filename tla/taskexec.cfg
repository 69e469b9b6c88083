\* The Postgres store, two requests that cancel, one client that streams.
SPECIFICATION FairSpec
CONSTANTS
    old = old
    e1 = e1
    k1 = k1
    k2 = k2
    s1 = s1
    Execs <- LiveAndOld
    Retired <- OnlyOld
    Cancellers <- TwoCancellers
    Subscribers <- OneSubscriber
    MaxEvents = 2
    StoreMayFail = TRUE
INVARIANTS
    TypeOK
    DoneTellsOutcome
    StreamOrdered
PROPERTIES
    NoSendAfterClose
    RunSettles
    ImplementsLifecycle
\* Once every run has ended and the server is down nothing is left to do.
CHECK_DEADLOCK FALSE
