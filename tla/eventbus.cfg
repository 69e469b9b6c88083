\* One stream, which is full with one event; three events for a bus of two,
\* the second of which cannot be encoded.
SPECIFICATION FairSpec
CONSTANTS
    Clients = {c1}
    BusSize = 2
    StreamSize = 1
    MaxEvents = 3
    Unwritable = {2}
INVARIANTS
    ShownOnce
PROPERTIES
    Delivered
    KeptUntilShown
    CloseEnds
CHECK_DEADLOCK FALSE
