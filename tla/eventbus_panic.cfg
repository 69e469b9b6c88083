\* A client that leaves while one of its handlers is on its way.
SPECIFICATION Spec
CONSTANTS
    Clients = {c1}
    BusSize = 2
    StreamSize = 1
    MaxEvents = 1
    Unwritable = {}
INVARIANTS
    HandlerPanicsRecovered
CHECK_DEADLOCK FALSE
