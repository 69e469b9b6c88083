\* One order with two retries while engine and dashboard move the breaker; a
\* stop loss that finds trading paused by a drawdown is counted but not saved.
SPECIFICATION OrdersFairSpec
CONSTANTS
    o1 = o1
    Orders <- OneOrder
    MaxRetries = 2
    ConsecutiveSL = 1
    Cooldown = 1
    DrawdownPct = 3
    Faults = {"save", "load"}
    Values = {8, 10}
INVARIANTS
    OrdersTypeOK
    GateEndsRetries
    RestartRestores
PROPERTIES
    OrderEnds
