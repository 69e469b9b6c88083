\* One position, a stop loss that pauses on the second.
SPECIFICATION FairSpec
CONSTANTS
    a = a
    b = b
    Symbols <- OneSymbol
    Held <- OneSymbol
    ConsecutiveSL = 2
    Cooldown = 1
    DrawdownPct = 3
    Faults = {"load"}
    Values = {8, 10, 12}
    Cash = 10
    Results <- UpOrDown
    MaxLoss = 1
    MaxSnaps = 1
INVARIANTS
    CalmBeforeTrading
PROPERTIES
    ResumedAfterCooldown
    EngineUsesBreaker
    GateFollows
    PauseLifted
