\* The limits of the code, with three tolerances to the interval.
SPECIFICATION FairSpec
CONSTANTS
    Interval = 3
    Tolerance = 1
    Stagger = 1
    MaxLag = 1
    StaleFactor = 3
    AlertAfter = 3
    MaxRestarts = 1
INVARIANTS
    AlertFollowsCount
PROPERTIES
    NoTickLost
    NoFalseAlarm
    
    KeepsRunning
CHECK_DEADLOCK FALSE
