\* The limit of the code.
SPECIFICATION FairSpec
CONSTANTS
    MaxRestartFailures = 5
INVARIANTS
    NoPanic
    StoppedMeansDown
    RunningMeansSupervised
PROPERTIES
    SpawnsInCharge
    StopEnds
    GivesUp
\* A manager that was stopped, or never started its child, rests.
CHECK_DEADLOCK FALSE
