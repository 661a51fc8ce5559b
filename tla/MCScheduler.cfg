CONSTANTS
    j1 = j1
    j2 = j2
    s1 = s1
    s2 = s2
    None = None
    Jobs = {j1, j2}
    Slots = {s1, s2}
    Interval <- Intervals
    MaxAttempts = 3
    InitialDelay = 1
    MaxDelay = 2
    JitterPercent = 100
    Grace = 2
    RandomPercents = {0, 50, 99}
    MaxLate = 4
SPECIFICATION FairSpec
INVARIANTS
    TypeOK
    SerialExecution
    Cadence
    NoOrphans
PROPERTIES
    NoBurst
    StopsEventually
    EveryJobKeepsRunning
CHECK_DEADLOCK FALSE
