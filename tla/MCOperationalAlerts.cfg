CONSTANTS
    j1 = j1
    j2 = j2
    email = email
    Null = Null
    JobOrder <- TwoJobs
    OpChannels <- OneChannel
    AlertAfter = 2
    Faults = {"refuse", "oneshot", "abort"}
    MaxCount = 2
    MaxAlertId = 2
SPECIFICATION Spec
INVARIANTS
    FlagsMatchRows
    StreakIsReported
PROPERTIES
    WithdrawnWhenOver
CHECK_DEADLOCK FALSE
