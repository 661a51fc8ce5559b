CONSTANTS
    j1 = j1
    j2 = j2
    email = email
    Null = Null
    JobOrder <- TwoJobs
    OpChannels <- OneChannel
    AlertAfter = 1
    MaxCount = 1
    MaxAlertId = 2
    MaxAttempts = 2
    Ids = {1, 2}
SPECIFICATION FairSpec
INVARIANTS
    TypeOK
PROPERTIES
    KeepsAccounts
    HealthRecovers
    AlertsSettle
CHECK_DEADLOCK FALSE
