CONSTANTS
    j1 = j1
    j2 = j2
    email = email
    Null = Null
    JobOrder <- TwoJobs
    OpChannels <- OneChannel
    AlertAfter = 2
    Faults = {"refuse"}
    MaxCount = 2
    MaxAlertId = 2
SPECIFICATION Spec
PROPERTIES
    MarkedWasSent
CHECK_DEADLOCK FALSE
