CONSTANTS
    o1 = o1
    o2 = o2
    j1 = j1
    j2 = j2
    t1 = t1
    t2 = t2
    email = email
    console = console
    Null = Null
    Opportunities = {o1}
    Jobs = {j1}
    Tasks = {t1, t2}
    Channels = {email, console}
    JobsOf <- TwoTasksOneJob
    AlertOn <- EveryChange
    PlanChannels <- EveryChannel
    Observable <- TwoSnapshots
    Limit = 4
    ObservationAge = 0
    NotificationAge = 0
    Healthy = {console}
    Faults = {"abort"}
    MaxRuns = 2
    MaxClock = 0
SPECIFICATION FairSpec
PROPERTIES
    HealthySettled
CHECK_DEADLOCK FALSE
