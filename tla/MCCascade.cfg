CONSTANTS
    o1 = o1
    o2 = o2
    j1 = j1
    j2 = j2
    t1 = t1
    t2 = t2
    email = email
    console = console
    Null = Null
    Opportunities = {o1}
    Jobs = {j1, j2}
    Tasks = {t1, t2}
    Channels = {email}
    JobsOf <- OneTaskPerJob
    AlertOn <- EveryChange
    PlanChannels <- EveryChannel
    Observable <- TwoSnapshots
    Limit = 2
    ObservationAge = 0
    NotificationAge = 0
    Healthy = {}
    Faults = {"refuse"}
    MaxRuns = 4
    MaxClock = 1
SPECIFICATION Spec
INVARIANT NoIntentLost
CHECK_DEADLOCK FALSE
