CONSTANTS
    o1 = o1
    o2 = o2
    j1 = j1
    j2 = j2
    t1 = t1
    t2 = t2
    email = email
    console = console
    Null = Null
    Opportunities = {o1, o2}
    Jobs = {j1, j2}
    Tasks = {t1, t2}
    Channels = {email}
    JobsOf <- WorkerAndCommand
    AlertOn <- DifferentPlans
    PlanChannels <- EveryChannel
    Observable <- Replaced
    Limit = 2
    ObservationAge = 0
    NotificationAge = 0
    Healthy = {}
    Faults = {"abort", "refuse", "late"}
    MaxRuns = 3
    MaxClock = 1
SPECIFICATION UncascadedSpec
SYMMETRY DaysAlike
INVARIANTS
    TypeOK
    NoIntentLost
    RecordedWasAccepted
    ChangesExplainLatest
    RowsAreConsistent
    PagesStayValid
PROPERTIES
    AtLeastOnceDelivery
CHECK_DEADLOCK FALSE
