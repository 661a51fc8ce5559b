CONSTANTS
    None = None
    Null = Null
    Operators = {p1, p2}
    Images = {A, B, C}
    Faults = {"fail", "crash", "health"}
    Processes = {p1, p2, p3}
    Maintainers = {p2, p3}
    OldVersions = {0, 1, 2}
    OldRuns <- RunsBefore
    Retain = 1
    Age = 2
    StoreFaults = {"crash"}
    MaxClock = 1
    Tasks = {p1, p2}
    Recipients = {r1, r2}
    Securities = {"starttls", "none"}
SPECIFICATION FairService
INVARIANTS
    TypesOK
    RecordsMatchProduction
    RollbackLeadsElsewhere
    StoresAreComplete
PROPERTIES
    EveryOperationServed
    PrunedIsBackedUp
    OnlySurplusExpires
    EveryStartOpens
    MaintenanceRecovers
    KeepsChannelContract
CHECK_DEADLOCK FALSE
