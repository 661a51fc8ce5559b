CONSTANTS
    Null = Null
    Bad = Bad
    Unset = Unset
    Schedules <- SomeSchedules
    DaysAhead = 1
    DayLength = 3
    OpeningTime = 1
    SlotEnd = 2
    Required = {0, 1, 3}
    LastDay = 2
    DrawDates = {d1, d2}
    Routes = {a, b}
    MaxEntries = 3
    Keys = {k1, k2}
    MockLastDay = 2
    MaxCalls = 2
    Jobs = {j1, j2}
    MaxEdits = 2
    MaxRuns = 2
    MaxRows = 2
SPECIFICATION BoundarySpec
SYMMETRY Alike
INVARIANTS
    TypesOK
    TableMatchesLayout
    AcceptedIsServable
PROPERTIES
    WindowIsCurrent
    DisappearsOnlyWhenOver
    OpensOnce
    RecordedIsComplete
    OutcomeIsExplained
CHECK_DEADLOCK FALSE
