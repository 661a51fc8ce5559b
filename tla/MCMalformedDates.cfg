CONSTANTS
    Null = Null
    Bad = Bad
    a = a
    b = b
    DrawDates = {1, 2}
    Routes = {a, b}
    MaxEntries = 3
SPECIFICATION Spec
PROPERTIES
    MalformedDatesFail
CHECK_DEADLOCK FALSE
