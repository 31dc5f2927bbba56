CONSTANTS
    Requests = {r1, r2, r3, r4}
    Readings <- SomeReadings
    Stored <- SomeRows
    MaxRestarts = 1
SYMMETRY RequestsAlike
SPECIFICATION Spec
INVARIANT NothingLost
INVARIANT SummariesFollow
INVARIANT StoredIsShown
PROPERTY LatestStays
CHECK_DEADLOCK FALSE
