SPECIFICATION FairSpec
CONSTANTS
    a = a  b = b  x = x
    Content = {a, b, x}
    Valid = {a, b}
    Absent = Absent
    WritesAtStart = TRUE
    Interval <- MCInterval
    Provider <- MCProvider
    Unsynced = Unsynced
    Timeout = 1
    Check = 1
    MaxAge = 5
INVARIANTS SeenIsLoaded IntervalHonoured
PROPERTIES SettledIsLoaded NotTooOften SnapshotKept SnapshotFollows
