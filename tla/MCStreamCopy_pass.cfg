SPECIFICATION FairSpec
CONSTANTS
    Script <- MCScript
    NoUsage = NoUsage
    MaxBeats = 2
INVARIANTS BilledAsRead ClientSeesAll EndedOnce
PROPERTIES DepartureEndsStream NoGoroutineLeak
CHECK_DEADLOCK FALSE
