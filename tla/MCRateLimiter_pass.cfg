SPECIFICATION LimiterSpec
CONSTANTS
    User = {u1, u2}
    Handler = {h1, h2}
    Limits = {0, 1, 2}
    Minute = 2
    MaxDelay = 1
    MaxClock = 4
    MaxCalls = 4
INVARIANTS AtMostLimitPerMinute RefusedOnlyWhenFull HitsForgotten
SYMMETRY Symmetry
