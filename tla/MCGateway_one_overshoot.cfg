SPECIFICATION Spec
CONSTANTS
    u1 = u1  u2 = u2  w1 = w1  w2 = w2  w3 = w3  r1 = r1
    User = {u1}
    Worker = {w1, w2}
    Reporter = {}
    Periods <- OnePeriod
    Duration <- OneDuration
    Conf <- PlainConf
    Cost = {2}
    Health <- QuotaHealth
    NoLimits = NoLimits
    NoSnapshot = NoSnapshot
    NoBoost = NoBoost
    Nobody = Nobody
    MaxClock = 1
    Horizon = 2
    MaxSpent = 99
    MaxRev = 0
    DBReadFails = FALSE
    MaxCost = 2
    MaxLevel = 0
    Ceiling <- PlainCeiling
    HardCap = 3
SYMMETRY Symmetry
INVARIANTS AtMostOneOvershoot
