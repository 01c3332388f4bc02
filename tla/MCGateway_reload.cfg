SPECIFICATION Spec
CONSTANTS
    u1 = u1  u2 = u2  w1 = w1  w2 = w2  w3 = w3  r1 = r1
    User = {u1}
    Worker = {w1}
    Reporter = {r1}
    Periods <- OnePeriod
    Duration <- OneDuration
    Conf <- ReloadConf
    Cost = {2}
    Health <- ReloadHealth
    NoLimits = NoLimits
    NoSnapshot = NoSnapshot
    NoBoost = NoBoost
    Nobody = Nobody
    MaxClock = 1
    Horizon = 2
    MaxSpent = 6
    MaxRev = 1
    DBReadFails = TRUE
    MaxCost = 2
    MaxLevel = 2
    Ceiling <- ReloadCeiling
    HardCap = 9
SYMMETRY Symmetry
INVARIANTS TiersExact TiersBounded
