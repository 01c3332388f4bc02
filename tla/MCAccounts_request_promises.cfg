SPECIFICATION Spec
CONSTANTS
    Files <- MCFiles
    Rewrites <- MCRewrites
    Clients <- Protocol
    Minutes = {1, 2, 5, 6, 8, 9}
    Day = 12
    Demands <- MCDemands
    Usages <- MCUsages
    Hy3 = 1
    MaxPreludes = 3
    MaxPhrases = 2
INVARIANT RequestPromiseKept
CHECK_DEADLOCK FALSE
