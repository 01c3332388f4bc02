SPECIFICATION Spec
CONSTANTS
    Pairs <- PreludePairs
    Shapes <- PreludeShapes
    Contents <- TextOnly
    MaxUsers = 1
    MaxAnswers = 4
    MaxPreludes = 3
    MaxPhrases = 9
INVARIANT FollowUpsBounded
CHECK_DEADLOCK FALSE
