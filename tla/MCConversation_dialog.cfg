SPECIFICATION Spec
CONSTANTS
    Pairs <- MCPairs
    Shapes <- MCShapes
    Contents <- MCContents
    MaxUsers = 2
    MaxAnswers = 2
    MaxPreludes = 3
    MaxPhrases = 2
INVARIANTS
    DialogKept
    AttachmentsOwned
    ResultsInPlace
    TurnsWhole
    AnswersKept
CHECK_DEADLOCK FALSE
