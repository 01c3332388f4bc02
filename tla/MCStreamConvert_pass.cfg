SPECIFICATION Spec
CONSTANTS
    MaxLines <- Lines
    Odd = {"late", "unindexed", "interleaved", "input", "running", "incomplete",
           "unclosed", "doubled"}
INVARIANTS ContentKept BlocksPaired AnswerEndsOnce UsageKept OutputComplete PhaseAccurate
CHECK_DEADLOCK FALSE
