SPECIFICATION Spec
CONSTANTS
    MaxLines <- Lines
    Odd = {"input", "unclosed", "doubled"}
INVARIANTS StreamPromiseKept
CHECK_DEADLOCK FALSE
