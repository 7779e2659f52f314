SPECIFICATION Spec
CONSTANTS
    c1 = c1
    c2 = c2
    c3 = c3
    Callers = {c1, c2, c3}
    MaxTokens = 2
    Interval = 4
    Horizon = 11
SYMMETRY CallerSymmetry
INVARIANTS RefusedAtFullRate
CHECK_DEADLOCK FALSE
