SPECIFICATION Spec
CONSTANTS
    b1 = b1
    e1 = e1
    e2 = e2
    e3 = e3
    Bets = {b1}
    Edits = {e1, e2, e3}
    Stakes = {0, 1, 3}
    First <- FirstOfEach
SYMMETRY EditSymmetry

INVARIANTS TypeOK 
PROPERTIES SettledIsFinal
CHECK_DEADLOCK FALSE
