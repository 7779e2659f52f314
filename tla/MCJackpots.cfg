SPECIFICATION Spec
CONSTANTS
    c1 = c1
    c2 = c2
    c3 = c3
    c4 = c4
    n1 = n1
    Calls = {c1, c2, c3, c4}
    Combinations = {n1}
    Bets = {1, 2}
    MinBet = 2
    MaxBet = 2
    Rate = 1
    Opening = 1
SYMMETRY CallSymmetry
INVARIANTS TypeOK PoolIsBacked PoolIsExact CompletedIsFinal PaidTwiceOverlapped
CHECK_DEADLOCK FALSE
