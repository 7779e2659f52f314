SPECIFICATION Spec
CONSTANTS
    s1 = s1
    s2 = s2
    b1 = b1
    p1 = p1
    c1 = c1
    c2 = c2
    Starters = {s1, s2}
    Bets = {b1}
    Preset = {}
    Cashouts = {c1}
    CrashPoints = {101, 20000}
    AutoOdds = 101
    CommandCap = 10
    MaxClock = 1
INVARIANTS SettledAfterCrash
CHECK_DEADLOCK FALSE
