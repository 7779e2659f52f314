SPECIFICATION FairSpec
CONSTANTS
    s1 = s1
    s2 = s2
    b1 = b1
    p1 = p1
    c1 = c1
    c2 = c2
    Starters = {s1}
    Bets = {}
    Preset = {p1}
    Cashouts = {c1, c2}
    CrashPoints = {101, 20000}
    AutoOdds = 101
    CommandCap = 10
    MaxClock = 2
INVARIANTS TypeOK CashedOutOnce
PROPERTIES RequestsServed RefinesBook
CHECK_DEADLOCK FALSE
