SPECIFICATION Spec
CONSTANTS
    c1 = c1
    c2 = c2
    Calls = {c1, c2}
    Amounts = {1, 2}
    MaxBetPerEvent = 2
    MaxDailyStake = 2
    MaxWeeklyStake = 2
    MaxMonthlyStake = 3
    SlotsPerDay = 2
    Offset = 1
    FirstWeekday = 6
    MonthStarts = {0, 1}
    Horizon = 3
SYMMETRY CallSymmetry
INVARIANTS WeeklyLimit
CHECK_DEADLOCK FALSE
