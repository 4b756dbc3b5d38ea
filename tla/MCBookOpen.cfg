CONSTANTS
    MaxTick = 3
    Pool = 3
    MaxId = 12
    Client = {0, 1, 2, 3}
    Firm <- Firms
    Scenarios <- Opening
    MaxFills = 1
    Band = {1, 2}
    Surplus = 1
SPECIFICATION DaySpec
CHECK_DEADLOCK FALSE
INVARIANT OpensUncrossed
