CONSTANTS
    Parts = {"exec"}
    NoTag = NoTag
    NSymbols = 1
    Price = {1}
    Qty = {1}
    PnL <- Moves
    Caps = {}
    RefPrice = {}
    Banned = {}
    Limits <- NoStreak
    RingSize = 1
    Second = 1
    NoFile = NoFile
    NoOrder = NoOrder
    MaxNow = 0
    MaxPnL = 6
    MaxOpen = 1
    MaxCrash = 1
    MaxHistory = 0
    MaxChecks = 0
    MaxKills = 0
SPECIFICATION MCSpec
INVARIANT
    TwapWithin
CHECK_DEADLOCK FALSE
