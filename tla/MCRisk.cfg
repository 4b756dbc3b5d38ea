CONSTANTS
    Parts = {"halt", "record", "ledger", "exec", "strategies", "backtest"}
    NoTag = NoTag
    NSymbols = 2
    Price = {1}
    Qty = {1}
    PnL <- Moves
    Caps = {}
    RefPrice = {}
    Banned = {1}
    Limits <- Breakers
    RingSize = 4
    Second = 2
    NoFile = NoFile
    NoOrder = NoOrder
    MaxNow = 2
    MaxPnL = 4
    MaxOpen = 0
    MaxCrash = 1
    MaxHistory = 3
    MaxChecks = 1
    MaxKills = 1
SPECIFICATION MCSpec
INVARIANTS
    ExposureExact
    HaltHolds
    
    
PROPERTY
    OnlyReleasesOverExpose
CHECK_DEADLOCK FALSE
