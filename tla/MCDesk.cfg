CONSTANTS
    Symbols = {s1, s2}
    Price = {0, 10, 25}
    FillPrice = {10, 25}
    Qty = {0, 1, 3}
    Expiry = {0, 1}
    Scale = 10
    MaxPosition = 3
    MaxOrderValue = 7
    HalfWord = 1024
    MaxOrders = 2
    Commissions = {0, 1}
    MaxAsides = 2
    NoFile = NoFile
    NoOrder = NoOrder
SYMMETRY Symmetric
SPECIFICATION MCSpec
INVARIANTS
    PendingIsOpen
    LedgerExact
    DeskReports
    TradingSound
PROPERTIES
    OnlyCancelsOverCommit
    NoOrderInLoss
CHECK_DEADLOCK FALSE
