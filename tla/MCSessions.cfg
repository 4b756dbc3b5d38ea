SPECIFICATION Spec
CONSTANTS
  Parts = {"ouch", "fix"}
  Unit = 12
  Tokens <- MCTokens
  Entries <- MCEntries
  Prices = {3, 4}
  MaxShares = 2
  MaxRequests = 2
  MaxReports = 3
  MaxDrops = 1
  Scenarios = {"orders", "clock", "kinds"}
  OrderIds <- MCOrderIds
  Plans <- MCPlans
  HeartBt = 3
  PollEvery = 1
  MaxDelay = 1
  MaxTime = 14
INVARIANTS    ReportsHeal
PROPERTY CatchesUp
CHECK_DEADLOCK FALSE
