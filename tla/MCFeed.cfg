CONSTANTS
    LastSeq = 4
    Window = 2
    Timeout = 1
    Attempts = 2
    Interval = 2
    MaxLog = 3
    Time = {1, 2, 4}
    Number = {1, 2, 4}
    Count = {0, 2}
    MaxRef = 3
    WirePrice = {100, 249}
    MaxShares = 2
    MaxLoss = 1
    MaxMessages = 4
SPECIFICATION Spec
INVARIANTS SequenceKept MetersTell BookFollows
PROPERTY GapsClose
CHECK_DEADLOCK FALSE
