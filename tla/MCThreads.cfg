CONSTANTS
    SIZE = 4
    Value = {1, 2, 3, 4, 5, 6, 7}
    NoValue = none
    NumMessages = 7
    Capacity = 2
    Half = 8
    OrderIds = {0, 1}
    Kinds = {0, 1}
    Torn = torn
    MaxLogged = 3
    MaxStops = 2
    QueueCapacity = 2
    MaxQueued = 5
    RegionCapacity = 4
    MaxOpens = 3
    Garbled = garbled
SPECIFICATION MCSpec
INVARIANTS
    NoSlotRace
    EveryMessageOnce
    LogsComplete
    ReadersSee
PROPERTIES
    ImplementsFIFO
    EveryoneReturns
