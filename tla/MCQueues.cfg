CONSTANTS
    SIZE = 2
    Producer = {p1, p2}
    Consumer = {c1, c2}
    Value = {a, b}
    NoValue = none
    MaxHead = 3
    NoMsg = noMsg
SPECIFICATION MCSpec
SYMMETRY Threads
INVARIANTS
    NoCellRace
    RoutesBest
    RoutingSound
PROPERTIES
    ImplementsFIFO
    FramesInOrder
