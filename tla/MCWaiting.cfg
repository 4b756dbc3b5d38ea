CONSTANTS
    RingSize = 2
    Reader = {c1, c2, c3}
    MaxSeq = 5
    SIZE = 2
    Producer = {p1, p2}
    Value = {p1, p2}
    Consumer = s1
    NoValue = none
    MaxHead = 3
SPECIFICATION MCSpec
INVARIANTS
    UnreadIntact
    WaitingSafe
PROPERTIES
    ImplementsFIFO
    EverythingIsRead
