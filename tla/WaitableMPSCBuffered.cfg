CONSTANTS
    SIZE = 2
    Producer = {p1}
    Consumer = c1
    Value = {a}
    NoValue = none
    MaxHead = 2
SPECIFICATION WSpec
INVARIANT NoLostWakeup
