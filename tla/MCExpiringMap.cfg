SPECIFICATION LiveSpec
CONSTANTS
    Key = {k1, k2}
    Client = {c1, c2}
    Lifetime = 3
    MaxStale = 2
INVARIANTS NoLostWakeup
PROPERTIES KeepsLifetimes ExpiredRemoved CloseReturns
