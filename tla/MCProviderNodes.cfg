SPECIFICATION Spec
CONSTANTS
    a = a
    b = b
    c = c
    None = None
    Tag = {a, b, c}
    Lists <- NodeLists
    MaxNode = 4
    Closing = "plain"
CHECK_DEADLOCK FALSE
INVARIANTS TypeOK NothingLost OffersCurrent NoPanic
