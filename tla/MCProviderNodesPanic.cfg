SPECIFICATION Spec
CONSTANTS
    a = a
    b = b
    c = c
    None = None
    Tag = {a, b, c}
    Lists <- NodeLists
    MaxNode = 3
    Closing = "always"
CHECK_DEADLOCK FALSE
INVARIANTS NoPanic
