SPECIFICATION Spec
CONSTANTS
    Query = {q1, q2}
    Conn = {c1, c2, c3}
    Dial = {d1, d2}
    MaxGen = 2
    Mode = "ordered"
    MaxInflight = 1
    None = None
CHECK_DEADLOCK FALSE
SYMMETRY Symmetry
INVARIANTS ExclusiveUse InflightCapped
