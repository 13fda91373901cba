SPECIFICATION FairSpec
CONSTANTS
    Query = {q1, q2}
    Conn = {c1}
    Dial = {d1}
    MaxGen = 2
    Mode = "ordered"
    MaxInflight = 1
    None = None
CHECK_DEADLOCK FALSE
PROPERTIES AcquireReturns CloseClosesAll
