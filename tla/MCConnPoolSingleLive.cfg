SPECIFICATION FairSpec
CONSTANTS
    Query = {q1, q2}
    Conn = {c1}
    Dial = {d1}
    MaxGen = 2
    Mode = "single"
    MaxInflight = 0
    None = None
CHECK_DEADLOCK FALSE
PROPERTIES AcquireReturns CloseClosesAll
