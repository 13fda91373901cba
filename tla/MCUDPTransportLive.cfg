SPECIFICATION LiveSpec
CONSTANTS
    q1 = q1
    q2 = q2
    q3 = q3
    Query = {q1, q2}
    Conn = {c1, c2}
    IdSpace = 1
    Size <- Sizes
    FirstSize = 1
    None = None
CHECK_DEADLOCK FALSE
INVARIANTS CanBeAnswered
PROPERTIES LearnsOfLoss
