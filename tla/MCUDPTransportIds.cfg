SPECIFICATION Spec
CONSTANTS
    q1 = q1
    q2 = q2
    q3 = q3
    Query = {q1, q2, q3}
    Conn = {c1}
    IdSpace = 2
    Size <- AllLarge
    FirstSize = 2
    None = None
CHECK_DEADLOCK FALSE
SYMMETRY Sym
INVARIANTS TypeOK AnswersOwn CallbacksMatch
