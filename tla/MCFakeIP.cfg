SPECIFICATION Spec
CONSTANTS
    Domain = {d1, d2, d3}
    Caller = {p1, p2}
    Setups <- SomeSetups
    MaxAddr = 5
    MaxAge = 1
    NoRange = NoRange
    None = None
SYMMETRY Sym
INVARIANTS Bijection AnswersInRange
PROPERTIES FullCycle
