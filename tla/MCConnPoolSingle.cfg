SPECIFICATION Spec
CONSTANTS
    Query = {q1, q2}
    Conn = {c1, c2}
    Dial = {d1, d2}
    MaxGen = 2
    Mode = "single"
    MaxInflight = 0
    None = None
CHECK_DEADLOCK FALSE
VIEW View
SYMMETRY Symmetry
INVARIANTS NoLeak TrackedIsOpen CreatedOnce OneDialPerState HolderNotified
PROPERTIES ReplacedStateFrozen ErrorsAreOwn KeepsPromise
