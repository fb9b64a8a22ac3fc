SPECIFICATION Spec
CONSTANTS
    r1 = r1
    r2 = r2
    r3 = r3
    e1 = e1
    e2 = e2
    idA = idA
    idB = idB
    Requests = {r1, r2, r3}
    Engines = {e1, e2}
    RequestIds = {idA, idB}
    IdOf <- MCIdOf
    MaxTime = 2
    SemanticCache = TRUE
    NoEngine = NoEngine
CHECK_DEADLOCK FALSE
SYMMETRY MCSymmetry
INVARIANTS
    PrefillCountExact
    NothingLost
    TtftNeverOver
