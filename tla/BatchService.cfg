CONSTANTS
    Batches = {b1, b2}
    Inputs = {f}
    Clients = {c1, c2}
    NoBatch = NoBatch
    MaxFaults = 2
SPECIFICATION Spec
INVARIANT OutputIsWhole
PROPERTY JobSpec
PROPERTY PendingTaken
CHECK_DEADLOCK FALSE
